-------------------------- MODULE RunCompletionProofs --------------------------
(***************************************************************************)
(* Theorems of RunCompletion, for every set of credits in either phase,    *)
(* every failure threshold and every combination of troubles: a credit and *)
(* its record go together, the controller stops once, and exported results *)
(* that do not say they were cut short hold the record of every request    *)
(* counted as completed.  That an aborted run exits with an error is       *)
(* proved of the runs that do not meet a grace period that passes and a    *)
(* failure threshold both: then the record of a credit that was given up   *)
(* may raise the alarm when the results are out already.                   *)
(***************************************************************************)
EXTENDS RunCompletion, FiniteSetTheorems, SequenceTheorems, TLAPS

(***************************************************************************)
(* The types, by process.                                                  *)
(***************************************************************************)
TimingTypes ==
  /\ setup \in Setups
  /\ current \in {1, 2}
  /\ run \in {"sending", "returning", "draining", "complete", "over"}
  /\ halted \in BOOLEAN /\ forced \in BOOLEAN /\ warned \in BOOLEAN
  /\ cancelling \in {"no", "begun", "done"}

WorkerTypes ==
  /\ task \in [Credits -> {"unsent", "sent", "returning", "counted", "late"}]
  /\ outcome \in [Credits -> {"none", "completed", "cancelled"}]
  /\ toCancel \subseteq Credits
  /\ record \in [Credits -> {"none", "processor", "manager", "tracked"}]
  /\ failed \subseteq Credits

\* What each service has a handler for.
Handled(s) ==
  IF s = "timing" THEN Cancels
  ELSE IF s = "records" THEN Stats \cup Cancels \cup [type : {"credits_complete"}]
  ELSE Cancels \cup [type : {"results", "reply"}, results : Results]

InboxTypes ==
  /\ inbox = [s \in Services |-> inbox[s]]
  /\ \A s \in Services : inbox[s] \in Seq(Handled(s))

Trackers == [final : Nat \cup {NotFrozen}, cancelled : BOOLEAN, done : BOOLEAN,
             aborted : BOOLEAN]
Jobs == [from : Reasons \cup {"barrier"}, cancelled : BOOLEAN]
Controllers == [state : {"running", "cancelling", "stopping", "exited"},
                cancelled : BOOLEAN, shutdown : BOOLEAN, results : Results,
                errors : BOOLEAN, stops : Nat]

Types == /\ TimingTypes /\ WorkerTypes /\ InboxTypes
         /\ tracker \in Trackers /\ jobs \subseteq Jobs /\ controller \in Controllers

(***************************************************************************)
(* The invariant.                                                          *)
(***************************************************************************)
\* The messages that wait for a service.
MessagesOf(q) == {q[i] : i \in DOMAIN q}
Waiting(s) == MessagesOf(inbox[s])

\* The counts of the profiling phase do not change any more.
Frozen == current = 2 /\ run \in {"complete", "over"}

\* A credit has an outcome, and maybe a record, once its task has ended.
TasksEnded ==
  \A c \in Credits :
    IF task[c] \in {"unsent", "sent"} THEN outcome[c] = "none" /\ record[c] = "none"
                                      ELSE outcome[c] # "none"

\* stop() is called on the way into the last two states.
Stopping ==
  /\ controller.stops = IF controller.state \in {"running", "cancelling"} THEN 0 ELSE 1
  /\ controller.shutdown <=> controller.state # "running"
  /\ controller.state = "cancelling" => controller.cancelled

\* What the records manager knows of the final count, or will.
CountsAgree ==
  /\ Frozen /\ ~halted /\ ~forced => \A c \in Profiling : task[c] \in {"unsent", "counted"}
  /\ \A m \in Waiting("records") :
       /\ m.type \in {"start", "sent"} => m.final = NotFrozen
       /\ m.type = "complete" => /\ Frozen /\ m.final = Cardinality(Counted)
                                 /\ halted => m.cancelled
  /\ tracker.final # NotFrozen => /\ Frozen /\ tracker.final = Cardinality(Counted)
                                  /\ halted => tracker.cancelled

\* Results that do not say they were cut short hold every record.
Whole(results) ==
  results.some /\ ~results.cancelled
    => Frozen /\ (forced \/ Counted \subseteq results.records)

ResultsWhole ==
  /\ \A j \in jobs : ~j.cancelled => Frozen /\ (forced \/ Counted \subseteq Tracked)
  /\ \A m \in Waiting("controller") : m.type \in {"results", "reply"} => Whole(m.results)
  /\ Whole(controller.results)

\* Nobody has asked for a cancellation.
Calm == ~controller.cancelled /\ ~Aborted

\* A cancellation goes back to somebody who asked for it.
CancelsAsked ==
  /\ Calm => /\ ~halted /\ cancelling = "no" /\ inbox["timing"] = <<>>
             /\ \A m \in Waiting("records") : m.type # "cancel"
             /\ \A j \in jobs : j.from = "barrier"
  /\ ~controller.cancelled =>
       /\ \A m \in Waiting("records") : m.type = "cancel" => m.reason # "user"
       /\ \A j \in jobs : j.from # "user"
  /\ \A m \in Waiting("controller") : m.type = "cancel" => m.reason \in Aborts
  /\ forced => Frozen

\* The controller hears of an abort before any results, unless the phase gave up
\* on credits whose records may still raise it.
Ahead(q) == \E i \in DOMAIN q : \A k \in 1..i : q[k].type = "cancel"
AbortAhead == Ahead(inbox["controller"])

AbortsHeard ==
  /\ Calm /\ (\/ jobs # {} \/ controller.state # "running"
              \/ \E m \in Waiting("controller") : m.type # "cancel")
       => tracker.done
  /\ Calm /\ tracker.done => Frozen /\ (forced \/ Counted \subseteq Tracked)
  /\ ~controller.cancelled /\ Aborted /\ ~controller.errors /\ ~forced
       => controller.state = "running" /\ AbortAhead

IInv == Types /\ TasksEnded /\ RecordsInLockstep /\ Stopping /\ CountsAgree /\ ResultsWhole

\* With what the aborts need besides.
AbortIInv == IInv /\ CancelsAsked /\ AbortsHeard

-------------------------------------------------------------------------------
(***************************************************************************)
(* Messages.                                                               *)
(***************************************************************************)
\* A message that is told comes last, and adds itself to those that wait.
LEMMA Appended ==
  ASSUME NEW S, NEW q \in Seq(S), NEW m \in S
  PROVE  /\ Append(q, m) \in Seq(S)
         /\ MessagesOf(Append(q, m)) = MessagesOf(q) \cup {m}
<1>1. Append(q, m) \in Seq(S) /\ Len(Append(q, m)) = Len(q) + 1 /\ Len(q) \in Nat
  BY LenProperties
<1>2. DOMAIN Append(q, m) = 1..(Len(q) + 1) /\ DOMAIN q = 1..Len(q)
  BY <1>1, LenProperties
<1>3. /\ \A i \in 1..Len(q) : Append(q, m)[i] = q[i]
      /\ Append(q, m)[Len(q) + 1] = m
  BY <1>1
<1>4. Len(q) + 1 \in 1..(Len(q) + 1) /\ 1..Len(q) \subseteq 1..(Len(q) + 1)
      /\ \A i \in 1..(Len(q) + 1) : i \in 1..Len(q) \/ i = Len(q) + 1
  BY <1>1
<1> QED BY <1>1, <1>2, <1>3, <1>4 DEF MessagesOf

\* The head is one of the messages, and the tail holds no others.
LEMMA Taken ==
  ASSUME NEW S, NEW q \in Seq(S), q # <<>>
  PROVE  /\ Head(q) \in S /\ Head(q) \in MessagesOf(q)
         /\ Tail(q) \in Seq(S)
         /\ MessagesOf(Tail(q)) \subseteq MessagesOf(q)
<1>1. /\ Head(q) \in S /\ Tail(q) \in Seq(S) /\ Len(Tail(q)) = Len(q) - 1
      /\ \A i \in 1..Len(Tail(q)) : Tail(q)[i] = q[i + 1]
  BY HeadTailProperties
<1>2. /\ Len(q) \in Nat \ {0} /\ DOMAIN q = 1..Len(q) /\ DOMAIN Tail(q) = 1..(Len(q) - 1)
  BY <1>1, LenProperties, EmptySeq
<1>3. Head(q) = q[1]
  OBVIOUS
<1>4. 1 \in 1..Len(q) /\ \A i \in 1..(Len(q) - 1) : i + 1 \in 1..Len(q)
  BY <1>2
<1> QED BY <1>1, <1>2, <1>3, <1>4 DEF MessagesOf

\* What is told to one service.
LEMMA ToldOne ==
  ASSUME InboxTypes, NEW s \in Services, NEW m \in Handled(s), inbox' = Tell(s, m)
  PROVE  /\ InboxTypes' /\ Waiting(s)' = Waiting(s) \cup {m}
         /\ inbox'[s] = Append(inbox[s], m)
         /\ \A t \in Services : t # s => inbox'[t] = inbox[t] /\ Waiting(t)' = Waiting(t)
<1>1. /\ inbox = [t \in Services |-> inbox[t]]
      /\ \A t \in Services : inbox[t] \in Seq(Handled(t))
  BY DEF InboxTypes
<1>2. inbox' = [inbox EXCEPT ![s] = Append(inbox[s], m)]
  BY DEF Tell
<1>3. inbox' = [t \in Services |-> inbox'[t]] /\ inbox'[s] = Append(inbox[s], m)
      /\ \A t \in Services : t # s => inbox'[t] = inbox[t]
  BY <1>1, <1>2
<1>4. /\ Append(inbox[s], m) \in Seq(Handled(s))
      /\ Waiting(s)' = Waiting(s) \cup {m}
  BY <1>1, <1>3, Appended DEF Waiting
<1>5. \A t \in Services : t # s => Waiting(t)' = Waiting(t)
  BY <1>3 DEF Waiting
<1>6. \A t \in Services : inbox'[t] \in Seq(Handled(t))
  BY <1>1, <1>3, <1>4, Zenon
<1>7. InboxTypes'
  BY <1>3, <1>6, Zenon DEF InboxTypes, Handled
<1> QED BY <1>3, <1>4, <1>5, <1>7

\* What is broadcast.
LEMMA ToldAll ==
  ASSUME InboxTypes, NEW m, \A s \in Services : m \in Handled(s), inbox' = TellAll(m)
  PROVE  /\ InboxTypes'
         /\ \A s \in Services : /\ Waiting(s)' = Waiting(s) \cup {m}
                                /\ inbox'[s] = Append(inbox[s], m)
<1>1. \A t \in Services : inbox[t] \in Seq(Handled(t))
  BY DEF InboxTypes
<1>2. inbox' = [s \in Services |-> Append(inbox[s], m)]
  BY DEF TellAll
<1>3. inbox' = [s \in Services |-> inbox'[s]]
      /\ \A s \in Services : inbox'[s] = Append(inbox[s], m)
  BY <1>2
<1>4. ASSUME NEW s \in Services
      PROVE  inbox'[s] \in Seq(Handled(s)) /\ Waiting(s)' = Waiting(s) \cup {m}
  <2>1. inbox[s] \in Seq(Handled(s)) /\ m \in Handled(s)
    BY <1>1
  <2>2. /\ Append(inbox[s], m) \in Seq(Handled(s))
        /\ MessagesOf(Append(inbox[s], m)) = MessagesOf(inbox[s]) \cup {m}
    BY <2>1, Appended
  <2> QED BY <1>3, <2>2 DEF Waiting
<1>5. InboxTypes'
  BY <1>3, <1>4, Zenon DEF InboxTypes, Handled
<1> QED BY <1>3, <1>4, <1>5

\* What a service takes from its inbox.
LEMMA TakenOne ==
  ASSUME InboxTypes, NEW s \in Services, inbox[s] # <<>>,
         inbox' = [inbox EXCEPT ![s] = Tail(@)]
  PROVE  /\ InboxTypes' /\ Waiting(s)' \subseteq Waiting(s)
         /\ Head(inbox[s]) \in Waiting(s) /\ Head(inbox[s]) \in Handled(s)
         /\ inbox'[s] = Tail(inbox[s])
         /\ \A t \in Services : t # s => inbox'[t] = inbox[t] /\ Waiting(t)' = Waiting(t)
<1>1. /\ inbox = [t \in Services |-> inbox[t]]
      /\ \A t \in Services : inbox[t] \in Seq(Handled(t))
  BY DEF InboxTypes
<1>2. inbox' = [t \in Services |-> inbox'[t]] /\ inbox'[s] = Tail(inbox[s])
      /\ \A t \in Services : t # s => inbox'[t] = inbox[t]
  BY <1>1
<1>3. /\ Tail(inbox[s]) \in Seq(Handled(s)) /\ Waiting(s)' \subseteq Waiting(s)
      /\ Head(inbox[s]) \in Waiting(s) /\ Head(inbox[s]) \in Handled(s)
  BY <1>1, <1>2, Taken DEF Waiting
<1>4. \A t \in Services : t # s => Waiting(t)' = Waiting(t)
  BY <1>2 DEF Waiting
<1>5. \A t \in Services : inbox'[t] \in Seq(Handled(t))
  BY <1>1, <1>2, <1>3, Zenon
<1>6. InboxTypes'
  BY <1>2, <1>5, Zenon DEF InboxTypes, Handled
<1> QED BY <1>2, <1>3, <1>4, <1>6

\* Results go out once, and once more as the reply to a cancel command.
LEMMA SentOut ==
  ASSUME InboxTypes, NEW m \in Handled("controller"), NEW r \in Handled("controller"),
         NEW both \in BOOLEAN,
         inbox' = [inbox EXCEPT !["controller"] = @ \o (IF both THEN <<m, r>> ELSE <<m>>)]
  PROVE  /\ InboxTypes'
         /\ Waiting("controller") \subseteq Waiting("controller")'
         /\ Waiting("controller")' \subseteq Waiting("controller") \cup {m, r}
         /\ ~both => Waiting("controller")' = Waiting("controller") \cup {m}
         /\ \/ inbox'["controller"] = Append(inbox["controller"], m)
            \/ inbox'["controller"] = Append(Append(inbox["controller"], m), r)
         /\ \A t \in Services : t # "controller" => inbox'[t] = inbox[t]
                                                    /\ Waiting(t)' = Waiting(t)
<1> DEFINE q == inbox["controller"]
           c == "controller"
<1>1. /\ inbox = [t \in Services |-> inbox[t]] /\ c \in Services
      /\ \A t \in Services : inbox[t] \in Seq(Handled(t))
  BY DEF InboxTypes, Services
<1>2. /\ q \in Seq(Handled(c)) /\ Append(q, m) \in Seq(Handled(c))
      /\ Append(Append(q, m), r) \in Seq(Handled(c))
      /\ MessagesOf(Append(q, m)) = Waiting(c) \cup {m}
      /\ MessagesOf(Append(Append(q, m), r)) = Waiting(c) \cup {m} \cup {r}
  <2>1. q \in Seq(Handled(c))
    BY <1>1
  <2>2. /\ Append(q, m) \in Seq(Handled(c))
        /\ MessagesOf(Append(q, m)) = Waiting(c) \cup {m}
    BY <2>1, Appended DEF Waiting
  <2> DEFINE p == Append(q, m)
  <2> HIDE DEF p
  <2>3. p \in Seq(Handled(c)) /\ MessagesOf(p) = Waiting(c) \cup {m}
    BY <2>2 DEF p
  <2>4. /\ Append(p, r) \in Seq(Handled(c))
        /\ MessagesOf(Append(p, r)) = Waiting(c) \cup {m} \cup {r}
    BY <2>3, Appended
  <2> QED BY <2>1, <2>2, <2>4 DEF p
<1>3. q \o <<m>> = Append(q, m) /\ q \o <<m, r>> = Append(Append(q, m), r)
  <2>1. q \in Seq(Handled(c))
    BY <1>1
  <2> HIDE DEF q
  <2> QED BY <2>1
<1>4. /\ inbox'[c] = IF both THEN Append(Append(q, m), r) ELSE Append(q, m)
      /\ inbox' = [t \in Services |-> inbox'[t]]
      /\ \A t \in Services : t # c => inbox'[t] = inbox[t]
  BY <1>1, <1>3
<1>5. \A t \in Services : t # c => Waiting(t)' = Waiting(t)
  BY <1>4 DEF Waiting
<1>6. Waiting(c)' = IF both THEN Waiting(c) \cup {m} \cup {r} ELSE Waiting(c) \cup {m}
  BY <1>2, <1>4 DEF Waiting
<1>7. \A t \in Services : inbox'[t] \in Seq(Handled(t))
  BY <1>1, <1>2, <1>4
<1>8. InboxTypes'
  BY <1>4, <1>7, Zenon DEF InboxTypes, Handled
<1> QED BY <1>4, <1>5, <1>6, <1>8

-------------------------------------------------------------------------------
\* The two phases, and the counts over them.
LEMMA ThePhases ==
  ASSUME TimingTypes
  PROVE  /\ DOMAIN Phases = {1, 2} /\ Phases[1] = Warmup /\ Phases[2] = Profiling
         /\ Phases[current] \subseteq Credits
         /\ Frozen => Phases[current] = Profiling
         /\ FinalCompleted(Phases[current]) \in Nat
         /\ current = 2 => FinalCompleted(Phases[current]) = Cardinality(Counted)
         /\ IsFiniteSet(Counted) /\ Cardinality(Counted) \in Nat
<1>1. DOMAIN Phases = {1, 2} /\ Phases[1] = Warmup /\ Phases[2] = Profiling
  BY DEF Phases
<1>2. Phases[current] \subseteq Credits
  BY <1>1 DEF TimingTypes, Credits
<1>3. \A p \in SUBSET Credits :
        IsFiniteSet({c \in p : task[c] = "counted" /\ outcome[c] = "completed"})
  BY CreditsAssumption, FS_Subset
<1>4. FinalCompleted(Phases[current]) \in Nat
  BY <1>2, <1>3, FS_CardinalityType DEF FinalCompleted
<1>5. IsFiniteSet(Counted)
  BY <1>3 DEF Counted, Credits
<1>6. Cardinality(Counted) \in Nat
  BY <1>5, FS_CardinalityType
<1>7. current = 2 => FinalCompleted(Phases[current]) = Cardinality(Counted)
  BY <1>1 DEF FinalCompleted, Counted
<1>8. Frozen => Phases[current] = Profiling
  BY <1>1 DEF Frozen
<1> QED BY <1>1, <1>2, <1>4, <1>5, <1>6, <1>7, <1>8

\* Each kind of message has its reader.
LEMMA MessageTypes ==
  /\ \A r \in Reasons : \A s \in Services : CancelCommand(r) \in Handled(s)
  /\ \A t \in {"start", "sent", "complete"}, f \in Nat \cup {NotFrozen}, b \in BOOLEAN :
       PhaseStats(t, f, b) \in Handled("records")
  /\ [type |-> "credits_complete"] \in Handled("records")
  /\ \A t \in {"results", "reply"}, r \in Results :
       [type |-> t, results |-> r] \in Handled("controller")
  /\ "user" \in Reasons /\ "warmup" \in Reasons /\ "threshold" \in Reasons
BY DEF CancelCommand, PhaseStats, Handled, Services, Stats, Cancels, Reasons, Aborts

-------------------------------------------------------------------------------
(***************************************************************************)
(* The invariant, part by part.                                            *)
(***************************************************************************)
\* The steps in which a task or a record goes on.
TaskSteps == \/ \E c \in Credits : Issue(c) \/ CreditReturns(c) \/ CancelTask(c) \/ FinishTask(c)
             \/ \E c \in Profiling : ProcessRecord(c) \/ TrackRecord(c)

\* No other step touches either.
LEMMA OtherSteps ==
  ASSUME [Next]_vars, ~TaskSteps
  PROVE  UNCHANGED <<task, outcome, record, failed>>
<1>1. CASE Timing
  BY <1>1 DEF Timing, TaskSteps, EndSending, CompletePhase, ForceCompletion, Freeze, NextPhase,
              CreditsComplete, BeginCancel, CancelRunners, recordVars, workerVars
<1>2. CASE Workers
  BY <1>2 DEF Workers, TaskSteps
<1>3. CASE Manager \/ Controller
  BY <1>3 DEF Manager, Controller, TaskSteps, HandleNotice, PublishResults, HandleMessage,
              Exit, controllerUnchanged, recordVars, workerVars
<1>4. CASE GraceOver \/ UserCancels \/ ReplyTimeout
  BY <1>4 DEF GraceOver, UserCancels, ReplyTimeout, controllerUnchanged, recordVars, workerVars
<1>5. CASE UNCHANGED vars
  BY <1>5 DEF vars, recordVars, workerVars
<1> QED BY <1>1, <1>2, <1>3, <1>4, <1>5 DEF Next, Step

\* A task goes on, and its record with it.
LEMMA KeepsTasks ==
  ASSUME Types, TasksEnded, RecordsInLockstep, [Next]_vars
  PROVE  /\ TasksEnded' /\ RecordsInLockstep' /\ WorkerTypes'
         /\ \A c \in Credits : record[c] = "tracked" => record'[c] = "tracked"
<1>1. /\ task \in [Credits -> {"unsent", "sent", "returning", "counted", "late"}]
      /\ outcome \in [Credits -> {"none", "completed", "cancelled"}]
      /\ record \in [Credits -> {"none", "processor", "manager", "tracked"}]
      /\ failed \subseteq Credits /\ toCancel \subseteq Credits /\ Profiling \subseteq Credits
  BY DEF Types, WorkerTypes, Credits
<1>2. toCancel' \subseteq Credits
  <2>1. OnTheWay \subseteq Credits
    BY DEF OnTheWay
  <2>2. CASE Timing
    BY <1>1, <2>1, <2>2 DEF Timing, Issue, CreditReturns, EndSending, CompletePhase,
       ForceCompletion, Freeze, NextPhase, CreditsComplete, BeginCancel, CancelRunners, workerVars
  <2>3. CASE Workers
    BY <1>1, <2>3 DEF Workers, ProcessRecord, CancelTask, FinishTask, Return, workerVars
  <2>4. CASE Manager \/ Controller
    BY <1>1, <2>4 DEF Manager, Controller, TrackRecord, HandleNotice, PublishResults,
       HandleMessage, Exit, controllerUnchanged, workerVars
  <2>5. CASE GraceOver \/ UserCancels \/ ReplyTimeout
    BY <1>1, <2>1, <2>5 DEF GraceOver, UserCancels, ReplyTimeout, controllerUnchanged, workerVars
  <2>6. CASE UNCHANGED vars
    BY <1>1, <2>6 DEF vars, workerVars
  <2> QED BY <2>2, <2>3, <2>4, <2>5, <2>6 DEF Next, Step
<1> DEFINE Goal == /\ TasksEnded' /\ RecordsInLockstep'
                   /\ task' \in [Credits -> {"unsent", "sent", "returning", "counted", "late"}]
                   /\ outcome' \in [Credits -> {"none", "completed", "cancelled"}]
                   /\ record' \in [Credits -> {"none", "processor", "manager", "tracked"}]
                   /\ failed' \subseteq Credits
                   /\ \A c \in Credits : record[c] = "tracked" => record'[c] = "tracked"
<1>3. ASSUME NEW c \in Credits, Issue(c)
      PROVE  Goal
  <2>1. /\ task[c] = "unsent" /\ task' = [task EXCEPT ![c] = "sent"]
        /\ UNCHANGED <<outcome, record, failed>>
    BY <1>3 DEF Issue, recordVars
  <2> QED BY <1>1, <2>1 DEF TasksEnded, RecordsInLockstep
<1>4. ASSUME NEW c \in Credits, CreditReturns(c)
      PROVE  Goal
  <2>1. /\ task[c] = "returning" /\ UNCHANGED <<outcome, record, failed>>
        /\ task' = [task EXCEPT ![c] = "late"] \/ task' = [task EXCEPT ![c] = "counted"]
    BY <1>4 DEF CreditReturns, recordVars
  <2> QED BY <1>1, <2>1 DEF TasksEnded, RecordsInLockstep
<1>5. ASSUME NEW c \in Credits, CancelTask(c)
      PROVE  Goal
  <2>1. /\ task[c] = "sent" /\ task' = [task EXCEPT ![c] = "returning"]
        /\ outcome' = [outcome EXCEPT ![c] = "cancelled"] /\ UNCHANGED <<record, failed>>
    BY <1>5 DEF CancelTask, Return, recordVars
  <2> QED BY <1>1, <2>1 DEF TasksEnded, RecordsInLockstep
<1>6. ASSUME NEW c \in Credits, FinishTask(c)
      PROVE  Goal
  <2>1. /\ task[c] = "sent" /\ task' = [task EXCEPT ![c] = "returning"]
        /\ outcome' = [outcome EXCEPT ![c] = "completed"]
        /\ record' = [record EXCEPT ![c] = "processor"]
        /\ failed' \subseteq failed \cup {c}
    BY <1>6 DEF FinishTask, Return, RecordsLeft, Failing
  <2> QED BY <1>1, <2>1 DEF TasksEnded, RecordsInLockstep
<1>7. ASSUME NEW c \in Profiling, ProcessRecord(c)
      PROVE  Goal
  <2>1. /\ record[c] = "processor" /\ record' = [record EXCEPT ![c] = "manager"]
        /\ failed' \subseteq failed \cup {c} /\ UNCHANGED <<task, outcome>> /\ c \in Credits
    BY <1>1, <1>7 DEF ProcessRecord, Failing, workerVars
  <2> QED BY <1>1, <2>1 DEF TasksEnded, RecordsInLockstep
<1>8. ASSUME NEW c \in Profiling, TrackRecord(c)
      PROVE  Goal
  <2>1. /\ record[c] = "manager" /\ record' = [record EXCEPT ![c] = "tracked"]
        /\ UNCHANGED <<task, outcome, failed>> /\ c \in Credits
    BY <1>1, <1>8 DEF TrackRecord, workerVars
  <2> QED BY <1>1, <2>1 DEF TasksEnded, RecordsInLockstep
<1>9. ASSUME ~TaskSteps
      PROVE  Goal
  <2>1. UNCHANGED <<task, outcome, record, failed>>
    BY <1>9, OtherSteps
  <2> QED BY <1>1, <2>1 DEF TasksEnded, RecordsInLockstep
<1>10. Goal
  <2> HIDE DEF Goal
  <2> QED BY <1>3, <1>4, <1>5, <1>6, <1>7, <1>8, <1>9 DEF TaskSteps
<1> QED BY <1>2, <1>10 DEF WorkerTypes

\* The variables of the timing manager keep their types.
LEMMA KeepsTimingTypes ==
  ASSUME Types, [Next]_vars
  PROVE  TimingTypes'
<1>1. TimingTypes /\ DOMAIN Phases = {1, 2}
  BY ThePhases DEF Types
<1>2. CASE Timing
  <2>1. ASSUME NEW c \in Credits, Issue(c) \/ CreditReturns(c)
        PROVE  TimingTypes'
    BY <1>1, <2>1 DEF TimingTypes, Issue, CreditReturns, timingVars
  <2>2. CASE EndSending \/ CompletePhase \/ ForceCompletion
    BY <1>1, <2>2 DEF TimingTypes, EndSending, CompletePhase, ForceCompletion, Freeze
  <2>3. CASE NextPhase \/ CreditsComplete \/ BeginCancel \/ CancelRunners
    BY <1>1, <2>3 DEF TimingTypes, NextPhase, CreditsComplete, BeginCancel, CancelRunners
  <2> QED BY <1>2, <2>1, <2>2, <2>3 DEF Timing
<1>3. CASE Workers \/ Manager \/ Controller \/ UserCancels \/ ReplyTimeout \/ UNCHANGED vars
  <2>1. UNCHANGED timingVars
    BY <1>3 DEF Workers, ProcessRecord, CancelTask, FinishTask, Return, workerUnchanged,
       Manager, TrackRecord, HandleNotice, PublishResults, Controller, HandleMessage, Exit,
       UserCancels, ReplyTimeout, controllerUnchanged, vars
  <2> QED BY <1>1, <2>1 DEF TimingTypes, timingVars
<1>4. CASE GraceOver
  BY <1>1, <1>4 DEF TimingTypes, GraceOver
<1> QED BY <1>2, <1>3, <1>4 DEF Next, Step

\* The controller stops once.
LEMMA KeepsController ==
  ASSUME Types, Stopping, [Next]_vars
  PROVE  controller' \in Controllers /\ Stopping'
<1> DEFINE ct == controller
<1>1. controller \in Controllers /\ InboxTypes
  BY DEF Types
<1>2. ASSUME NEW r \in Results
      PROVE  /\ [ct EXCEPT !.results = r] \in Controllers
             /\ [ct EXCEPT !.results = r].state = ct.state
             /\ [ct EXCEPT !.results = r].stops = ct.stops
             /\ [ct EXCEPT !.results = r].shutdown = ct.shutdown
             /\ [ct EXCEPT !.results = r].cancelled = ct.cancelled
  BY <1>1 DEF Controllers
<1> DEFINE Sound(x) ==
      /\ x \in Controllers
      /\ x.stops = IF x.state \in {"running", "cancelling"} THEN 0 ELSE 1
      /\ x.shutdown <=> x.state # "running"
      /\ x.state = "cancelling" => x.cancelled
<1>3. Sound(controller)
  BY <1>1 DEF Stopping
<1>4. ASSUME Sound(controller')
      PROVE  controller' \in Controllers /\ Stopping'
  BY <1>4 DEF Stopping
<1>5. ASSUME NEW x, Sound(x)
      PROVE  Sound(Stop(x)) /\ Sound(StopAfterCancel(x))
  <2>1. Sound(Stop(x))
    <3>1. CASE x.shutdown
      BY <1>5, <3>1 DEF Stop
    <3>2. CASE ~x.shutdown
      <4>1. x.state = "running" /\ x.stops = 0 /\ x \in Controllers
        BY <1>5, <3>2 DEF Controllers
      <4>2. Stop(x) = [x EXCEPT !.state = "stopping", !.shutdown = TRUE, !.stops = 1]
        BY <3>2, <4>1 DEF Stop
      <4> DEFINE y == [x EXCEPT !.state = "stopping", !.shutdown = TRUE, !.stops = 1]
      <4>3. y.state = "stopping" /\ y.stops = 1 /\ y.shutdown = TRUE
        BY <4>1 DEF Controllers
      <4>4. y \in Controllers
        BY <4>1 DEF Controllers
      <4> HIDE DEF y
      <4> QED BY <4>2, <4>3, <4>4 DEF y
    <3> QED BY <3>1, <3>2
  <2>2. Sound(StopAfterCancel(x))
    <3>1. CASE x.state # "cancelling"
      BY <1>5, <3>1 DEF StopAfterCancel
    <3>2. CASE x.state = "cancelling"
      <4>1. x.shutdown = TRUE /\ x.stops = 0 /\ x \in Controllers
        BY <1>5, <3>2 DEF Controllers
      <4>2. StopAfterCancel(x) = [x EXCEPT !.state = "stopping", !.stops = 1]
        BY <3>2, <4>1 DEF StopAfterCancel
      <4> DEFINE y == [x EXCEPT !.state = "stopping", !.stops = 1]
      <4>3. y.state = "stopping" /\ y.stops = 1 /\ y.shutdown = TRUE
        BY <4>1 DEF Controllers
      <4>4. y \in Controllers
        BY <4>1 DEF Controllers
      <4> HIDE DEF y
      <4> QED BY <4>2, <4>3, <4>4 DEF y
    <3> QED BY <3>1, <3>2
  <2> QED BY <2>1, <2>2
<1>6. CASE HandleMessage
  <2> DEFINE m == Head(inbox["controller"])
  <2>1. inbox["controller"] # <<>> /\ "controller" \in Services
        /\ inbox' = [inbox EXCEPT !["controller"] = Tail(@)]
    BY <1>6 DEF HandleMessage, Services
  <2>2. m \in Handled("controller")
    BY <1>1, <2>1, TakenOne
  <2>3. m.type \in {"results", "reply"} => m.results \in Results
    BY <2>2 DEF Handled, Cancels
  <2> HIDE DEF m
  <2>4. CASE m.type = "cancel" /\ controller' = [ct EXCEPT !.errors = @ \/ IsAbort(m.reason)]
    <3>1. Sound(controller')
      <4>1. controller' = [ct EXCEPT !.errors = ct.errors \/ IsAbort(m.reason)]
        BY <2>4
      <4>2. (ct.errors \/ IsAbort(m.reason)) \in BOOLEAN
        OBVIOUS
      <4> DEFINE b == ct.errors \/ IsAbort(m.reason)
      <4> HIDE DEF b
      <4>3. controller' = [ct EXCEPT !.errors = b] /\ b \in BOOLEAN
        BY <4>1, <4>2 DEF b
      <4>4. /\ controller' \in Controllers /\ controller'.state = ct.state
            /\ controller'.stops = ct.stops /\ controller'.shutdown = ct.shutdown
            /\ controller'.cancelled = ct.cancelled
        BY <1>1, <4>3 DEF Controllers
      <4> QED BY <1>3, <4>4
    <3> QED BY <1>4, <3>1
  <2>5. CASE m.type = "results" /\ controller' = Stop([ct EXCEPT !.results = m.results])
    <3> DEFINE x == [ct EXCEPT !.results = m.results]
    <3>1. Sound(x)
      BY <1>2, <1>3, <2>3, <2>5
    <3> HIDE DEF x, Sound
    <3>2. Sound(controller')
      BY <1>5, <2>5, <3>1 DEF x
    <3> QED BY <1>4, <3>2 DEF Sound
  <2>6. CASE m.type = "reply" /\ controller' = StopAfterCancel([ct EXCEPT !.results = m.results])
    <3> DEFINE x == [ct EXCEPT !.results = m.results]
    <3>1. Sound(x)
      BY <1>2, <1>3, <2>3, <2>6
    <3> HIDE DEF x, Sound
    <3>2. Sound(controller')
      BY <1>5, <2>6, <3>1 DEF x
    <3> QED BY <1>4, <3>2 DEF Sound
  <2> QED BY <1>6, <2>4, <2>5, <2>6 DEF HandleMessage, m
<1>7. CASE Exit
  <2>1. ct.state = "stopping" /\ controller' = [ct EXCEPT !.state = "exited"]
    BY <1>7 DEF Exit
  <2>2. /\ controller' \in Controllers /\ controller'.state = "exited"
        /\ controller'.stops = ct.stops /\ controller'.shutdown = ct.shutdown
    BY <1>1, <2>1 DEF Controllers
  <2> QED BY <1>3, <1>4, <2>1, <2>2
<1>8. CASE UserCancels
  <2>1. CASE ct.shutdown
    <3>1. controller' = [ct EXCEPT !.cancelled = TRUE]
      BY <1>8, <2>1 DEF UserCancels
    <3>2. /\ controller' \in Controllers /\ controller'.state = ct.state
          /\ controller'.stops = ct.stops /\ controller'.shutdown = ct.shutdown
          /\ controller'.cancelled = TRUE
      BY <1>1, <3>1 DEF Controllers
    <3> QED BY <1>3, <1>4, <3>2
  <2>2. CASE ~ct.shutdown
    <3>1. controller' = [ct EXCEPT !.cancelled = TRUE, !.shutdown = TRUE, !.state = "cancelling"]
      BY <1>8, <2>2 DEF UserCancels
    <3>2. /\ controller' \in Controllers /\ controller'.state = "cancelling"
          /\ controller'.stops = ct.stops /\ controller'.shutdown = TRUE
          /\ controller'.cancelled = TRUE
      BY <1>1, <3>1 DEF Controllers
    <3>3. ct.stops = 0
      BY <1>3, <2>2
    <3> QED BY <1>4, <3>2, <3>3
  <2> QED BY <2>1, <2>2
<1>9. CASE ReplyTimeout
  <2>1. Sound(controller')
    <3> HIDE DEF Sound
    <3> QED BY <1>3, <1>5, <1>9 DEF ReplyTimeout
  <2> QED BY <1>4, <2>1
<1>10. ASSUME ~HandleMessage, ~Exit, ~UserCancels, ~ReplyTimeout
       PROVE  controller' = controller
  <2>1. CASE Timing
    BY <2>1 DEF Timing, Issue, CreditReturns, EndSending, CompletePhase, ForceCompletion,
       Freeze, NextPhase, CreditsComplete, BeginCancel, CancelRunners
  <2>2. CASE Workers
    BY <2>2 DEF Workers, ProcessRecord, CancelTask, FinishTask, Return, workerUnchanged
  <2>3. CASE Manager
    BY <2>3 DEF Manager, TrackRecord, HandleNotice, PublishResults
  <2>4. CASE GraceOver \/ UNCHANGED vars
    BY <2>4 DEF GraceOver, vars
  <2> QED BY <1>10, <2>1, <2>2, <2>3, <2>4 DEF Next, Step, Controller
<1>11. controller' = controller => controller' \in Controllers /\ Stopping'
  BY <1>3, <1>4
<1> HIDE DEF Sound
<1> QED BY <1>6, <1>7, <1>8, <1>9, <1>10, <1>11

\* What the barrier does to the tracker and the jobs.
LEMMA BarrierSteps ==
  ASSUME NEW tr \in Trackers, NEW tracked, CheckBarrier(tr, tracked), jobs \subseteq Jobs
  PROVE  /\ tracker' \in Trackers /\ tracker'.final = tr.final /\ jobs' \subseteq Jobs
         /\ tracker'.cancelled = tr.cancelled /\ tracker'.aborted = tr.aborted
         /\ \/ jobs' = jobs /\ tracker' = tr
            \/ /\ tr.final # NotFrozen /\ Cardinality(tracked) >= tr.final /\ tracker'.done
               /\ jobs' = jobs \cup {[from |-> "barrier", cancelled |-> tr.cancelled]}
<1>1. CASE AllReceived(tr, tracked)
  <2>1. /\ tracker' = [tr EXCEPT !.done = TRUE]
        /\ jobs' = jobs \cup {[from |-> "barrier", cancelled |-> tr.cancelled]}
    BY <1>1 DEF CheckBarrier
  <2>2. /\ tracker' \in Trackers /\ tracker'.final = tr.final /\ tracker'.done
        /\ tracker'.cancelled = tr.cancelled /\ tracker'.aborted = tr.aborted
    BY <2>1 DEF Trackers
  <2>3. [from |-> "barrier", cancelled |-> tr.cancelled] \in Jobs
    BY DEF Jobs, Trackers
  <2> QED BY <1>1, <2>1, <2>2, <2>3 DEF AllReceived
<1>2. CASE ~AllReceived(tr, tracked)
  BY <1>2 DEF CheckBarrier
<1> QED BY <1>1, <1>2

\* What the statistics of a phase, an abort and a cancel command do to the tracker.
LEMMA TrackerUpdates ==
  ASSUME NEW tr \in Trackers
  PROVE  /\ \A m \in Stats : /\ Updated(tr, m) \in Trackers /\ Updated(tr, m).final = m.final
                             /\ Updated(tr, m).cancelled = m.cancelled
                             /\ Updated(tr, m).done = tr.done
                             /\ Updated(tr, m).aborted = tr.aborted
         /\ LET x == [tr EXCEPT !.aborted = TRUE]
            IN  /\ x \in Trackers /\ x.final = tr.final /\ x.cancelled = tr.cancelled
                /\ x.done = tr.done /\ x.aborted = TRUE
         /\ LET x == [tr EXCEPT !.cancelled = TRUE]
            IN  /\ x \in Trackers /\ x.final = tr.final /\ x.cancelled = TRUE
                /\ x.done = tr.done /\ x.aborted = tr.aborted
<1>1. ASSUME NEW m \in Stats
      PROVE  /\ Updated(tr, m) \in Trackers /\ Updated(tr, m).final = m.final
             /\ Updated(tr, m).cancelled = m.cancelled /\ Updated(tr, m).done = tr.done
             /\ Updated(tr, m).aborted = tr.aborted
  <2>1. m.final \in Nat \cup {NotFrozen} /\ m.cancelled \in BOOLEAN
    BY DEF Stats
  <2> DEFINE f == m.final
             b == m.cancelled
             x == [tr EXCEPT !.final = f, !.cancelled = b]
  <2> HIDE DEF f, b
  <2>2. f \in Nat \cup {NotFrozen} /\ b \in BOOLEAN
    BY <2>1 DEF f, b
  <2>3. /\ x \in Trackers /\ x.final = f /\ x.cancelled = b /\ x.done = tr.done
        /\ x.aborted = tr.aborted
    BY <2>2 DEF Trackers
  <2> QED BY <2>3 DEF Updated, f, b
<1>2. LET x == [tr EXCEPT !.aborted = TRUE]
      IN  /\ x \in Trackers /\ x.final = tr.final /\ x.cancelled = tr.cancelled
          /\ x.done = tr.done /\ x.aborted = TRUE
  BY DEF Trackers
<1>3. LET x == [tr EXCEPT !.cancelled = TRUE]
      IN  /\ x \in Trackers /\ x.final = tr.final /\ x.cancelled = TRUE
          /\ x.done = tr.done /\ x.aborted = tr.aborted
  BY DEF Trackers
<1> QED BY <1>1, <1>2, <1>3

\* What a record that is tracked does.
LEMMA TrackedSteps ==
  ASSUME Types, NEW c \in Profiling, TrackRecord(c)
  PROVE  /\ record[c] = "manager" /\ record' = [record EXCEPT ![c] = "tracked"]
         /\ UNCHANGED <<timingVars, workerVars, failed, controller>>
         /\ Tracked' = Tracked \cup {c} /\ IsFiniteSet(Tracked')
         /\ \/ inbox' = inbox /\ CheckBarrier(tracker, Tracked')
            \/ /\ inbox' = TellAll(CancelCommand("threshold")) /\ "threshold" \in setup
               /\ CheckBarrier([tracker EXCEPT !.aborted = TRUE], Tracked')
<1>1. /\ record[c] = "manager" /\ record' = [record EXCEPT ![c] = "tracked"]
      /\ UNCHANGED <<timingVars, workerVars, failed, controller>>
  BY DEF TrackRecord
<1>2. Tracked' = Tracked \cup {c}
  BY <1>1 DEF Tracked, Types, WorkerTypes, Credits
<1>3. IsFiniteSet(Tracked')
  <2>1. Tracked' \in SUBSET Credits
    BY DEF Tracked, Credits
  <2> QED BY <2>1, CreditsAssumption, FS_Subset
<1>4. \/ inbox' = inbox /\ CheckBarrier(tracker, Tracked \cup {c})
      \/ /\ inbox' = TellAll(CancelCommand("threshold")) /\ "threshold" \in setup
         /\ CheckBarrier([tracker EXCEPT !.aborted = TRUE], Tracked \cup {c})
  BY DEF TrackRecord, TooManyFailures
<1> QED BY <1>1, <1>2, <1>3, <1>4

\* What a results job sends.
ResultsOf(j) == [cancelled |-> j.cancelled, some |-> TRUE, records |-> Tracked]

\* Each result goes out once, or twice to answer the controller's own command.
LEMMA PublishSteps ==
  ASSUME Types, PublishResults
  PROVE  \E j \in jobs :
           /\ jobs' = jobs \ {j} /\ UNCHANGED <<timingVars, workerVars, recordVars, tracker, controller>>
           /\ InboxTypes' /\ ResultsOf(j) \in Results
           /\ \A t \in Services : t # "controller" => inbox'[t] = inbox[t]
                                                      /\ Waiting(t)' = Waiting(t)
           /\ Waiting("controller") \subseteq Waiting("controller")'
           /\ \A m \in Waiting("controller")' :
                \/ m \in Waiting("controller")
                \/ m = [type |-> "results", results |-> ResultsOf(j)]
                \/ m = [type |-> "reply", results |-> ResultsOf(j)]
           /\ LET q == inbox["controller"]
                  m == [type |-> "results", results |-> ResultsOf(j)]
                  r == [type |-> "reply", results |-> ResultsOf(j)]
              IN  inbox'["controller"] = Append(q, m) \/ inbox'["controller"] = Append(Append(q, m), r)
<1>1. PICK j \in jobs :
        /\ jobs' = jobs \ {j}
        /\ inbox' = [inbox EXCEPT !["controller"] =
             @ \o (IF j.from = "user" THEN <<[type |-> "results", results |-> ResultsOf(j)],
                                             [type |-> "reply", results |-> ResultsOf(j)]>>
                                      ELSE <<[type |-> "results", results |-> ResultsOf(j)]>>)]
        /\ UNCHANGED <<timingVars, workerVars, recordVars, tracker, controller>>
  BY DEF PublishResults, ResultsOf
<1>2. ResultsOf(j) \in Results /\ InboxTypes
  <2>1. j.cancelled \in BOOLEAN /\ Tracked \in SUBSET Profiling
    BY DEF Types, Jobs, Tracked
  <2> QED BY <2>1 DEF ResultsOf, Results, Types
<1> DEFINE m == [type |-> "results", results |-> ResultsOf(j)]
           r == [type |-> "reply", results |-> ResultsOf(j)]
           both == j.from = "user"
<1>3. m \in Handled("controller") /\ r \in Handled("controller")
  BY <1>2, MessageTypes
<1>4. both \in BOOLEAN /\ inbox' = [inbox EXCEPT !["controller"] = @ \o (IF both THEN <<m, r>> ELSE <<m>>)]
  BY <1>1
<1> HIDE DEF m, r, both
<1>5. /\ InboxTypes'
      /\ Waiting("controller") \subseteq Waiting("controller")'
      /\ Waiting("controller")' \subseteq Waiting("controller") \cup {m, r}
      /\ \/ inbox'["controller"] = Append(inbox["controller"], m)
         \/ inbox'["controller"] = Append(Append(inbox["controller"], m), r)
      /\ \A t \in Services : t # "controller" => inbox'[t] = inbox[t] /\ Waiting(t)' = Waiting(t)
  BY <1>2, <1>3, <1>4, SentOut
<1> QED BY <1>1, <1>2, <1>5 DEF m, r

\* The user's cancel command goes to all but the controller itself.
LEMMA UserSteps ==
  ASSUME Types, UserCancels
  PROVE  /\ InboxTypes' /\ controller'.cancelled /\ UNCHANGED controllerUnchanged
         /\ Waiting("records")' = Waiting("records") \cup {CancelCommand("user")}
         /\ inbox'["controller"] = inbox["controller"]
         /\ Waiting("controller")' = Waiting("controller")
<1>1. /\ UNCHANGED controllerUnchanged
      /\ inbox' = [s \in Services |->
           IF s = "controller" THEN inbox[s] ELSE Append(inbox[s], CancelCommand("user"))]
      /\ controller' = IF controller.shutdown
                     THEN [controller EXCEPT !.cancelled = TRUE]
                     ELSE [controller EXCEPT !.cancelled = TRUE, !.shutdown = TRUE,
                                             !.state = "cancelling"]
  BY DEF UserCancels
<1>2. controller'.cancelled
  BY <1>1 DEF Types, Controllers
<1>3. \A t \in Services : inbox[t] \in Seq(Handled(t)) /\ CancelCommand("user") \in Handled(t)
  BY MessageTypes DEF Types, InboxTypes
<1>4. /\ inbox' = [s \in Services |-> inbox'[s]] /\ inbox'["controller"] = inbox["controller"]
      /\ \A t \in Services : t # "controller" => inbox'[t] = Append(inbox[t], CancelCommand("user"))
      /\ "records" \in Services /\ "records" # "controller"
  BY <1>1 DEF Services
<1>5. ASSUME NEW t \in Services, t # "controller"
      PROVE  /\ inbox'[t] \in Seq(Handled(t))
             /\ Waiting(t)' = Waiting(t) \cup {CancelCommand("user")}
  <2> DEFINE m == CancelCommand("user")
  <2> HIDE DEF m
  <2>1. inbox[t] \in Seq(Handled(t)) /\ m \in Handled(t) /\ inbox'[t] = Append(inbox[t], m)
    BY <1>3, <1>4, <1>5 DEF m
  <2>2. /\ Append(inbox[t], m) \in Seq(Handled(t))
        /\ MessagesOf(Append(inbox[t], m)) = MessagesOf(inbox[t]) \cup {m}
    BY <2>1, Appended
  <2> QED BY <2>1, <2>2 DEF Waiting, m
<1>6. InboxTypes'
  <2>1. \A t \in Services : inbox'[t] \in Seq(Handled(t))
    BY <1>3, <1>4, <1>5, Zenon
  <2> QED BY <1>4, <2>1, Zenon DEF InboxTypes, Handled
<1>7. Waiting("controller")' = Waiting("controller")
  BY <1>4 DEF Waiting
<1> QED BY <1>1, <1>2, <1>4, <1>5, <1>6, <1>7

\* What a phase tells the records manager.
PhaseNews(m) ==
  \/ \E t \in {"start", "sent"}, b \in BOOLEAN : m = PhaseStats(t, NotFrozen, b)
  \/ /\ current = 2 /\ (CompletePhase \/ ForceCompletion)
     /\ m = PhaseStats("complete", FinalCompleted(Phases[current]), halted)

\* What is new in the inbox of the records manager after a step.
RecordsNews(m) ==
  \/ m = [type |-> "credits_complete"] \/ PhaseNews(m)
  \/ m = CancelCommand("user") /\ controller'.cancelled
  \/ \E r \in Aborts : m = CancelCommand(r) /\ Aborted'

\* What is new in that of the controller.
ControllerNews(m) ==
  \/ \E r \in Aborts : m = CancelCommand(r)
  \/ \E j \in jobs, t \in {"results", "reply"} : m = [type |-> t, results |-> ResultsOf(j)]

\* Every message that waits after a step waited before or is one of these.
LEMMA News ==
  ASSUME Types, [Next]_vars
  PROVE  /\ InboxTypes'
         /\ \A m \in Waiting("records")' : m \in Waiting("records") \/ RecordsNews(m)
         /\ \A m \in Waiting("controller")' : m \in Waiting("controller") \/ ControllerNews(m)
         /\ Calm' /\ inbox["timing"] = <<>> => inbox'["timing"] = <<>>
<1> DEFINE Goal == /\ InboxTypes'
                   /\ \A m \in Waiting("records")' : m \in Waiting("records") \/ RecordsNews(m)
                   /\ \A m \in Waiting("controller")' : m \in Waiting("controller")
                                                        \/ ControllerNews(m)
                   /\ Calm' /\ inbox["timing"] = <<>> => inbox'["timing"] = <<>>
<1>0. InboxTypes /\ {"timing", "records", "controller"} = Services
  BY DEF Types, Services
<1>1. ASSUME inbox' = inbox
      PROVE  Goal
  <2>1. InboxTypes'
    BY <1>0, <1>1, Zenon DEF InboxTypes, Handled
  <2> QED BY <1>1, <2>1 DEF Waiting
<1>2. ASSUME NEW m \in Handled("records"), RecordsNews(m), inbox' = Tell("records", m)
      PROVE  Goal
  <2>1. /\ InboxTypes' /\ Waiting("records")' = Waiting("records") \cup {m}
        /\ inbox'["timing"] = inbox["timing"] /\ Waiting("controller")' = Waiting("controller")
    BY <1>0, <1>2, ToldOne
  <2> QED BY <1>2, <2>1
<1>3. ASSUME NEW r \in Aborts, inbox' = TellAll(CancelCommand(r)), Aborted'
      PROVE  Goal
  <2> DEFINE m == CancelCommand(r)
  <2>1. \A s \in Services : m \in Handled(s)
    BY MessageTypes DEF Reasons
  <2>2. RecordsNews(m) /\ ControllerNews(m) /\ ~Calm'
    BY <1>3 DEF RecordsNews, ControllerNews, Calm
  <2> HIDE DEF m
  <2>3. /\ InboxTypes' /\ Waiting("records")' = Waiting("records") \cup {m}
        /\ Waiting("controller")' = Waiting("controller") \cup {m}
    BY <1>0, <1>3, <2>1, ToldAll DEF m
  <2> QED BY <2>2, <2>3
<1>4. ASSUME NEW s \in Services, inbox[s] # <<>>, inbox' = [inbox EXCEPT ![s] = Tail(@)]
      PROVE  Goal
  <2>1. /\ InboxTypes' /\ Waiting(s)' \subseteq Waiting(s)
        /\ \A t \in Services : t # s => inbox'[t] = inbox[t] /\ Waiting(t)' = Waiting(t)
    BY <1>0, <1>4, TakenOne
  <2>2. inbox["timing"] = <<>> => s # "timing"
    BY <1>4
  <2> QED BY <1>0, <2>1, <2>2
<1>5. ASSUME NEW t \in {"start", "sent", "complete"}, NEW f \in Nat \cup {NotFrozen},
             NEW b \in BOOLEAN, RecordsNews(PhaseStats(t, f, b)),
             inbox' = Tell("records", PhaseStats(t, f, b))
      PROVE  Goal
  <2> DEFINE m == PhaseStats(t, f, b)
  <2>1. m \in Handled("records")
    BY MessageTypes
  <2> HIDE DEF m
  <2>2. RecordsNews(m) /\ inbox' = Tell("records", m)
    BY <1>5 DEF m
  <2> QED BY <1>2, <2>1, <2>2
<1>6. TimingTypes /\ FinalCompleted(Phases[current]) \in Nat
  BY ThePhases DEF Types
<1>7. ASSUME Timing
      PROVE  Goal
  <2>1. ASSUME NEW c \in Credits, Issue(c)
        PROVE  Goal
    BY <1>1, <2>1 DEF Issue
  <2>2. ASSUME NEW c \in Credits, CreditReturns(c)
        PROVE  Goal
    <3>1. \/ inbox' = inbox
          \/ warned' = TRUE /\ inbox' = TellAll(CancelCommand("warmup"))
      BY <2>2 DEF CreditReturns
    <3>2. ASSUME warned' = TRUE, inbox' = TellAll(CancelCommand("warmup"))
          PROVE  Goal
      <4>1. Aborted' /\ "warmup" \in Aborts
        BY <3>2 DEF Aborted, Aborts
      <4> HIDE DEF Goal
      <4> QED BY <1>3, <3>2, <4>1
    <3> HIDE DEF Goal
    <3> QED BY <1>1, <3>1, <3>2
  <2>3. ASSUME EndSending
        PROVE  Goal
    <3>1. current # 2 => inbox' = inbox
      BY <2>3 DEF EndSending, TellPhase
    <3>2. /\ current = 2 => inbox' = Tell("records", PhaseStats("sent", NotFrozen, halted))
          /\ halted \in BOOLEAN /\ NotFrozen \in Nat \cup {NotFrozen}
      BY <1>6, <2>3 DEF EndSending, TellPhase, FinalAtSending, TimingTypes
    <3>3. RecordsNews(PhaseStats("sent", NotFrozen, halted))
      BY <3>2 DEF RecordsNews, PhaseNews
    <3> HIDE DEF Goal
    <3> QED BY <1>1, <1>5, <3>1, <3>2, <3>3
  <2>4. ASSUME CompletePhase \/ ForceCompletion
        PROVE  Goal
    <3> DEFINE f == FinalCompleted(Phases[current])
    <3>1. current # 2 => inbox' = inbox
      BY <2>4 DEF CompletePhase, ForceCompletion, Freeze, TellPhase
    <3>2. /\ current = 2 => inbox' = Tell("records", PhaseStats("complete", f, halted))
          /\ halted \in BOOLEAN /\ f \in Nat \cup {NotFrozen}
      BY <1>6, <2>4 DEF CompletePhase, ForceCompletion, Freeze, TellPhase, TimingTypes
    <3>3. current = 2 => RecordsNews(PhaseStats("complete", f, halted))
      BY <2>4 DEF RecordsNews, PhaseNews
    <3> HIDE DEF Goal, f
    <3> QED BY <1>1, <1>5, <3>1, <3>2, <3>3
  <2>5. ASSUME NextPhase
        PROVE  Goal
    <3>1. inbox' = Tell("records", PhaseStats("start", NotFrozen, FALSE))
      BY <2>5 DEF NextPhase
    <3>2. RecordsNews(PhaseStats("start", NotFrozen, FALSE))
      BY DEF RecordsNews, PhaseNews
    <3> HIDE DEF Goal
    <3> QED BY <1>5, <3>1, <3>2
  <2>6. ASSUME CreditsComplete
        PROVE  Goal
    <3> DEFINE m == [type |-> "credits_complete"]
    <3>1. inbox' = Tell("records", m) /\ RecordsNews(m) /\ m \in Handled("records")
      BY <2>6, MessageTypes DEF CreditsComplete, RecordsNews
    <3> HIDE DEF Goal, m
    <3> QED BY <1>2, <3>1
  <2>7. ASSUME BeginCancel
        PROVE  Goal
    <3>1. inbox["timing"] # <<>> /\ inbox' = [inbox EXCEPT !["timing"] = Tail(@)]
      BY <2>7 DEF BeginCancel
    <3> HIDE DEF Goal
    <3> QED BY <1>0, <1>4, <3>1
  <2>8. ASSUME CancelRunners
        PROVE  Goal
    BY <1>1, <2>8 DEF CancelRunners
  <2> HIDE DEF Goal
  <2> QED BY <1>7, <2>1, <2>2, <2>3, <2>4, <2>5, <2>6, <2>7, <2>8 DEF Timing
<1>8. ASSUME Workers \/ GraceOver \/ ReplyTimeout \/ UNCHANGED vars
      PROVE  Goal
  <2>1. inbox' = inbox
    BY <1>8 DEF Workers, ProcessRecord, CancelTask, FinishTask, Return, workerUnchanged,
       GraceOver, ReplyTimeout, vars
  <2> HIDE DEF Goal
  <2> QED BY <1>1, <2>1
<1>9. ASSUME NEW c \in Profiling, TrackRecord(c)
      PROVE  Goal
  <2>1. \/ inbox' = inbox
        \/ /\ inbox' = TellAll(CancelCommand("threshold"))
           /\ CheckBarrier([tracker EXCEPT !.aborted = TRUE], Tracked')
    BY <1>9, TrackedSteps
  <2>2. ASSUME inbox' = TellAll(CancelCommand("threshold")),
               CheckBarrier([tracker EXCEPT !.aborted = TRUE], Tracked')
        PROVE  Goal
    <3> DEFINE x == [tracker EXCEPT !.aborted = TRUE]
    <3>1. x \in Trackers /\ x.aborted
      BY TrackerUpdates DEF Types
    <3>2. CheckBarrier(x, Tracked') /\ jobs \subseteq Jobs
      BY <2>2 DEF Types
    <3> HIDE DEF x
    <3>3. tracker'.aborted = x.aborted
      BY <3>1, <3>2, BarrierSteps
    <3>4. Aborted' /\ "threshold" \in Aborts
      BY <3>1, <3>3 DEF Aborted, Aborts
    <3> HIDE DEF Goal
    <3> QED BY <1>3, <2>2, <3>4
  <2> HIDE DEF Goal
  <2> QED BY <1>1, <2>1, <2>2
<1>10. ASSUME HandleNotice
       PROVE  Goal
  <2>1. inbox["records"] # <<>> /\ inbox' = [inbox EXCEPT !["records"] = Tail(@)]
    BY <1>10 DEF HandleNotice
  <2> HIDE DEF Goal
  <2> QED BY <1>0, <1>4, <2>1
<1>11. ASSUME PublishResults
       PROVE  Goal
  <2>1. PICK j \in jobs :
           /\ InboxTypes' /\ inbox'["timing"] = inbox["timing"]
           /\ Waiting("records")' = Waiting("records")
           /\ \A m \in Waiting("controller")' :
                \/ m \in Waiting("controller")
                \/ m = [type |-> "results", results |-> ResultsOf(j)]
                \/ m = [type |-> "reply", results |-> ResultsOf(j)]
    BY <1>0, <1>11, PublishSteps
  <2>2. \A m \in Waiting("controller")' : m \in Waiting("controller") \/ ControllerNews(m)
    BY <2>1 DEF ControllerNews
  <2> QED BY <2>1, <2>2
<1>12. ASSUME HandleMessage
       PROVE  Goal
  <2>1. inbox["controller"] # <<>> /\ inbox' = [inbox EXCEPT !["controller"] = Tail(@)]
    BY <1>12 DEF HandleMessage
  <2> HIDE DEF Goal
  <2> QED BY <1>0, <1>4, <2>1
<1>13. ASSUME UserCancels
       PROVE  Goal
  <2>1. /\ InboxTypes' /\ controller'.cancelled
        /\ Waiting("records")' = Waiting("records") \cup {CancelCommand("user")}
        /\ Waiting("controller")' = Waiting("controller")
    BY <1>13, UserSteps
  <2>2. ~Calm' /\ RecordsNews(CancelCommand("user"))
    BY <2>1 DEF Calm, RecordsNews
  <2> QED BY <2>1, <2>2
<1>14. ASSUME Exit
       PROVE  Goal
  <2>1. inbox' = [s \in Services |-> <<>>]
    BY <1>14 DEF Exit
  <2>2. \A s \in Services : inbox'[s] = <<>> /\ inbox'[s] \in Seq(Handled(s))
    BY <2>1
  <2>3. InboxTypes'
    <3>1. inbox' = [s \in Services |-> inbox'[s]]
      BY <2>1
    <3> QED BY <2>2, <3>1, Zenon DEF InboxTypes, Handled
  <2>4. \A s \in Services : Waiting(s)' = {}
    BY <2>2 DEF Waiting, MessagesOf
  <2> QED BY <1>0, <2>2, <2>3, <2>4
<1>15. Goal
  <2> HIDE DEF Goal
  <2> QED BY <1>7, <1>8, <1>9, <1>10, <1>11, <1>12, <1>13, <1>14
          DEF Next, Step, Manager, Controller
<1> QED BY <1>15

\* A notice, by its type.
LEMMA NoticeSteps ==
  ASSUME Types, HandleNotice
  PROVE  \E m \in Waiting("records") :
           /\ UNCHANGED <<timingVars, workerVars, recordVars, controller>>
           /\ \/ m.type \in {"start", "sent"} /\ m \in Stats
                 /\ tracker' = Updated(tracker, m) /\ jobs' = jobs
              \/ m.type = "complete" /\ m \in Stats /\ CheckBarrier(Updated(tracker, m), Tracked)
              \/ m.type = "credits_complete" /\ CheckBarrier(tracker, Tracked)
              \/ m.type = "cancel" /\ m.reason \in Reasons
                 /\ tracker' = [tracker EXCEPT !.cancelled = TRUE]
                 /\ jobs' = jobs \cup {[from |-> m.reason, cancelled |-> TRUE]}
<1> DEFINE m == Head(inbox["records"])
<1>1. /\ inbox["records"] # <<>> /\ inbox' = [inbox EXCEPT !["records"] = Tail(@)]
      /\ UNCHANGED <<timingVars, workerVars, recordVars, controller>>
      /\ \/ m.type \in {"start", "sent"} /\ tracker' = Updated(tracker, m) /\ jobs' = jobs
         \/ m.type = "complete" /\ CheckBarrier(Updated(tracker, m), Tracked)
         \/ m.type = "credits_complete" /\ CheckBarrier(tracker, Tracked)
         \/ m.type = "cancel" /\ tracker' = [tracker EXCEPT !.cancelled = TRUE]
            /\ jobs' = jobs \cup {[from |-> m.reason, cancelled |-> TRUE]}
  BY DEF HandleNotice
<1>2. InboxTypes /\ "records" \in Services
  BY DEF Types, Services
<1> HIDE DEF m
<1>3. m \in Waiting("records") /\ m \in Handled("records")
  BY <1>1, <1>2, TakenOne DEF m
<1>4. /\ m.type \in {"start", "sent", "complete"} => m \in Stats
      /\ m.type = "cancel" => m.reason \in Reasons
  BY <1>3 DEF Handled, Stats, Cancels
<1> QED BY <1>1, <1>3, <1>4

\* Nobody but the records manager touches its tracker, or adds a job.
LEMMA OtherManagerSteps ==
  ASSUME [Next]_vars, ~HandleNotice, ~\E c \in Profiling : TrackRecord(c)
  PROVE  tracker' = tracker /\ jobs' \subseteq jobs
<1>1. CASE Timing
  BY <1>1 DEF Timing, Issue, CreditReturns, EndSending, CompletePhase, ForceCompletion, Freeze,
     NextPhase, CreditsComplete, BeginCancel, CancelRunners, managerVars
<1>2. CASE Workers
  BY <1>2 DEF Workers, ProcessRecord, CancelTask, FinishTask, Return, workerUnchanged, managerVars
<1>3. CASE PublishResults \/ HandleMessage \/ Exit
  BY <1>3 DEF PublishResults, HandleMessage, Exit, controllerUnchanged, managerVars
<1>4. CASE GraceOver \/ UserCancels \/ ReplyTimeout \/ UNCHANGED vars
  BY <1>4 DEF GraceOver, UserCancels, ReplyTimeout, controllerUnchanged, managerVars, vars
<1> QED BY <1>1, <1>2, <1>3, <1>4 DEF Next, Step, Manager, Controller

\* The tracker and the jobs keep their types.
LEMMA KeepsManagerTypes ==
  ASSUME Types, [Next]_vars
  PROVE  tracker' \in Trackers /\ jobs' \subseteq Jobs
<1>1. tracker \in Trackers /\ jobs \subseteq Jobs
  BY DEF Types
<1>2. ASSUME NEW c \in Profiling, TrackRecord(c)
      PROVE  tracker' \in Trackers /\ jobs' \subseteq Jobs
  <2> DEFINE x == [tracker EXCEPT !.aborted = TRUE]
  <2>1. CheckBarrier(tracker, Tracked') \/ CheckBarrier(x, Tracked')
    BY <1>2, TrackedSteps
  <2>2. x \in Trackers
    BY <1>1, TrackerUpdates
  <2> HIDE DEF x
  <2> QED BY <1>1, <2>1, <2>2, BarrierSteps
<1>3. CASE HandleNotice
  <2>1. PICK m :
          \/ m \in Stats /\ tracker' = Updated(tracker, m) /\ jobs' = jobs
          \/ m \in Stats /\ CheckBarrier(Updated(tracker, m), Tracked)
          \/ CheckBarrier(tracker, Tracked)
          \/ /\ m.reason \in Reasons /\ tracker' = [tracker EXCEPT !.cancelled = TRUE]
             /\ jobs' = jobs \cup {[from |-> m.reason, cancelled |-> TRUE]}
    BY <1>3, NoticeSteps
  <2>2. m \in Stats => Updated(tracker, m) \in Trackers
    BY <1>1, TrackerUpdates
  <2>3. [tracker EXCEPT !.cancelled = TRUE] \in Trackers
    BY <1>1, TrackerUpdates
  <2>4. m.reason \in Reasons => [from |-> m.reason, cancelled |-> TRUE] \in Jobs
    BY DEF Jobs
  <2>5. ASSUME NEW tr \in Trackers, CheckBarrier(tr, Tracked)
        PROVE  tracker' \in Trackers /\ jobs' \subseteq Jobs
    BY <1>1, <2>5, BarrierSteps
  <2> QED BY <1>1, <2>1, <2>2, <2>3, <2>4, <2>5
<1>4. CASE ~HandleNotice /\ ~\E c \in Profiling : TrackRecord(c)
  BY <1>1, <1>4, OtherManagerSteps
<1> QED BY <1>2, <1>3, <1>4

\* Once frozen, the counts stay as they are.
LEMMA FrozenStays ==
  ASSUME Types, Frozen, [Next]_vars
  PROVE  /\ Frozen' /\ halted' = halted /\ forced' = forced /\ Counted' = Counted
         /\ (\A c \in Profiling : task[c] \in {"unsent", "counted"})
              => \A c \in Profiling : task'[c] \in {"unsent", "counted"}
<1>1. /\ task \in [Credits -> {"unsent", "sent", "returning", "counted", "late"}]
      /\ outcome \in [Credits -> {"none", "completed", "cancelled"}] /\ Profiling \subseteq Credits
      /\ current = 2 /\ run \in {"complete", "over"} /\ TimingTypes
  BY DEF Types, WorkerTypes, Frozen, Credits
<1>2. Phases[current] = Profiling
  BY <1>1, ThePhases
<1>3. Frozen' /\ halted' = halted /\ forced' = forced
  <2>1. CASE Timing
    BY <1>1, <2>1 DEF Timing, Issue, CreditReturns, EndSending, CompletePhase, ForceCompletion,
       NextPhase, CreditsComplete, BeginCancel, CancelRunners, timingVars, Frozen, TimingTypes
  <2>2. CASE Workers \/ Manager \/ Controller \/ UserCancels \/ ReplyTimeout \/ UNCHANGED vars
    BY <1>1, <2>2 DEF Workers, ProcessRecord, CancelTask, FinishTask, Return, workerUnchanged,
       Manager, TrackRecord, HandleNotice, PublishResults, Controller, HandleMessage, Exit,
       UserCancels, ReplyTimeout, controllerUnchanged, vars, timingVars, Frozen
  <2>3. CASE GraceOver
    BY <1>1, <2>3 DEF GraceOver
  <2> QED BY <2>1, <2>2, <2>3 DEF Next, Step
<1> DEFINE Goal == /\ \A c \in Profiling :
                        task'[c] = "counted" /\ outcome'[c] = "completed"
                          <=> task[c] = "counted" /\ outcome[c] = "completed"
                   /\ (\A c \in Profiling : task[c] \in {"unsent", "counted"})
                        => \A c \in Profiling : task'[c] \in {"unsent", "counted"}
<1>4. ASSUME NEW c \in Credits, Issue(c)
      PROVE  Goal
  BY <1>1, <1>4 DEF Issue
<1>5. ASSUME NEW c \in Credits, CreditReturns(c)
      PROVE  Goal
  <2>1. task[c] = "returning" /\ task' = [task EXCEPT ![c] = "late"] /\ outcome' = outcome
    BY <1>1, <1>5 DEF CreditReturns
  <2> QED BY <1>1, <2>1
<1>6. ASSUME NEW c \in Credits, CancelTask(c) \/ FinishTask(c)
      PROVE  Goal
  <2>1. /\ task[c] = "sent" /\ task' = [task EXCEPT ![c] = "returning"]
        /\ \E h : outcome' = [outcome EXCEPT ![c] = h]
    BY <1>6 DEF CancelTask, FinishTask, Return
  <2> QED BY <1>1, <2>1
<1>7. ASSUME NEW c \in Profiling, ProcessRecord(c) \/ TrackRecord(c)
      PROVE  Goal
  <2>1. task' = task /\ outcome' = outcome
    BY <1>7 DEF ProcessRecord, TrackRecord, workerVars
  <2> QED BY <1>1, <2>1
<1>8. ASSUME ~TaskSteps
      PROVE  Goal
  <2>1. task' = task /\ outcome' = outcome
    BY <1>8, OtherSteps
  <2> QED BY <1>1, <2>1
<1>9. Goal
  <2> HIDE DEF Goal
  <2> QED BY <1>4, <1>5, <1>6, <1>7, <1>8 DEF TaskSteps
<1>10. Counted' = Counted
  BY <1>9 DEF Counted
<1> QED BY <1>3, <1>9, <1>10

\* The counts are frozen by the end of the profiling phase.
LEMMA Freezing ==
  ASSUME Types, ~Frozen, Frozen', [Next]_vars
  PROVE  /\ current = 2 /\ halted' = halted /\ Counted' = Counted /\ task' = task
         /\ \/ CompletePhase /\ (halted \/ AllBack)
            \/ ForceCompletion /\ forced'
<1>1. TimingTypes
  BY DEF Types
<1>2. CASE Timing
  <2>1. CompletePhase \/ ForceCompletion
    BY <1>1, <1>2 DEF Timing, Issue, CreditReturns, EndSending, NextPhase, CreditsComplete,
       BeginCancel, CancelRunners, timingVars, Frozen, TimingTypes
  <2>2. current' = current /\ halted' = halted /\ task' = task /\ outcome' = outcome
    BY <2>1 DEF CompletePhase, ForceCompletion, Freeze, workerVars
  <2>3. current = 2 /\ Counted' = Counted
    BY <2>2 DEF Frozen, Counted
  <2> QED BY <2>1, <2>2, <2>3 DEF CompletePhase, ForceCompletion
<1>3. CASE Workers \/ Manager \/ Controller \/ UserCancels \/ ReplyTimeout \/ UNCHANGED vars
  BY <1>1, <1>3 DEF Workers, ProcessRecord, CancelTask, FinishTask, Return, workerUnchanged,
       Manager, TrackRecord, HandleNotice, PublishResults, Controller, HandleMessage, Exit,
       UserCancels, ReplyTimeout, controllerUnchanged, vars, timingVars, Frozen
<1>4. CASE GraceOver
  BY <1>1, <1>4 DEF GraceOver, Frozen
<1> QED BY <1>2, <1>3, <1>4 DEF Next, Step

\* The controller takes its results from a message.
LEMMA ResultsTaken ==
  ASSUME Types, [Next]_vars
  PROVE  \/ controller'.results = controller.results
         \/ \E m \in Waiting("controller") : /\ m.type \in {"results", "reply"}
                                             /\ controller'.results = m.results
<1>1. controller \in Controllers /\ InboxTypes /\ "controller" \in Services
  BY DEF Types, Services
<1>2. CASE HandleMessage
  <2> DEFINE m == Head(inbox["controller"])
             x == [controller EXCEPT !.results = m.results]
  <2>1. /\ inbox["controller"] # <<>> /\ inbox' = [inbox EXCEPT !["controller"] = Tail(@)]
        /\ \/ controller' = [controller EXCEPT !.errors = @ \/ IsAbort(m.reason)]
           \/ m.type = "results" /\ controller' = Stop(x)
           \/ m.type = "reply" /\ controller' = StopAfterCancel(x)
    BY <1>2 DEF HandleMessage
  <2>2. m \in Waiting("controller")
    BY <1>1, <2>1, TakenOne
  <2>3. x.results = m.results /\ x.state = controller.state
    BY <1>1 DEF Controllers
  <2>4. Stop(x).results = m.results /\ StopAfterCancel(x).results = m.results
    BY <2>3 DEF Stop, StopAfterCancel
  <2>5. [controller EXCEPT !.errors = @ \/ IsAbort(m.reason)].results = controller.results
    BY <1>1 DEF Controllers
  <2> HIDE DEF m, x
  <2> QED BY <2>1, <2>2, <2>4, <2>5
<1>3. CASE Exit \/ UserCancels \/ ReplyTimeout
  BY <1>1, <1>3 DEF Exit, UserCancels, ReplyTimeout, StopAfterCancel, Controllers
<1>4. CASE Timing
  BY <1>4 DEF Timing, Issue, CreditReturns, EndSending, CompletePhase, ForceCompletion,
     Freeze, NextPhase, CreditsComplete, BeginCancel, CancelRunners
<1>5. CASE Workers
  BY <1>5 DEF Workers, ProcessRecord, CancelTask, FinishTask, Return, workerUnchanged
<1>6. CASE Manager
  BY <1>6 DEF Manager, TrackRecord, HandleNotice, PublishResults
<1>7. CASE GraceOver \/ UNCHANGED vars
  BY <1>7 DEF GraceOver, vars
<1> QED BY <1>2, <1>3, <1>4, <1>5, <1>6, <1>7 DEF Next, Step, Controller

\* A finite set has no other subset as large as itself.
LEMMA AsLarge ==
  ASSUME NEW S, IsFiniteSet(S), NEW T \in SUBSET S, Cardinality(T) >= Cardinality(S)
  PROVE  S \subseteq T
<1>1. ASSUME NEW x \in S, x \notin T
      PROVE  FALSE
  <2>1. T \in SUBSET (S \ {x})
    BY <1>1
  <2>2. IsFiniteSet(S \ {x}) /\ Cardinality(S \ {x}) = Cardinality(S) - 1
        /\ Cardinality(S) \in Nat
    BY <1>1, FS_RemoveElement, FS_CardinalityType
  <2>3. IsFiniteSet(T) /\ Cardinality(T) <= Cardinality(S) - 1
    BY <2>1, <2>2, FS_Subset
  <2>4. Cardinality(T) \in Nat
    BY <2>3, FS_CardinalityType
  <2> QED BY <2>2, <2>3, <2>4
<1> QED BY <1>1

\* The counts that the records manager is told are the frozen ones.
LEMMA KeepsCounts ==
  ASSUME Types, CountsAgree, [Next]_vars
  PROVE  CountsAgree'
<1>1. TimingTypes /\ tracker \in Trackers /\ jobs \subseteq Jobs
  BY DEF Types
<1>2. Frozen => Frozen' /\ Counted' = Counted /\ halted' = halted /\ forced' = forced
  BY FrozenStays
<1>3. Frozen' /\ ~halted' /\ ~forced' => \A c \in Profiling : task'[c] \in {"unsent", "counted"}
  <2>1. CASE Frozen
    BY <2>1, FrozenStays DEF CountsAgree
  <2>2. CASE ~Frozen /\ Frozen'
    <3>1. /\ current = 2 /\ halted' = halted /\ task' = task
          /\ \/ CompletePhase /\ (halted \/ AllBack)
             \/ ForceCompletion /\ forced'
      BY <2>2, Freezing
    <3>2. Phases[current] = Profiling
      BY <1>1, <3>1, ThePhases
    <3> QED BY <3>1, <3>2 DEF AllBack
  <2> QED BY <2>1, <2>2
<1>4. ASSUME NEW m \in Waiting("records")'
      PROVE  /\ m.type \in {"start", "sent"} => m.final = NotFrozen
             /\ m.type = "complete" => /\ Frozen' /\ m.final = Cardinality(Counted')
                                       /\ halted' => m.cancelled
  <2>1. CASE m \in Waiting("records")
    BY <1>2, <2>1 DEF CountsAgree
  <2>2. CASE RecordsNews(m)
    <3>1. CASE ~PhaseNews(m)
      <4>1. m.type \in {"credits_complete", "cancel"}
        BY <2>2, <3>1 DEF RecordsNews, CancelCommand
      <4> QED BY <4>1
    <3>2. ASSUME NEW t \in {"start", "sent"}, NEW b \in BOOLEAN, m = PhaseStats(t, NotFrozen, b)
          PROVE  m.type \in {"start", "sent"} /\ m.final = NotFrozen
      BY <3>2 DEF PhaseStats
    <3>3. ASSUME current = 2, CompletePhase \/ ForceCompletion,
                 m = PhaseStats("complete", FinalCompleted(Phases[current]), halted)
          PROVE  /\ m.type = "complete" /\ Frozen' /\ m.final = Cardinality(Counted')
                 /\ halted' => m.cancelled
      <4>1. /\ m.type = "complete" /\ m.final = Cardinality(Counted) /\ m.cancelled = halted
        BY <1>1, <3>3, ThePhases DEF PhaseStats
      <4>2. run' = "complete" /\ UNCHANGED <<current, halted, task, outcome>>
        BY <3>3 DEF CompletePhase, ForceCompletion, Freeze, workerVars
      <4>3. Counted' = Counted /\ Frozen'
        BY <3>3, <4>2 DEF Counted, Frozen
      <4> QED BY <4>1, <4>2, <4>3
    <3> QED BY <3>1, <3>2, <3>3 DEF PhaseNews
  <2> QED BY <2>1, <2>2, News
<1>5. tracker'.final # NotFrozen => /\ Frozen' /\ tracker'.final = Cardinality(Counted')
                                    /\ halted' => tracker'.cancelled
  <2> DEFINE Right(tr) == tr.final # NotFrozen => /\ Frozen /\ tr.final = Cardinality(Counted)
                                                  /\ halted => tr.cancelled
  <2>1. ASSUME Right(tracker')
        PROVE  tracker'.final # NotFrozen => /\ Frozen' /\ tracker'.final = Cardinality(Counted')
                                             /\ halted' => tracker'.cancelled
    BY <1>2, <2>1
  <2>2. Right(tracker)
    BY DEF CountsAgree
  <2>3. ASSUME NEW c \in Profiling, TrackRecord(c)
        PROVE  Right(tracker')
    <3> DEFINE x == [tracker EXCEPT !.aborted = TRUE]
    <3>1. CheckBarrier(tracker, Tracked') \/ CheckBarrier(x, Tracked')
      BY <2>3, TrackedSteps
    <3>2. x \in Trackers /\ x.final = tracker.final /\ x.cancelled = tracker.cancelled
      BY <1>1, TrackerUpdates
    <3> HIDE DEF x
    <3>3. tracker'.final = tracker.final /\ tracker'.cancelled = tracker.cancelled
      BY <1>1, <3>1, <3>2, BarrierSteps
    <3> QED BY <2>2, <3>3
  <2>4. ASSUME HandleNotice
        PROVE  Right(tracker')
    <3>1. PICK m \in Waiting("records") :
            \/ m.type \in {"start", "sent"} /\ m \in Stats /\ tracker' = Updated(tracker, m)
            \/ m.type = "complete" /\ m \in Stats /\ CheckBarrier(Updated(tracker, m), Tracked)
            \/ CheckBarrier(tracker, Tracked)
            \/ tracker' = [tracker EXCEPT !.cancelled = TRUE]
      BY <2>4, NoticeSteps
    <3>2. ASSUME m \in Stats, m.type \in {"start", "sent", "complete"}
          PROVE  LET x == Updated(tracker, m) IN x \in Trackers /\ Right(x)
      <4>1. /\ Updated(tracker, m) \in Trackers /\ Updated(tracker, m).final = m.final
            /\ Updated(tracker, m).cancelled = m.cancelled
        BY <1>1, <3>2, TrackerUpdates
      <4>2. m.final # NotFrozen => m.type = "complete"
        BY <3>2 DEF CountsAgree
      <4> QED BY <4>1, <4>2 DEF CountsAgree
    <3>3. ASSUME NEW x \in Trackers, Right(x), CheckBarrier(x, Tracked)
          PROVE  Right(tracker')
      <4>1. tracker'.final = x.final /\ tracker'.cancelled = x.cancelled
        BY <1>1, <3>3, BarrierSteps
      <4> QED BY <3>3, <4>1
    <3>4. Right([tracker EXCEPT !.cancelled = TRUE])
      <4> DEFINE x == [tracker EXCEPT !.cancelled = TRUE]
      <4>1. x.final = tracker.final /\ x.cancelled = TRUE
        BY <1>1, TrackerUpdates
      <4> HIDE DEF x
      <4>2. Right(x)
        BY <2>2, <4>1
      <4> QED BY <4>2 DEF x
    <3> HIDE DEF Right
    <3> QED BY <1>1, <2>2, <3>1, <3>2, <3>3, <3>4
  <2>5. ASSUME ~HandleNotice, ~\E c \in Profiling : TrackRecord(c)
        PROVE  Right(tracker')
    BY <2>2, <2>5, OtherManagerSteps
  <2>6. Right(tracker')
    <3> HIDE DEF Right
    <3> QED BY <2>3, <2>4, <2>5
  <2> QED BY <2>1, <2>6
<1> QED BY <1>3, <1>4, <1>5, Zenon DEF CountsAgree

\* When as many records are tracked as credits were counted, they are those of
\* the counted credits, unless the phase gave up on some.
LEMMA BarrierMet ==
  ASSUME Types, TasksEnded, RecordsInLockstep, CountsAgree, [Next]_vars,
         NEW T \in SUBSET Tracked', Frozen', ~halted', Cardinality(T) >= Cardinality(Counted')
  PROVE  forced' \/ Counted' \subseteq Tracked'
<1> SUFFICES ASSUME ~forced'
             PROVE  Counted' \subseteq Tracked'
  OBVIOUS
<1>1. TasksEnded' /\ RecordsInLockstep' /\ WorkerTypes'
  BY KeepsTasks
<1>2. \A c \in Profiling : task'[c] \in {"unsent", "counted"}
  BY KeepsCounts DEF CountsAgree
<1>3. T \in SUBSET Counted'
  <2>1. ASSUME NEW c \in Profiling, record'[c] = "tracked"
        PROVE  task'[c] = "counted" /\ outcome'[c] = "completed"
    <3>1. task'[c] \notin {"unsent", "sent"} /\ outcome'[c] # "none"
      BY <1>1, <2>1 DEF TasksEnded, Credits
    <3>2. outcome'[c] # "cancelled"
      BY <1>1, <2>1 DEF RecordsInLockstep, Credits
    <3> QED BY <1>1, <1>2, <3>1, <3>2 DEF WorkerTypes, Credits
  <2> QED BY <2>1 DEF Counted, Tracked
<1>4. IsFiniteSet(Counted')
  <2>1. Counted' \in SUBSET Credits
    BY DEF Counted, Credits
  <2> QED BY <2>1, CreditsAssumption, FS_Subset
<1>5. Counted' \subseteq T
  <2> DEFINE S == Counted'
  <2>1. IsFiniteSet(S) /\ T \in SUBSET S /\ Cardinality(T) >= Cardinality(S)
    BY <1>3, <1>4
  <2> HIDE DEF S
  <2>2. S \subseteq T
    BY <2>1, AsLarge
  <2> QED BY <2>2 DEF S
<1> QED BY <1>5

\* The barrier starts a job for whole results, or one that says they are cut short.
LEMMA BarrierWhole ==
  ASSUME Types, TasksEnded, RecordsInLockstep, CountsAgree, [Next]_vars,
         NEW tr \in Trackers, NEW T \in SUBSET Tracked', CheckBarrier(tr, T),
         tr.final # NotFrozen => /\ Frozen /\ tr.final = Cardinality(Counted)
                                 /\ halted => tr.cancelled
  PROVE  \A j \in jobs' : \/ j \in jobs
                          \/ ~j.cancelled => Frozen' /\ (forced' \/ Counted' \subseteq Tracked')
<1> SUFFICES ASSUME NEW j \in jobs', j \notin jobs, ~j.cancelled
             PROVE  Frozen' /\ (forced' \/ Counted' \subseteq Tracked')
  OBVIOUS
<1>1. /\ tr.final # NotFrozen /\ Cardinality(T) >= tr.final
      /\ j = [from |-> "barrier", cancelled |-> tr.cancelled]
  BY BarrierSteps DEF Types
<1>2. ~halted /\ Frozen /\ tr.final = Cardinality(Counted)
  BY <1>1
<1>3. Frozen' /\ Counted' = Counted /\ ~halted'
  BY <1>2, FrozenStays
<1>4. Cardinality(T) >= Cardinality(Counted')
  BY <1>1, <1>2, <1>3
<1> QED BY <1>3, <1>4, BarrierMet

\* Whole results stay whole.
LEMMA KeepsResults ==
  ASSUME Types, TasksEnded, RecordsInLockstep, CountsAgree, ResultsWhole, [Next]_vars
  PROVE  ResultsWhole'
<1>1. Frozen => Frozen' /\ Counted' = Counted /\ forced' = forced
  BY FrozenStays
<1>2. Tracked \subseteq Tracked'
  BY KeepsTasks DEF Tracked, Credits
<1>3. \A r : Whole(r) /\ r.some /\ ~r.cancelled
             => Frozen' /\ (forced' \/ Counted' \subseteq r.records)
  BY <1>1 DEF Whole
<1>4. Whole(controller.results)'
  <2>1. Whole(controller'.results)
    BY ResultsTaken DEF ResultsWhole
  <2> QED BY <1>3, <2>1 DEF Whole
<1>5. ASSUME NEW m \in Waiting("controller")', m.type \in {"results", "reply"}
      PROVE  m.results.some /\ ~m.results.cancelled
               => Frozen' /\ (forced' \/ Counted' \subseteq m.results.records)
  <2>1. CASE m \in Waiting("controller")
    BY <1>3, <1>5, <2>1 DEF ResultsWhole
  <2>2. ASSUME NEW j \in jobs, m.results = ResultsOf(j)
        PROVE  Whole(m.results)
    BY <2>2 DEF ResultsWhole, ResultsOf, Whole
  <2>3. CASE ControllerNews(m)
    BY <1>3, <1>5, <2>2, <2>3 DEF ControllerNews, CancelCommand
  <2> QED BY <2>1, <2>3, News
<1>6. ASSUME NEW j \in jobs', ~j.cancelled
      PROVE  Frozen' /\ (forced' \/ Counted' \subseteq Tracked')
  <2>1. CASE j \in jobs
    BY <1>1, <1>2, <1>6, <2>1 DEF ResultsWhole
  <2> DEFINE Right(tr) == tr.final # NotFrozen => /\ Frozen /\ tr.final = Cardinality(Counted)
                                                  /\ halted => tr.cancelled
  <2>2. Right(tracker) /\ tracker \in Trackers
    BY DEF CountsAgree, Types
  <2>3. ASSUME j \notin jobs, NEW c \in Profiling, TrackRecord(c)
        PROVE  Frozen' /\ (forced' \/ Counted' \subseteq Tracked')
    <3> DEFINE x == [tracker EXCEPT !.aborted = TRUE]
    <3>1. CheckBarrier(tracker, Tracked') \/ CheckBarrier(x, Tracked')
      BY <2>3, TrackedSteps
    <3>2. x \in Trackers /\ x.final = tracker.final /\ x.cancelled = tracker.cancelled
      BY <2>2, TrackerUpdates
    <3> HIDE DEF x
    <3>3. Right(x)
      BY <2>2, <3>2
    <3>4. Tracked' \in SUBSET Tracked'
      OBVIOUS
    <3>5. CASE CheckBarrier(tracker, Tracked')
      BY <1>6, <2>2, <2>3, <3>4, <3>5, BarrierWhole
    <3>6. CASE CheckBarrier(x, Tracked')
      BY <1>6, <2>3, <3>2, <3>3, <3>4, <3>6, BarrierWhole
    <3> QED BY <3>1, <3>5, <3>6
  <2>4. ASSUME j \notin jobs, HandleNotice
        PROVE  Frozen' /\ (forced' \/ Counted' \subseteq Tracked')
    <3>1. PICK m \in Waiting("records") :
            \/ jobs' = jobs
            \/ m.type = "complete" /\ m \in Stats /\ CheckBarrier(Updated(tracker, m), Tracked)
            \/ CheckBarrier(tracker, Tracked)
            \/ jobs' = jobs \cup {[from |-> m.reason, cancelled |-> TRUE]}
      BY <2>4, NoticeSteps
    <3>2. CASE m.type = "complete" /\ m \in Stats /\ CheckBarrier(Updated(tracker, m), Tracked)
      <4> DEFINE x == Updated(tracker, m)
      <4>1. /\ x \in Trackers /\ x.final = m.final /\ x.cancelled = m.cancelled
        BY <2>2, <3>2, TrackerUpdates
      <4>2. Right(x)
        BY <3>2, <4>1 DEF CountsAgree
      <4>3. Tracked \in SUBSET Tracked' /\ CheckBarrier(x, Tracked)
        BY <1>2, <3>2
      <4> HIDE DEF x
      <4> QED BY <1>6, <2>4, <4>1, <4>2, <4>3, BarrierWhole
    <3>3. CASE CheckBarrier(tracker, Tracked)
      <4>1. Tracked \in SUBSET Tracked'
        BY <1>2
      <4> QED BY <1>6, <2>2, <2>4, <3>3, <4>1, BarrierWhole
    <3>4. CASE jobs' = jobs \cup {[from |-> m.reason, cancelled |-> TRUE]}
      BY <1>6, <2>4, <3>4
    <3> QED BY <1>6, <2>4, <3>1, <3>2, <3>3, <3>4
  <2>5. ASSUME ~HandleNotice, ~\E c \in Profiling : TrackRecord(c)
        PROVE  j \in jobs
    BY <1>6, <2>5, OtherManagerSteps
  <2> QED BY <2>1, <2>3, <2>4, <2>5
<1>7. \A m \in Waiting("controller")' : m.type \in {"results", "reply"} => Whole(m.results)'
  BY <1>5 DEF Whole
<1> QED BY <1>4, <1>6, <1>7, Zenon DEF ResultsWhole

-------------------------------------------------------------------------------
\* The invariant holds of the initial states.
LEMMA InitHolds == Init => IInv /\ CancelsAsked /\ AbortsHeard
<1> SUFFICES ASSUME Init
             PROVE  IInv /\ CancelsAsked /\ AbortsHeard
  OBVIOUS
<1>1. \A s \in Services : inbox[s] = <<>> /\ Waiting(s) = {}
  BY DEF Init, Waiting, MessagesOf, Services
<1>2. "timing" \in Services /\ "records" \in Services /\ "controller" \in Services
  BY DEF Services
<1>3. NoResults \in Results /\ ~NoResults.some
  BY DEF NoResults, Results
<1>4. /\ controller \in Controllers /\ controller.state = "running" /\ ~controller.shutdown
      /\ controller.stops = 0 /\ ~controller.cancelled /\ controller.results = NoResults
  BY <1>3 DEF Init, Controllers
<1>5. /\ tracker \in Trackers /\ tracker.final = NotFrozen /\ ~tracker.done /\ ~tracker.aborted
      /\ ~tracker.cancelled
  BY DEF Init, Trackers
<1>6. InboxTypes
  BY <1>1 DEF Init, InboxTypes
<1>7. TimingTypes /\ WorkerTypes /\ jobs = {} /\ ~Frozen /\ ~halted /\ ~forced /\ ~warned
      /\ cancelling = "no" /\ run = "sending"
  BY DEF Init, TimingTypes, WorkerTypes, Frozen
<1>8. Types
  BY <1>4, <1>5, <1>6, <1>7 DEF Types
<1>9. TasksEnded /\ RecordsInLockstep
  BY DEF Init, TasksEnded, RecordsInLockstep
<1>10. Stopping
  BY <1>4 DEF Stopping
<1>11. CountsAgree
  BY <1>1, <1>2, <1>5, <1>7 DEF CountsAgree
<1>12. ResultsWhole
  BY <1>1, <1>2, <1>3, <1>4, <1>7 DEF ResultsWhole, Whole
<1>13. CancelsAsked
  BY <1>1, <1>2, <1>4, <1>7 DEF CancelsAsked, Calm
<1>14. AbortsHeard
  BY <1>1, <1>2, <1>4, <1>5, <1>7 DEF AbortsHeard, Calm, Aborted
<1> QED BY <1>8, <1>9, <1>10, <1>11, <1>12, <1>13, <1>14 DEF IInv

\* It is inductive.
LEMMA Inductive == IInv /\ [Next]_vars => IInv'
<1> SUFFICES ASSUME IInv, [Next]_vars
             PROVE  IInv'
  OBVIOUS
<1>1. Types /\ TasksEnded /\ RecordsInLockstep /\ Stopping /\ CountsAgree /\ ResultsWhole
  BY DEF IInv
<1>2. Types'
  <2>1. TimingTypes' /\ WorkerTypes' /\ InboxTypes'
    BY <1>1, KeepsTimingTypes, KeepsTasks, News
  <2>2. tracker' \in Trackers /\ jobs' \subseteq Jobs /\ controller' \in Controllers
    BY <1>1, KeepsManagerTypes, KeepsController
  <2> QED BY <2>1, <2>2 DEF Types
<1>3. TasksEnded' /\ RecordsInLockstep' /\ Stopping' /\ CountsAgree' /\ ResultsWhole'
  BY <1>1, KeepsTasks, KeepsController, KeepsCounts, KeepsResults
<1> QED BY <1>2, <1>3 DEF IInv

\* The invariant of the whole system, of every run.
THEOREM Invariance == Spec => []IInv
<1>1. Init => IInv
  BY InitHolds
<1> QED BY <1>1, Inductive, PTL DEF Spec

\* TypeOK: the state stays in its domains, and every message that waits is one
\* its receiver has a handler for.
THEOREM TypeCorrect == Spec => []TypeOK
<1>1. IInv => TypeOK
  <2> SUFFICES ASSUME Types
               PROVE  TypeOK
    BY DEF IInv
  <2>1. current \in DOMAIN Phases /\ TimingTypes /\ WorkerTypes
    BY ThePhases DEF Types, TimingTypes
  <2>2. /\ inbox["timing"] \in Seq(Handled("timing"))
        /\ inbox["records"] \in Seq(Handled("records"))
        /\ inbox["controller"] \in Seq(Handled("controller"))
    BY DEF Types, InboxTypes, Services
  <2>3. /\ Handled("timing") = Cancels
        /\ Handled("records") = Stats \cup Cancels \cup [type : {"credits_complete"}]
        /\ Handled("controller") = Cancels \cup [type : {"results", "reply"}, results : Results]
    BY DEF Handled
  <2> QED BY <2>1, <2>2, <2>3
          DEF TypeOK, Types, TimingTypes, WorkerTypes, Trackers, Jobs, Controllers
<1> QED BY <1>1, Invariance, PTL

\* RecordsInLockstep: a credit that comes back as completed has one record, a
\* cancelled one none.
THEOREM Lockstep == Spec => []RecordsInLockstep
<1>1. IInv => RecordsInLockstep
  BY DEF IInv
<1> QED BY <1>1, Invariance, PTL

\* ExportedResultsWhole: what is exported as the results of a whole run holds
\* the record of every request the phase counted as completed.
THEOREM ResultsExportedWhole == Spec => []ExportedResultsWhole
<1>1. IInv => ExportedResultsWhole
  BY DEF IInv, ResultsWhole, Whole, ExportedResultsWhole
<1> QED BY <1>1, Invariance, PTL

\* StopsOnce: whoever asks the controller to stop, it stops once.
THEOREM StopsAtMostOnce == Spec => []StopsOnce
<1>1. IInv => StopsOnce
  <2>1. IInv => controller.stops = 0 \/ controller.stops = 1
    BY Zenon DEF IInv, Stopping
  <2> QED BY <2>1 DEF StopsOnce
<1> QED BY <1>1, Invariance, PTL

-------------------------------------------------------------------------------
(***************************************************************************)
(* Aborts.  Nothing the controller acts on is there before somebody asked  *)
(* for a cancellation, or the barrier was met; and once the barrier was    *)
(* met nothing is left that could raise an alarm.                          *)
(***************************************************************************)
\* Whoever has asked for a cancellation has asked for it.
LEMMA CalmBefore ==
  ASSUME Types, [Next]_vars
  PROVE  /\ ~controller'.cancelled => ~controller.cancelled
         /\ ~Aborted' => ~Aborted
         /\ Calm' => Calm
         /\ tracker.done => tracker'.done
<1>1. ~controller'.cancelled => ~controller.cancelled
  <2>1. controller \in Controllers
    BY DEF Types
  <2>2. CASE HandleMessage
    <3> DEFINE m == Head(inbox["controller"])
               x == [controller EXCEPT !.results = m.results]
    <3>1. \/ controller' = [controller EXCEPT !.errors = @ \/ IsAbort(m.reason)]
          \/ controller' = Stop(x) \/ controller' = StopAfterCancel(x)
      BY <2>2 DEF HandleMessage
    <3>2. x.cancelled = controller.cancelled
          /\ [controller EXCEPT !.errors = @ \/ IsAbort(m.reason)].cancelled = controller.cancelled
      BY <2>1 DEF Controllers
    <3>3. Stop(x).cancelled = x.cancelled /\ StopAfterCancel(x).cancelled = x.cancelled
      BY DEF Stop, StopAfterCancel
    <3> QED BY <3>1, <3>2, <3>3
  <2>3. CASE Exit \/ UserCancels \/ ReplyTimeout
    BY <2>1, <2>3 DEF Exit, UserCancels, ReplyTimeout, StopAfterCancel, Controllers
  <2>4. CASE Timing
    BY <2>4 DEF Timing, Issue, CreditReturns, EndSending, CompletePhase, ForceCompletion,
       Freeze, NextPhase, CreditsComplete, BeginCancel, CancelRunners
  <2>5. CASE Workers
    BY <2>5 DEF Workers, ProcessRecord, CancelTask, FinishTask, Return, workerUnchanged
  <2>6. CASE Manager
    BY <2>6 DEF Manager, TrackRecord, HandleNotice, PublishResults
  <2>7. CASE GraceOver \/ UNCHANGED vars
    BY <2>7 DEF GraceOver, vars
  <2> QED BY <2>2, <2>3, <2>4, <2>5, <2>6, <2>7 DEF Next, Step, Controller
<1>2. ~warned' => ~warned
  <2>1. CASE Timing
    BY <2>1 DEF Timing, Issue, CreditReturns, EndSending, CompletePhase, ForceCompletion,
       Freeze, NextPhase, CreditsComplete, BeginCancel, CancelRunners, timingVars
  <2>2. CASE Workers \/ Manager \/ Controller \/ UserCancels \/ ReplyTimeout \/ UNCHANGED vars
    BY <2>2 DEF Workers, ProcessRecord, CancelTask, FinishTask, Return, workerUnchanged,
       Manager, TrackRecord, HandleNotice, PublishResults, Controller, HandleMessage, Exit,
       UserCancels, ReplyTimeout, controllerUnchanged, vars, timingVars
  <2>3. CASE GraceOver
    BY <2>3 DEF GraceOver
  <2> QED BY <2>1, <2>2, <2>3 DEF Next, Step
<1>3. (tracker.aborted => tracker'.aborted) /\ (tracker.done => tracker'.done)
  <2>1. tracker \in Trackers /\ jobs \subseteq Jobs
    BY DEF Types
  <2>2. ASSUME NEW x \in Trackers, NEW T, CheckBarrier(x, T), x.done = tracker.done,
               tracker.aborted => x.aborted
        PROVE  (tracker.aborted => tracker'.aborted) /\ (tracker.done => tracker'.done)
    BY <2>1, <2>2, BarrierSteps
  <2>3. ASSUME NEW c \in Profiling, TrackRecord(c)
        PROVE  (tracker.aborted => tracker'.aborted) /\ (tracker.done => tracker'.done)
    <3> DEFINE x == [tracker EXCEPT !.aborted = TRUE]
    <3>1. CheckBarrier(tracker, Tracked') \/ CheckBarrier(x, Tracked')
      BY <2>3, TrackedSteps
    <3>2. x \in Trackers /\ x.done = tracker.done /\ x.aborted
      BY <2>1, TrackerUpdates
    <3> HIDE DEF x
    <3> QED BY <2>1, <2>2, <3>1, <3>2
  <2>4. ASSUME HandleNotice
        PROVE  (tracker.aborted => tracker'.aborted) /\ (tracker.done => tracker'.done)
    <3>1. PICK m \in Waiting("records") :
            \/ m \in Stats /\ tracker' = Updated(tracker, m)
            \/ m \in Stats /\ CheckBarrier(Updated(tracker, m), Tracked)
            \/ CheckBarrier(tracker, Tracked)
            \/ tracker' = [tracker EXCEPT !.cancelled = TRUE]
      BY <2>4, NoticeSteps
    <3> DEFINE x == Updated(tracker, m)
               y == [tracker EXCEPT !.cancelled = TRUE]
    <3>2. m \in Stats => x \in Trackers /\ x.done = tracker.done /\ x.aborted = tracker.aborted
      BY <2>1, TrackerUpdates
    <3>3. y.done = tracker.done /\ y.aborted = tracker.aborted
      BY <2>1, TrackerUpdates
    <3>4. \/ m \in Stats /\ tracker' = x
          \/ m \in Stats /\ CheckBarrier(x, Tracked)
          \/ CheckBarrier(tracker, Tracked)
          \/ tracker' = y
      BY <3>1
    <3> HIDE DEF x, y
    <3> QED BY <2>1, <2>2, <3>2, <3>3, <3>4
  <2>5. ASSUME ~HandleNotice, ~\E c \in Profiling : TrackRecord(c)
        PROVE  tracker' = tracker
    BY <2>5, OtherManagerSteps
  <2> QED BY <2>3, <2>4, <2>5
<1> QED BY <1>1, <1>2, <1>3 DEF Calm, Aborted

\* A job is the barrier's or answers a cancel command that waited.
LEMMA JobsAsked ==
  ASSUME Types, [Next]_vars, NEW j \in jobs'
  PROVE  \/ j \in jobs
         \/ j.from = "barrier" /\ tracker'.done
         \/ \E m \in Waiting("records") : m.type = "cancel" /\ j.from = m.reason
<1>1. tracker \in Trackers /\ jobs \subseteq Jobs
  BY DEF Types
<1>2. ASSUME NEW x \in Trackers, NEW T, CheckBarrier(x, T)
      PROVE  j \in jobs \/ (j.from = "barrier" /\ tracker'.done)
  <2>1. jobs' = jobs \/ (tracker'.done /\ jobs' = jobs \cup {[from |-> "barrier", cancelled |-> x.cancelled]})
    BY <1>1, <1>2, BarrierSteps
  <2> QED BY <2>1
<1>3. ASSUME NEW c \in Profiling, TrackRecord(c)
      PROVE  j \in jobs \/ (j.from = "barrier" /\ tracker'.done)
  <2> DEFINE x == [tracker EXCEPT !.aborted = TRUE]
  <2>1. CheckBarrier(tracker, Tracked') \/ CheckBarrier(x, Tracked')
    BY <1>3, TrackedSteps
  <2>2. x \in Trackers
    BY <1>1, TrackerUpdates
  <2> HIDE DEF x
  <2> QED BY <1>1, <1>2, <2>1, <2>2
<1>4. ASSUME HandleNotice
      PROVE  \/ j \in jobs
             \/ j.from = "barrier" /\ tracker'.done
             \/ \E m \in Waiting("records") : m.type = "cancel" /\ j.from = m.reason
  <2>1. PICK m \in Waiting("records") :
          \/ jobs' = jobs
          \/ m \in Stats /\ CheckBarrier(Updated(tracker, m), Tracked)
          \/ CheckBarrier(tracker, Tracked)
          \/ m.type = "cancel" /\ jobs' = jobs \cup {[from |-> m.reason, cancelled |-> TRUE]}
    BY <1>4, NoticeSteps
  <2>2. CASE m \in Stats /\ CheckBarrier(Updated(tracker, m), Tracked)
    <3>1. Updated(tracker, m) \in Trackers
      BY <1>1, <2>2, TrackerUpdates
    <3> QED BY <1>2, <2>2, <3>1
  <2>3. CASE CheckBarrier(tracker, Tracked)
    BY <1>1, <1>2, <2>3
  <2>4. CASE m.type = "cancel" /\ jobs' = jobs \cup {[from |-> m.reason, cancelled |-> TRUE]}
    BY <2>4
  <2> QED BY <2>1, <2>2, <2>3, <2>4
<1>5. ASSUME ~HandleNotice, ~\E c \in Profiling : TrackRecord(c)
      PROVE  j \in jobs
  BY <1>5, OtherManagerSteps
<1> QED BY <1>3, <1>4, <1>5

\* The timing manager cancels when it is asked to.
LEMMA TimingAsked ==
  ASSUME Types, CancelsAsked, [Next]_vars
  PROVE  /\ Calm' => ~halted' /\ cancelling' = "no"
<1>1. Calm' => Calm
  BY CalmBefore
<1>2. Calm => ~halted /\ cancelling = "no" /\ inbox["timing"] = <<>>
  BY DEF CancelsAsked
<1>4. TimingTypes
  BY DEF Types
<1>5. CASE Timing
  <2> DEFINE Goal == Calm' => ~halted' /\ cancelling' = "no"
  <2>1. ASSUME NEW c \in Credits, Issue(c) \/ CreditReturns(c)
        PROVE  Goal
    <3>1. UNCHANGED <<halted, cancelling>>
      BY <2>1 DEF Issue, CreditReturns, timingVars
    <3> QED BY <1>1, <1>2, <3>1
  <2>2. ASSUME EndSending \/ CompletePhase \/ ForceCompletion
        PROVE  Goal
    <3>1. UNCHANGED <<halted, cancelling>>
      BY <2>2 DEF EndSending, CompletePhase, ForceCompletion, Freeze
    <3> QED BY <1>1, <1>2, <3>1
  <2>3. ASSUME NextPhase \/ CreditsComplete
        PROVE  Goal
    <3>1. UNCHANGED cancelling /\ (halted' = halted \/ halted' = FALSE)
      BY <2>3 DEF NextPhase, CreditsComplete
    <3> QED BY <1>1, <1>2, <3>1
  <2>4. ASSUME BeginCancel \/ CancelRunners
        PROVE  Goal
    <3>1. ~Calm
      BY <1>2, <2>4 DEF BeginCancel, CancelRunners
    <3> QED BY <1>1, <3>1
  <2> HIDE DEF Goal
  <2>5. Goal
    BY <1>5, <2>1, <2>2, <2>3, <2>4 DEF Timing
  <2> QED BY <2>5 DEF Goal
<1>6. CASE Workers \/ Manager \/ Controller \/ UserCancels \/ ReplyTimeout \/ UNCHANGED vars
  <2>1. UNCHANGED timingVars
    BY <1>6 DEF Workers, ProcessRecord, CancelTask, FinishTask, Return, workerUnchanged,
       Manager, TrackRecord, HandleNotice, PublishResults, Controller, HandleMessage, Exit,
       UserCancels, ReplyTimeout, controllerUnchanged, vars
  <2> QED BY <1>1, <1>2, <2>1 DEF timingVars
<1>7. CASE GraceOver
  BY <1>1, <1>2, <1>7 DEF GraceOver
<1> QED BY <1>5, <1>6, <1>7 DEF Next, Step

\* A phase gives up on credits as it is frozen, and stays so.
LEMMA GivenUp ==
  ASSUME Types, forced => Frozen, [Next]_vars
  PROVE  /\ forced' => Frozen'
         /\ forced => forced'
<1>1. CASE forced
  BY <1>1, FrozenStays
<1>2. ASSUME ~forced, forced'
      PROVE  Frozen'
  <2>1. ForceCompletion
    <3>1. CASE Timing
      BY <1>2, <3>1 DEF Timing, Issue, CreditReturns, EndSending, CompletePhase, Freeze,
         NextPhase, CreditsComplete, BeginCancel, CancelRunners, timingVars
    <3>2. CASE Workers \/ Manager \/ Controller \/ UserCancels \/ ReplyTimeout \/ UNCHANGED vars
      BY <1>2, <3>2 DEF Workers, ProcessRecord, CancelTask, FinishTask, Return,
         workerUnchanged, Manager, TrackRecord, HandleNotice, PublishResults, Controller,
         HandleMessage, Exit, UserCancels, ReplyTimeout, controllerUnchanged, vars, timingVars
    <3>3. CASE GraceOver
      BY <1>2, <3>3 DEF GraceOver
    <3> QED BY <3>1, <3>2, <3>3 DEF Next, Step
  <2> QED BY <1>2, <2>1 DEF ForceCompletion, Freeze, Frozen
<1> QED BY <1>1, <1>2

\* Every cancellation has been asked for.
LEMMA KeepsCancels ==
  ASSUME Types, CancelsAsked, [Next]_vars
  PROVE  CancelsAsked'
<1>1. /\ ~controller'.cancelled => ~controller.cancelled
      /\ Calm' => Calm
  BY CalmBefore
<1>2. Calm' => inbox'["timing"] = <<>>
  BY <1>1, News DEF CancelsAsked
<1>3. ASSUME NEW m \in Waiting("records")', m.type = "cancel"
      PROVE  ~Calm' /\ (~controller'.cancelled => m.reason # "user")
  <2>1. CASE m \in Waiting("records")
    BY <1>1, <1>3, <2>1 DEF CancelsAsked
  <2>2. CASE RecordsNews(m)
    <3>1. m.type # "credits_complete" /\ ~PhaseNews(m)
      BY <1>3 DEF PhaseNews, PhaseStats
    <3>2. m # [type |-> "credits_complete"]
      BY <1>3
    <3>3. CASE m = CancelCommand("user") /\ controller'.cancelled
      BY <3>3 DEF Calm
    <3>4. ASSUME NEW r \in Aborts, m = CancelCommand(r), Aborted'
          PROVE  ~Calm' /\ m.reason # "user"
      BY <3>4 DEF Calm, Aborts, CancelCommand
    <3> QED BY <2>2, <3>1, <3>2, <3>3, <3>4 DEF RecordsNews
  <2> QED BY <2>1, <2>2, News
<1>4. ASSUME NEW j \in jobs', j.from # "barrier"
      PROVE  ~Calm' /\ (~controller'.cancelled => j.from # "user")
  BY <1>1, <1>4, JobsAsked DEF CancelsAsked
<1>5. ASSUME NEW m \in Waiting("controller")', m.type = "cancel"
      PROVE  m.reason \in Aborts
  <2>1. CASE m \in Waiting("controller")
    BY <1>5, <2>1 DEF CancelsAsked
  <2>2. CASE ControllerNews(m)
    BY <1>5, <2>2 DEF ControllerNews, CancelCommand
  <2> QED BY <2>1, <2>2, News
<1>6. "user" # "barrier"
  OBVIOUS
<1>7. forced' => Frozen'
  BY GivenUp DEF CancelsAsked
<1> QED BY <1>2, <1>3, <1>4, <1>5, <1>6, <1>7, TimingAsked DEF CancelsAsked

\* An abort at the head of the queue stays there when more is told.
LEMMA AheadStays ==
  ASSUME NEW S, NEW q \in Seq(S), NEW m, NEW r,
         Ahead(q)
  PROVE  Ahead(Append(q, m)) /\ Ahead(Append(Append(q, m), r))
<1>1. Len(q) \in Nat /\ DOMAIN q = 1..Len(q)
  BY LenProperties
<1>2. PICK i \in 1..Len(q) : \A k \in 1..i : q[k].type = "cancel"
  BY <1>1 DEF Ahead
<1>3. /\ DOMAIN Append(q, m) = 1..(Len(q) + 1)
      /\ \A k \in 1..Len(q) : Append(q, m)[k] = q[k]
  OBVIOUS
<1>4. /\ DOMAIN Append(Append(q, m), r) = 1..(Len(q) + 2)
      /\ \A k \in 1..Len(q) : Append(Append(q, m), r)[k] = q[k]
  OBVIOUS
<1>5. /\ i \in 1..(Len(q) + 1) /\ i \in 1..(Len(q) + 2)
      /\ \A k \in 1..i : k \in 1..Len(q)
  BY <1>1, <1>2
<1>6. \A k \in 1..i : Append(q, m)[k].type = "cancel"
  BY <1>2, <1>3, <1>5
<1>7. \A k \in 1..i : Append(Append(q, m), r)[k].type = "cancel"
  BY <1>2, <1>4, <1>5
<1>8. Ahead(Append(q, m))
  BY <1>3, <1>5, <1>6 DEF Ahead
<1>9. Ahead(Append(Append(q, m), r))
  BY <1>4, <1>5, <1>7 DEF Ahead
<1> QED BY <1>8, <1>9

\* It is at the head of a queue of nothing else.
LEMMA AheadNew ==
  ASSUME NEW S, NEW q \in Seq(S), NEW m \in S, m.type = "cancel",
         \A n \in MessagesOf(q) : n.type = "cancel"
  PROVE  Ahead(Append(q, m))
<1>1. Len(q) \in Nat /\ DOMAIN q = 1..Len(q)
  BY LenProperties
<1>2. /\ DOMAIN Append(q, m) = 1..(Len(q) + 1)
      /\ \A k \in 1..Len(q) : Append(q, m)[k] = q[k]
      /\ Append(q, m)[Len(q) + 1] = m
  OBVIOUS
<1>3. \A k \in 1..Len(q) : q[k].type = "cancel"
  BY <1>1 DEF MessagesOf
<1>4. Len(q) + 1 \in 1..(Len(q) + 1)
      /\ \A k \in 1..(Len(q) + 1) : k \in 1..Len(q) \/ k = Len(q) + 1
  BY <1>1
<1>5. \A k \in 1..(Len(q) + 1) : Append(q, m)[k].type = "cancel"
  BY <1>2, <1>3, <1>4
<1> QED BY <1>2, <1>4, <1>5 DEF Ahead

\* The controller acts on a message, on the user, or at the end.
LEMMA ControllerActs ==
  ASSUME Types, [Next]_vars
  PROVE  \/ HandleMessage
         \/ Exit /\ controller.state = "stopping"
         \/ UserCancels
         \/ ReplyTimeout /\ controller.state = "cancelling"
         \/ /\ controller' = controller
            /\ \/ inbox'["controller"] = inbox["controller"]
               \/ \E m : inbox'["controller"] = Append(inbox["controller"], m)
               \/ \E m, r : inbox'["controller"] = Append(Append(inbox["controller"], m), r)
<1> DEFINE q == inbox["controller"]
           Same == /\ controller' = controller
                   /\ \/ inbox'["controller"] = q
                      \/ \E m : inbox'["controller"] = Append(q, m)
                      \/ \E m, r : inbox'["controller"] = Append(Append(q, m), r)
<1>1. inbox = [s \in Services |-> inbox[s]] /\ "controller" \in Services
  BY DEF Types, InboxTypes, Services
<1>2. ASSUME NEW m, inbox' = Tell("records", m)
      PROVE  inbox'["controller"] = q
  BY <1>1, <1>2 DEF Tell
<1>3. ASSUME NEW m, inbox' = TellAll(m)
      PROVE  inbox'["controller"] = Append(q, m)
  BY <1>1, <1>3 DEF TellAll
<1>4. CASE Timing
  <2>1. ASSUME NEW c \in Credits, Issue(c)
        PROVE  Same
    BY <2>1 DEF Issue
  <2>2. ASSUME NEW c \in Credits, CreditReturns(c)
        PROVE  Same
    <3>1. controller' = controller
          /\ (inbox' = inbox \/ inbox' = TellAll(CancelCommand("warmup")))
      BY <2>2 DEF CreditReturns
    <3> QED BY <1>3, <3>1
  <2>3. ASSUME EndSending \/ CompletePhase \/ ForceCompletion
        PROVE  Same
    <3>1. controller' = controller /\ \E m : inbox' = TellPhase(m)
      BY <2>3 DEF EndSending, CompletePhase, ForceCompletion, Freeze
    <3> QED BY <1>2, <3>1 DEF TellPhase
  <2>4. ASSUME NextPhase \/ CreditsComplete
        PROVE  Same
    <3>1. controller' = controller /\ \E m : inbox' = Tell("records", m)
      BY <2>4 DEF NextPhase, CreditsComplete
    <3> QED BY <1>2, <3>1
  <2>5. ASSUME BeginCancel \/ CancelRunners
        PROVE  Same
    <3>1. controller' = controller
          /\ (inbox' = inbox \/ inbox' = [inbox EXCEPT !["timing"] = Tail(@)])
      BY <2>5 DEF BeginCancel, CancelRunners
    <3> QED BY <1>1, <3>1
  <2>6. Same
    <3> HIDE DEF Same
    <3> QED BY <1>4, <2>1, <2>2, <2>3, <2>4, <2>5 DEF Timing
  <2> QED BY <2>6
<1>5. CASE Workers
  BY <1>5 DEF Workers, ProcessRecord, CancelTask, FinishTask, Return, workerUnchanged
<1>6. CASE Manager
  <2>1. ASSUME NEW c \in Profiling, TrackRecord(c)
        PROVE  Same
    <3>1. controller' = controller
          /\ (inbox' = inbox \/ inbox' = TellAll(CancelCommand("threshold")))
      BY <2>1 DEF TrackRecord
    <3> QED BY <1>3, <3>1
  <2>2. ASSUME HandleNotice
        PROVE  Same
    <3>1. controller' = controller /\ inbox' = [inbox EXCEPT !["records"] = Tail(@)]
      BY <2>2 DEF HandleNotice
    <3> QED BY <1>1, <3>1
  <2>3. ASSUME PublishResults
        PROVE  Same
    BY <2>3, PublishSteps
  <2>4. Same
    <3> HIDE DEF Same
    <3> QED BY <1>6, <2>1, <2>2, <2>3 DEF Manager
  <2> QED BY <2>4
<1>7. CASE Exit \/ ReplyTimeout
  BY <1>7 DEF Exit, ReplyTimeout
<1>8. CASE GraceOver \/ UNCHANGED vars
  BY <1>8 DEF GraceOver, vars
<1> QED BY <1>4, <1>5, <1>6, <1>7, <1>8 DEF Next, Step, Controller

\* What handling a message does to the controller.
LEMMA HandledSteps ==
  ASSUME Types, HandleMessage
  PROVE  \E m \in Waiting("controller") :
           /\ m = inbox["controller"][1] /\ 1 \in DOMAIN inbox["controller"]
           /\ controller'.errors <=> controller.errors \/ (m.type = "cancel" /\ m.reason \in Aborts)
           /\ m.type = "cancel" => controller'.state = controller.state
<1>1. controller \in Controllers /\ InboxTypes /\ "controller" \in Services
  BY DEF Types, Services
<1> DEFINE q == inbox["controller"]
           m == Head(q)
           x == [controller EXCEPT !.results = m.results]
           y == [controller EXCEPT !.errors = @ \/ IsAbort(m.reason)]
<1>2. /\ q # <<>> /\ inbox' = [inbox EXCEPT !["controller"] = Tail(@)]
      /\ \/ m.type = "cancel" /\ controller' = y
         \/ m.type = "results" /\ controller' = Stop(x)
         \/ m.type = "reply" /\ controller' = StopAfterCancel(x)
  BY DEF HandleMessage
<1>3. m \in Waiting("controller")
  BY <1>1, <1>2, TakenOne
<1>4. q \in Seq(Handled("controller"))
  BY <1>1 DEF InboxTypes
<1>5. m = q[1] /\ 1 \in DOMAIN q
  <2>1. Len(q) \in Nat \ {0} /\ DOMAIN q = 1..Len(q)
    BY <1>2, <1>4, LenProperties, EmptySeq
  <2> QED BY <2>1
<1>6. /\ x.errors = controller.errors
      /\ y.errors = (controller.errors \/ IsAbort(m.reason)) /\ y.state = controller.state
  BY <1>1 DEF Controllers
<1>7. Stop(x).errors = x.errors /\ StopAfterCancel(x).errors = x.errors
  BY DEF Stop, StopAfterCancel
<1>8. IsAbort(m.reason) <=> m.reason \in Aborts
  BY DEF IsAbort
<1> HIDE DEF q, m, x, y
<1>9. /\ controller'.errors <=> controller.errors \/ (m.type = "cancel" /\ m.reason \in Aborts)
      /\ m.type = "cancel" => controller'.state = controller.state
  BY <1>2, <1>6, <1>7, <1>8, Zenon
<1> QED BY <1>3, <1>5, <1>9 DEF q

\* An abort is told to the controller too, and comes from the warmup or from a
\* record that was not tracked yet.
LEMMA AbortRaised ==
  ASSUME Types, ~Aborted, Aborted', [Next]_vars
  PROVE  /\ controller' = controller
         /\ \E r \in Aborts : inbox'["controller"] = Append(inbox["controller"], CancelCommand(r))
         /\ \/ current = 1
            \/ "threshold" \in setup /\ \E c \in Profiling : record[c] = "manager"
<1>1. /\ tracker \in Trackers /\ jobs \subseteq Jobs /\ "controller" \in Services
      /\ TimingTypes
  BY DEF Types, Services
<1>2. ASSUME NEW r, inbox' = TellAll(CancelCommand(r))
      PROVE  inbox'["controller"] = Append(inbox["controller"], CancelCommand(r))
  BY <1>1, <1>2 DEF TellAll
<1>3. CASE warned' # warned
  <2>1. PICK c \in Credits : CreditReturns(c)
    <3>1. CASE Timing
      BY <1>3, <3>1 DEF Timing, Issue, EndSending, CompletePhase, ForceCompletion,
         Freeze, NextPhase, CreditsComplete, BeginCancel, CancelRunners, timingVars
    <3>2. CASE Workers \/ Manager \/ Controller \/ UserCancels \/ ReplyTimeout \/ UNCHANGED vars
      BY <1>3, <3>2 DEF Workers, ProcessRecord, CancelTask, FinishTask, Return, workerUnchanged,
         Manager, TrackRecord, HandleNotice, PublishResults, Controller, HandleMessage, Exit,
         UserCancels, ReplyTimeout, controllerUnchanged, vars, timingVars
    <3>3. CASE GraceOver
      BY <1>3, <3>3 DEF GraceOver
    <3> QED BY <3>1, <3>2, <3>3 DEF Next, Step
  <2>2. /\ controller' = controller /\ inbox' = TellAll(CancelCommand("warmup"))
        /\ c \in Phases[current] /\ c \in Warmup
    BY <1>3, <2>1 DEF CreditReturns, WarmupFails
  <2>3. current = 1
    BY <1>1, <2>2, ThePhases, CreditsAssumption DEF TimingTypes
  <2> QED BY <1>2, <2>2, <2>3 DEF Aborts
<1>4. CASE tracker'.aborted /\ ~tracker.aborted
  <2> DEFINE Aborting == tracker'.aborted /\ ~tracker.aborted
  <2>1. PICK c \in Profiling : TrackRecord(c)
    <3>1. CASE HandleNotice
      <4>1. PICK m \in Waiting("records") :
              \/ m \in Stats /\ tracker' = Updated(tracker, m)
              \/ m \in Stats /\ CheckBarrier(Updated(tracker, m), Tracked)
              \/ CheckBarrier(tracker, Tracked)
              \/ tracker' = [tracker EXCEPT !.cancelled = TRUE]
        BY <3>1, NoticeSteps
      <4> DEFINE x == Updated(tracker, m)
                 y == [tracker EXCEPT !.cancelled = TRUE]
      <4>2. m \in Stats => x \in Trackers /\ x.aborted = tracker.aborted
        BY <1>1, TrackerUpdates
      <4>3. y.aborted = tracker.aborted
        BY <1>1, TrackerUpdates
      <4>4. \/ m \in Stats /\ tracker' = x
            \/ m \in Stats /\ CheckBarrier(x, Tracked)
            \/ CheckBarrier(tracker, Tracked)
            \/ tracker' = y
        BY <4>1
      <4> HIDE DEF x, y
      <4>5. ASSUME NEW tr \in Trackers, CheckBarrier(tr, Tracked)
            PROVE  tracker'.aborted = tr.aborted
        BY <1>1, <4>5, BarrierSteps
      <4>6. tracker'.aborted = tracker.aborted
        BY <1>1, <4>2, <4>3, <4>4, <4>5
      <4> QED BY <1>4, <4>6
    <3>2. ASSUME ~HandleNotice, ~\E c \in Profiling : TrackRecord(c)
          PROVE  FALSE
      BY <1>4, <3>2, OtherManagerSteps
    <3> QED BY <3>1, <3>2
  <2>2. /\ record[c] = "manager" /\ controller' = controller
        /\ \/ CheckBarrier(tracker, Tracked')
           \/ inbox' = TellAll(CancelCommand("threshold")) /\ "threshold" \in setup
    BY <2>1, TrackedSteps
  <2>3. CheckBarrier(tracker, Tracked') => tracker'.aborted = tracker.aborted
    BY <1>1, BarrierSteps
  <2> QED BY <1>2, <1>4, <2>2, <2>3 DEF Aborts
<1> QED BY <1>3, <1>4 DEF Aborted

\* Once the barrier is met in a calm run, all counted records are tracked.
LEMMA DoneMet ==
  ASSUME IInv, CancelsAsked, AbortsHeard, Calm', tracker'.done, [Next]_vars
  PROVE  Frozen' /\ (forced' \/ Counted' \subseteq Tracked')
<1>1. /\ Types /\ TasksEnded /\ RecordsInLockstep /\ CountsAgree
      /\ tracker \in Trackers /\ jobs \subseteq Jobs
  BY DEF IInv, Types
<1>2. Calm /\ ~halted' /\ Tracked \in SUBSET Tracked' /\ Tracked' \in SUBSET Tracked'
  BY <1>1, CalmBefore, TimingAsked, KeepsTasks DEF Tracked, Credits
<1>3. CASE tracker.done
  <2>1. Frozen /\ (forced \/ Counted \subseteq Tracked)
    BY <1>2, <1>3 DEF AbortsHeard
  <2> QED BY <1>1, <1>2, <2>1, FrozenStays
<1>4. ASSUME NEW tr \in Trackers, NEW T \in SUBSET Tracked', CheckBarrier(tr, T),
             tr.done = tracker.done, ~tracker.done,
             tr.final # NotFrozen => Frozen /\ tr.final = Cardinality(Counted)
      PROVE  Frozen' /\ (forced' \/ Counted' \subseteq Tracked')
  <2>1. tr.final # NotFrozen /\ Cardinality(T) >= tr.final
    BY <1>1, <1>4, BarrierSteps
  <2>2. Frozen' /\ Counted' = Counted
    BY <1>1, <1>4, <2>1, FrozenStays
  <2>3. Cardinality(T) >= Cardinality(Counted')
    BY <1>4, <2>1, <2>2
  <2> QED BY <1>1, <1>2, <2>2, <2>3, BarrierMet
<1>5. tracker.final # NotFrozen => Frozen /\ tracker.final = Cardinality(Counted)
  BY <1>1 DEF CountsAgree
<1>6. ASSUME ~tracker.done, NEW c \in Profiling, TrackRecord(c)
      PROVE  Frozen' /\ (forced' \/ Counted' \subseteq Tracked')
  <2> DEFINE x == [tracker EXCEPT !.aborted = TRUE]
  <2>1. CheckBarrier(tracker, Tracked') \/ CheckBarrier(x, Tracked')
    BY <1>1, <1>6, TrackedSteps
  <2>2. x \in Trackers /\ x.final = tracker.final /\ x.done = tracker.done
    BY <1>1, TrackerUpdates
  <2> HIDE DEF x
  <2> QED BY <1>1, <1>2, <1>4, <1>5, <1>6, <2>1, <2>2
<1>7. ASSUME ~tracker.done, HandleNotice
      PROVE  Frozen' /\ (forced' \/ Counted' \subseteq Tracked')
  <2>1. PICK m \in Waiting("records") :
          \/ m \in Stats /\ tracker' = Updated(tracker, m)
          \/ m.type = "complete" /\ m \in Stats /\ CheckBarrier(Updated(tracker, m), Tracked)
          \/ CheckBarrier(tracker, Tracked)
          \/ tracker' = [tracker EXCEPT !.cancelled = TRUE]
    BY <1>1, <1>7, NoticeSteps
  <2> DEFINE x == Updated(tracker, m)
             y == [tracker EXCEPT !.cancelled = TRUE]
  <2>2. m \in Stats => x \in Trackers /\ x.done = tracker.done /\ x.final = m.final
    BY <1>1, TrackerUpdates
  <2>3. y.done = tracker.done
    BY <1>1, TrackerUpdates
  <2>4. \/ m \in Stats /\ tracker' = x
        \/ m.type = "complete" /\ m \in Stats /\ CheckBarrier(x, Tracked)
        \/ CheckBarrier(tracker, Tracked)
        \/ tracker' = y
    BY <2>1
  <2>5. m.type = "complete" => Frozen /\ m.final = Cardinality(Counted)
    BY <1>1 DEF CountsAgree
  <2> HIDE DEF x, y
  <2> QED BY <1>1, <1>2, <1>4, <1>5, <1>7, <2>2, <2>3, <2>4, <2>5
<1>8. ASSUME ~HandleNotice, ~\E c \in Profiling : TrackRecord(c)
      PROVE  tracker' = tracker
  BY <1>8, OtherManagerSteps
<1> QED BY <1>3, <1>6, <1>7, <1>8

\* While nobody has asked for a cancellation, only the barrier starts results,
\* and only results stop the controller.
LEMMA NothingBeforeDone ==
  ASSUME IInv, CancelsAsked, AbortsHeard, Calm', [Next]_vars,
         \/ jobs' # {} \/ controller'.state # "running"
         \/ \E m \in Waiting("controller")' : m.type # "cancel"
  PROVE  tracker'.done
<1>1. Types /\ Calm /\ (tracker.done => tracker'.done)
  BY CalmBefore DEF IInv
<1>2. jobs # {} \/ controller.state # "running" \/ (\E m \in Waiting("controller") : m.type # "cancel")
        => tracker.done
  BY <1>1 DEF AbortsHeard
<1>3. ASSUME NEW j \in jobs'
      PROVE  jobs # {} \/ tracker'.done
  <2>1. \A m \in Waiting("records") : m.type # "cancel"
    BY <1>1 DEF CancelsAsked
  <2> QED BY <1>1, <2>1, JobsAsked
<1>4. ASSUME controller'.state # "running"
      PROVE  \/ controller.state # "running"
             \/ \E m \in Waiting("controller") : m.type # "cancel"
  <2>1. CASE HandleMessage
    BY <1>1, <1>4, <2>1, HandledSteps
  <2>2. ~UserCancels
    BY <1>1, UserSteps DEF Calm
  <2>3. "stopping" # "running" /\ "cancelling" # "running"
    OBVIOUS
  <2> QED BY <1>1, <1>4, <2>1, <2>2, <2>3, ControllerActs
<1>5. ASSUME NEW m \in Waiting("controller")', m.type # "cancel"
      PROVE  m \in Waiting("controller") \/ jobs # {}
  <2>1. CASE ControllerNews(m)
    BY <1>5, <2>1 DEF ControllerNews, CancelCommand
  <2> QED BY <1>1, <2>1, News
<1> QED BY <1>1, <1>2, <1>3, <1>4, <1>5

\* Unless the phase gave up on credits, no record is left to raise an alarm once
\* the barrier was met.
LEMMA NoAlarmLeft ==
  ASSUME IInv, CancelsAsked, AbortsHeard, Calm, ~forced,
         NEW c \in Profiling, record[c] = "manager"
  PROVE  ~tracker.done
<1> SUFFICES ASSUME tracker.done
             PROVE  FALSE
  OBVIOUS
<1>1. Frozen /\ (forced \/ Counted \subseteq Tracked)
  BY DEF AbortsHeard
<1>2. ~forced /\ ~halted
  BY DEF CancelsAsked
<1>3. c \in Credits /\ task[c] \in {"unsent", "counted"}
  BY <1>1, <1>2 DEF IInv, CountsAgree, Credits
<1>4. task[c] = "counted" /\ outcome[c] # "none"
  BY <1>3 DEF IInv, TasksEnded
<1>5. outcome[c] # "cancelled"
  BY <1>3 DEF IInv, RecordsInLockstep
<1>6. outcome[c] = "completed"
  BY <1>3, <1>4, <1>5 DEF IInv, Types, WorkerTypes
<1>7. c \in Counted /\ c \notin Tracked
  BY <1>4, <1>6 DEF Counted, Tracked
<1> QED BY <1>1, <1>2, <1>7

\* The controller hears of every abort in time.
LEMMA KeepsAhead ==
  ASSUME IInv, CancelsAsked, AbortsHeard, [Next]_vars,
         ~controller'.cancelled, Aborted', ~controller'.errors, ~forced'
  PROVE  controller'.state = "running" /\ AbortAhead'
<1> DEFINE q == inbox["controller"]
<1>1. Types /\ ~controller.cancelled /\ q \in Seq(Handled("controller"))
  BY CalmBefore DEF IInv, Types, InboxTypes, Services
<1>0. ~forced
  BY <1>1, GivenUp DEF CancelsAsked
<1>2. CASE Aborted
  <2>1. ~controller.errors
    <3>1. CASE HandleMessage
      BY <1>1, <3>1, HandledSteps
    <3>2. controller \in Controllers
      BY <1>1 DEF Types
    <3>3. CASE Exit \/ UserCancels \/ ReplyTimeout
      BY <3>2, <3>3 DEF Exit, UserCancels, ReplyTimeout, StopAfterCancel, Controllers
    <3> QED BY <1>1, <3>1, <3>3, ControllerActs
  <2>2. controller.state = "running" /\ Ahead(q)
    BY <1>0, <1>1, <1>2, <2>1 DEF AbortsHeard, AbortAhead
  <2>3. ~HandleMessage
    <3> SUFFICES ASSUME HandleMessage
                 PROVE  FALSE
      OBVIOUS
    <3>1. PICK m \in Waiting("controller") :
            /\ m = q[1] /\ 1 \in DOMAIN q
            /\ controller'.errors <=> controller.errors \/ (m.type = "cancel" /\ m.reason \in Aborts)
      BY <1>1, HandledSteps
    <3>2. m.type = "cancel"
      <4>1. PICK i \in DOMAIN q : \A k \in 1..i : q[k].type = "cancel"
        BY <2>2 DEF Ahead
      <4>2. i \in 1..Len(q) /\ Len(q) \in Nat
        BY <1>1, <4>1, LenProperties
      <4>3. 1 \in 1..i
        BY <4>2
      <4> QED BY <3>1, <4>1, <4>3
    <3>3. m.reason \in Aborts
      BY <3>2 DEF CancelsAsked
    <3> QED BY <3>1, <3>2, <3>3
  <2>4. ~UserCancels
    BY <1>1, UserSteps
  <2>5. /\ controller' = controller
        /\ \/ inbox'["controller"] = q
           \/ \E m : inbox'["controller"] = Append(q, m)
           \/ \E m, r : inbox'["controller"] = Append(Append(q, m), r)
    <3>1. "running" # "stopping" /\ "running" # "cancelling"
      OBVIOUS
    <3> QED BY <1>1, <2>2, <2>3, <2>4, <3>1, ControllerActs
  <2>6. Ahead(inbox'["controller"])
    <3> HIDE DEF q
    <3>1. \A m, r : Ahead(Append(q, m)) /\ Ahead(Append(Append(q, m), r))
      BY <1>1, <2>2, AheadStays
    <3> QED BY <2>2, <2>5, <3>1
  <2> QED BY <2>2, <2>5, <2>6 DEF AbortAhead
<1>3. CASE ~Aborted
  <2>1. Calm
    BY <1>1, <1>3 DEF Calm
  <2>2. PICK r \in Aborts : inbox'["controller"] = Append(q, CancelCommand(r))
    BY <1>1, <1>3, AbortRaised
  <2>3. controller' = controller
    BY <1>1, <1>3, AbortRaised
  <2>4. ~tracker.done
    <3>1. CASE current = 1
      BY <2>1, <3>1 DEF AbortsHeard, Frozen
    <3>2. ASSUME NEW c \in Profiling, record[c] = "manager"
          PROVE  ~tracker.done
      BY <1>0, <2>1, <3>2, NoAlarmLeft
    <3> QED BY <1>1, <1>3, <3>1, <3>2, AbortRaised
  <2>5. controller.state = "running" /\ \A m \in MessagesOf(q) : m.type = "cancel"
    BY <2>1, <2>4 DEF AbortsHeard, Waiting
  <2>6. CancelCommand(r) \in Handled("controller") /\ CancelCommand(r).type = "cancel"
    BY MessageTypes DEF Reasons, Services, CancelCommand
  <2> DEFINE m == CancelCommand(r)
  <2> HIDE DEF m
  <2>7. Ahead(Append(q, m))
    <3>1. m \in Handled("controller") /\ m.type = "cancel"
      BY <2>6 DEF m
    <3> QED BY <1>1, <2>5, <3>1, AheadNew
  <2> QED BY <2>2, <2>3, <2>5, <2>7 DEF AbortAhead, m
<1> QED BY <1>2, <1>3

\* With it all three parts are kept.
LEMMA AbortInductive ==
  ASSUME AbortIInv, [Next]_vars
  PROVE  AbortIInv'
<1>1. IInv /\ CancelsAsked /\ AbortsHeard /\ Types
  BY DEF AbortIInv, IInv
<1>2. IInv' /\ CancelsAsked'
  BY <1>1, Inductive, KeepsCancels
<1>3. Calm' /\ (\/ jobs' # {} \/ controller'.state # "running"
                \/ \E m \in Waiting("controller")' : m.type # "cancel")
        => tracker'.done
  BY <1>1, NothingBeforeDone
<1>4. Calm' /\ tracker'.done => Frozen' /\ (forced' \/ Counted' \subseteq Tracked')
  BY <1>1, DoneMet
<1>5. ~controller'.cancelled /\ Aborted' /\ ~controller'.errors /\ ~forced'
        => controller'.state = "running" /\ AbortAhead'
  BY <1>1, KeepsAhead
<1>6. AbortsHeard'
  BY <1>3, <1>4, <1>5, Zenon DEF AbortsHeard
<1> QED BY <1>2, <1>6 DEF AbortIInv

\* AbortIsAnError, whatever a run may meet: an aborted run exits with an error,
\* unless the profiling phase gave up on credits that never came back.
THEOREM AbortsExitWithError == Spec => []AbortIsAnError
<1>1. Init => AbortIInv
  BY InitHolds DEF AbortIInv
<1>2. AbortIInv /\ [Next]_vars => AbortIInv'
  BY AbortInductive
<1>3. AbortIInv => AbortIsAnError
  <2> SUFFICES ASSUME AbortsHeard
               PROVE  AbortIsAnError
    BY DEF AbortIInv
  <2>1. "exited" # "running"
    OBVIOUS
  <2> QED BY <2>1 DEF AbortsHeard, AbortIsAnError
<1> QED BY <1>1, <1>2, <1>3, PTL DEF Spec
===============================================================================
