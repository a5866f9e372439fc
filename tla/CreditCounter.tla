----------------------------- MODULE CreditCounter -----------------------------
(***************************************************************************)
(* The counters of a phase (aiperf/timing/phase/credit_counter.py) and the *)
(* stop conditions that read them (aiperf/timing/phase/stop_conditions.py).*)
(*                                                                         *)
(* Completed and cancelled requests are counted apart in the code and only *)
(* ever read as a sum by what follows, so one number stands for both here; *)
(* the same holds of completed and cancelled sessions.  Error counts and   *)
(* the frozen copies kept for reporting are left out.                      *)
(***************************************************************************)
EXTENDS Integers

CONSTANT NoLimit    \* a stop condition that is not configured

ASSUME NoLimitAssumption == NoLimit \notin Int

NotFrozen == -1

(***************************************************************************)
(* cap, target      total_expected_requests and expected_num_sessions       *)
(* sent, rootSent   requests sent, and those of root conversations         *)
(* sessions, turns  root sessions started, and the turns they will send    *)
(* returned, ended  requests that came back, and sessions that finished    *)
(* prefills         prefill slots released                                 *)
(* finalSent        sent when sending ended, NotFrozen before              *)
(***************************************************************************)
NewCounter(cap, target) ==
  [cap |-> cap, target |-> target, sent |-> 0, rootSent |-> 0, sessions |-> 0,
   turns |-> 0, returned |-> 0, ended |-> 0, prefills |-> 0, finalSent |-> NotFrozen]

InFlight(c) == c.sent - c.returned
InFlightSessions(c) == c.sessions - c.ended
InFlightPrefills(c) == c.sent - c.prefills

(***************************************************************************)
(* A turn to send: root (agent_depth = 0), start (turn 0 or a mid-trace    *)
(* resume), left (turns from this one to the end), planned                 *)
(* (counts_toward_phase_target).                                           *)
(***************************************************************************)
AfterSent(c, t) ==
  LET opens == t.root /\ t.start
  IN  [c EXCEPT !.sent     = @ + 1,
                !.rootSent = @ + (IF t.root THEN 1 ELSE 0),
                !.sessions = @ + (IF opens THEN 1 ELSE 0),
                !.turns    = @ + (IF opens THEN t.left ELSE 0)]

\* Slips of one definition each are kept beside it: the runs' properties must
\* tell the code from the slip.
CrossesRequestCap(c) == c.cap # NoLimit /\ c.sent >= c.cap

CrossesSessionTargetEarly(c) == c.target # NoLimit /\ c.sessions >= c.target
CrossesSessionTarget(c) ==
  /\ c.target # NoLimit
  /\ c.sessions >= c.target
  /\ c.rootSent >= c.turns

\* increment_sent()'s verdict, of the counters after the turn was counted.
IsFinalCredit(c, t) ==
  CrossesRequestCap(c) \/ (t.planned /\ CrossesSessionTarget(c))

AfterReturned(c, endsSession) ==
  [c EXCEPT !.returned = @ + 1, !.ended = @ + (IF endsSession THEN 1 ELSE 0)]

AllReturnedUnfrozen(c) == c.returned >= c.finalSent
AllReturned(c) == c.finalSent # NotFrozen /\ c.returned >= c.finalSent

FreezeSent(c) == [c EXCEPT !.finalSent = c.sent]

AfterPrefillReleased(c) == [c EXCEPT !.prefills = @ + 1]

-------------------------------------------------------------------------------
(***************************************************************************)
(* The stop conditions, of the counters c and the lifecycle facts f:       *)
(* cancelled, sendingComplete, and timeLeft (TRUE without a duration).     *)
(***************************************************************************)
RequestsLeft(c) == c.cap # NoLimit => c.sent < c.cap
SessionsLeft(c) == c.target # NoLimit => c.sessions < c.target

CanSendChildTurn(c, f) == ~f.cancelled /\ RequestsLeft(c) /\ f.timeLeft

CanSendAnyTurn(c, f) ==
  /\ CanSendChildTurn(c, f)
  /\ ~f.sendingComplete
  /\ ~SessionsLeft(c) => c.rootSent < c.turns

CanStartNewSession(c, f) == CanSendAnyTurn(c, f) /\ SessionsLeft(c)
===============================================================================
