----------------------------- MODULE PhaseContract -----------------------------
(***************************************************************************)
(* What a phase promises to those who read its statistics: requests are    *)
(* sent up to the cap and only while it is sending, every one of them is   *)
(* counted back at most once and only before the phase is complete, and a  *)
(* phase is complete when all are back - or excused, having been cancelled *)
(* or having waited in vain for answers that never came.                   *)
(***************************************************************************)
EXTENDS Integers

CONSTANT NoLimit

VARIABLES cap, stage, sent, back, excused

contractVars == <<cap, stage, sent, back, excused>>

Init ==
  /\ cap \in Nat \cup {NoLimit}
  /\ stage = "started" /\ sent = 0 /\ back = 0 /\ excused = FALSE

Send ==
  /\ stage = "started"
  /\ cap # NoLimit => sent < cap
  /\ sent' = sent + 1
  /\ UNCHANGED <<cap, stage, back, excused>>

CountBack ==
  /\ stage # "complete" /\ back < sent
  /\ back' = back + 1
  /\ UNCHANGED <<cap, stage, sent, excused>>

StopSending ==
  /\ stage = "started"
  /\ stage' = "sending_complete"
  /\ UNCHANGED <<cap, sent, back, excused>>

Excuse ==
  /\ ~excused
  /\ excused' = TRUE
  /\ UNCHANGED <<cap, stage, sent, back>>

Complete ==
  /\ stage = "sending_complete"
  /\ stage' = "complete"
  /\ excused' \in {excused, TRUE}
  /\ ~excused' => back = sent
  /\ UNCHANGED <<cap, sent, back>>

Next == Send \/ CountBack \/ StopSending \/ Excuse \/ Complete

Spec == Init /\ [][Next]_contractVars
===============================================================================
