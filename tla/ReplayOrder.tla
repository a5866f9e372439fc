----------------------------- MODULE ReplayOrder -----------------------------
(***************************************************************************)
(* What a replay promises of the recorded order, whatever carries it out:  *)
(* a request goes out once, after the request before it on its own stream  *)
(* and after every request that, on the record, its start had waited for.  *)
(***************************************************************************)
EXTENDS Integers

CONSTANT Turns

VARIABLES
  precedes,   \* of each turn, the turns that must have come back before it
  sent,       \* turns sent so far, those before the replay's start included
  returned    \* turns that came back

vars == <<precedes, sent, returned>>

Init ==
  /\ precedes \in [Turns -> SUBSET Turns]
  /\ sent \in SUBSET Turns
  /\ returned = sent

Send(t) ==
  /\ t \notin sent
  /\ precedes[t] \subseteq returned
  /\ sent' = sent \cup {t}
  /\ UNCHANGED <<precedes, returned>>

Return(t) ==
  /\ t \in sent \ returned
  /\ returned' = returned \cup {t}
  /\ UNCHANGED <<precedes, sent>>

Next == \E t \in Turns : Send(t) \/ Return(t)

Spec == Init /\ [][Next]_vars
==============================================================================
