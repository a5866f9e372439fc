----------------------------- MODULE JoinContract -----------------------------
(***************************************************************************)
(* What the joins of a branching conversation promise, whatever keeps the  *)
(* books: the parent's turns go out one after the other, each once, and a  *)
(* turn that joins branches goes out when no child of theirs is running.   *)
(***************************************************************************)
EXTENDS Integers

CONSTANTS Children, NumTurns

VARIABLES
  gating,   \* of each turn of the parent, the children it joins
  sent,     \* how many turns of the parent have gone out
  started,  \* children that were started
  running   \* those among them that are not over

vars == <<gating, sent, started, running>>

Init ==
  /\ gating \in [0 .. NumTurns - 1 -> SUBSET Children]
  /\ sent = 0 /\ started = {} /\ running = {}

Send ==
  /\ sent < NumTurns
  /\ gating[sent] \cap running = {}
  /\ sent' = sent + 1
  /\ UNCHANGED <<gating, started, running>>

\* No child is started for a turn that has gone out.
Start(cs) ==
  /\ cs \cap started = {}
  /\ \A t \in 0 .. sent - 1 : gating[t] \cap cs = {}
  /\ started' = started \cup cs /\ running' = running \cup cs
  /\ UNCHANGED <<gating, sent>>

Finish(cs) ==
  /\ cs \subseteq running
  /\ running' = running \ cs
  /\ UNCHANGED <<gating, sent, started>>

Next == Send \/ \E cs \in SUBSET Children : Start(cs) \/ Finish(cs)

Spec == Init /\ [][Next]_vars
===============================================================================
