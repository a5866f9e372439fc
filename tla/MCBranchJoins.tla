---------------------------- MODULE MCBranchJoins ----------------------------
(* Small conversations for BranchJoins: two branches, three children.       *)
EXTENDS BranchJoins, TLC

CONSTANTS b1, b2, c1, c2, c3, c4

BranchSet == {b1, b2}
ChildSet == {c1, c2, c3, c4}

Branching(kind, spawn, gates, kids) ==
  [kind |-> kind, spawn |-> b1 :> spawn[1] @@ b2 :> spawn[2],
   gates |-> b1 :> gates[1] @@ b2 :> gates[2],
   kids |-> b1 :> kids[1] @@ b2 :> kids[2],
   overlap |-> {}, late |-> {}, broken |-> {},
   held |-> IF kind = "replay" THEN ChildSet ELSE {}]

\* A join at the next turn, and children in the background of the same turn.
Plain(kind) == Branching(kind, <<0, 0>>, <<{1}, {}>>, <<{c1, c2}, {c3}>>)
\* The last turn starts children as well.
Final(kind) == Branching(kind, <<0, 2>>, <<{2}, {}>>, <<{c1, c2}, {c3, c4}>>)
\* One turn joins the branches of two turns; a child of the later one is late.
FanIn(kind) == [Branching(kind, <<0, 1>>, <<{2}, {2}>>, <<{c1, c2}, {c3, c4}>>)
                EXCEPT !.late = {c3}]
\* Branches that overlapped with the turn that declares them.
Overlapping == [Branching("replay", <<0, 1>>, <<{1}, {2}>>, <<{c1, c2}, {c3, c4}>>)
                EXCEPT !.overlap = {b1}, !.late = {c2}]
\* A branch that two turns join; and a branch none of whose children starts.
MultiConsumer == Branching("rate", <<0, 1>>, <<{1, 2}, {2}>>, <<{c1, c2}, {c3, c4}>>)
Broken == [MultiConsumer EXCEPT !.broken = {c3, c4}, !.late = {c1}]

AllPlans == {Plain("replay"), Plain("rate"), Final("replay"), FanIn("replay"),
             FanIn("rate"), Overlapping, MultiConsumer, Broken}

\* No turn waits at the barrier.
FreePlans == {[Plain("replay") EXCEPT !.held = {}]}
=============================================================================
