---------------------------- MODULE MCReplayLane ----------------------------
(* Small recordings for ReplayLane: a root and two subagents.               *)
EXTENDS ReplayLane, TLC

CONSTANTS Long, Short

\* A root and one subagent of two turns, and a subagent of a single turn.
TwoChildren == {Long, Short}
SmallTurns == (Root :> 2) @@ (Long :> 2) @@ (Short :> 1)
==============================================================================
