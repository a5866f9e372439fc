------------------------------ MODULE Recording ------------------------------
(***************************************************************************)
(* What a captured agentic trace fixes about its replay: which requests a  *)
(* request must wait for (infer_cross_stream_predecessors of aiperf/timing/ *)
(* replay_dependencies.py), which turn of the root spawns a subagent and   *)
(* which one joins it (the weka loader).                                   *)
(*                                                                         *)
(* A trace is a root stream and its subagents, each a sequence of turns    *)
(* with the instants at which the recorded request began and finished.     *)
(* Every start is a number here: a turn without one waits for nobody.      *)
(***************************************************************************)
EXTENDS Integers, FiniteSets

CONSTANTS Root, Children,
          NumTurns,        \* how many turns each stream has
          LastInstant      \* the recorded instants are 0 .. LastInstant

Streams == {Root} \cup Children
Instants == 0 .. LastInstant
Turns == UNION {{s} \X (0 .. NumTurns[s] - 1) : s \in Streams}

ASSUME StreamsAssumption == Root \notin Children /\ IsFiniteSet(Children)
ASSUME TurnsAssumption == NumTurns \in [Streams -> Nat \ {0}]
ASSUME InstantsAssumption == LastInstant \in Nat

IsFinal(t) == t[2] = NumTurns[t[1]] - 1
After(t) == <<t[1], t[2] + 1>>

-------------------------------------------------------------------------------
\* The frontier of completed requests a turn must join.

\* The requests of other streams that had begun before t and ended by its start.
EndedBy(rec, t) ==
  {p \in Turns : /\ p[1] # t[1]
                 /\ rec.begin[p] < rec.begin[t]
                 /\ rec.finish[p] <= rec.begin[t]}

\* p was the last of its stream to end: by end, then by start, then by position.
EndsLast(rec, p, ps) ==
  \A q \in ps : q[1] = p[1] =>
    \/ rec.finish[q] < rec.finish[p]
    \/ rec.finish[q] = rec.finish[p] /\ rec.begin[q] < rec.begin[p]
    \/ rec.finish[q] = rec.finish[p] /\ rec.begin[q] = rec.begin[p] /\ q[2] <= p[2]

Frontier(rec, t) == {p \in EndedBy(rec, t) : EndsLast(rec, p, EndedBy(rec, t))}

\* The slip drops a request of the frontier for any later one, overlapping or not.
InferPredecessorsLoosely(rec, t) ==
  {p \in Frontier(rec, t) :
     ~ \E q \in Frontier(rec, t) \ {p} : rec.begin[p] < rec.begin[q]}

InferPredecessors(rec, t) ==
  {p \in Frontier(rec, t) :
     ~ \E q \in Frontier(rec, t) \ {p} : /\ rec.begin[p] < rec.begin[q]
                                         /\ rec.finish[p] <= rec.begin[q]}

-------------------------------------------------------------------------------
\* Where the loader hangs a subagent on its root.

RootTurns == 0 .. NumTurns[Root] - 1
ChildBegin(rec, c) == rec.begin[<<c, 0>>]
ChildEnd(rec, c) == rec.finish[<<c, NumTurns[c] - 1>>]

\* The last turn of the root that precedes the child's first request.
SpawnedAt(rec, c) ==
  CHOOSE i \in RootTurns :
    /\ rec.begin[<<Root, i>>] <= ChildBegin(rec, c)
    /\ \A j \in RootTurns : rec.begin[<<Root, j>>] <= ChildBegin(rec, c) => j <= i

\* The first later turn that began once the child had ended; past the last
\* turn where there is none, and the child runs in the background.
JoinedAt(rec, c) ==
  LET later == {i \in RootTurns : /\ i > SpawnedAt(rec, c)
                                  /\ rec.begin[<<Root, i>>] >= ChildEnd(rec, c)}
  IN  IF later = {} THEN NumTurns[Root]
      ELSE CHOOSE i \in later : \A j \in later : i <= j

\* The child was already running when the request that spawned it returned.
SpawnOverlaps(rec, c) ==
  LET t == <<Root, SpawnedAt(rec, c)>>
  IN  rec.begin[t] < rec.finish[t] /\ ChildBegin(rec, c) < rec.finish[t]

\* The traces that can be recorded: the turns of a stream start in order, and no
\* subagent starts before its root does.
Recordings ==
  {rec \in [begin : [Turns -> Instants], finish : [Turns -> Instants]] :
     /\ \A t \in Turns : rec.begin[t] <= rec.finish[t]
     /\ \A t, u \in Turns : t[1] = u[1] /\ t[2] < u[2] => rec.begin[t] <= rec.begin[u]
     /\ rec.begin[<<Root, 0>>] = 0}
==============================================================================
