------------------------------ MODULE ReplayLane ------------------------------
(***************************************************************************)
(* ReplayBarrierCoordinator (aiperf/timing/replay_dependencies.py) at work *)
(* on one lane of the agentic replay: a root and its subagents resume from *)
(* a snapshot of the recording, each turn is held back until the recorded  *)
(* requests before it have returned, and a cache-pressure stage hands what *)
(* is left of the trees over to profiling (strategies/agentic_replay.py).  *)
(*                                                                         *)
(* A turn that is not yet on the wire is due (its delay runs, or the loop  *)
(* has not come to it), retained by the barrier, or issuing (its task      *)
(* awaits a prefill slot).  A join is kept as the code keeps it: the       *)
(* children that gate it, and the turn at which the root is suspended.     *)
(*                                                                         *)
(* The end of the pressure stage stops the issuer: a turn that is issuing  *)
(* then may be refused, and its stream is lost unless a turn of it had     *)
(* come back during the stage.  lost keeps the streams nothing resumes.    *)
(*                                                                         *)
(* Left out: other lanes (the barrier keys its state by root), the recycle *)
(* of a drained or lost lane, the teardown of the profiling phase, and     *)
(* turns that exceed the model's context (see SessionTree).  Every         *)
(* subagent is a branch of its own.                                        *)
(***************************************************************************)
EXTENDS Recording

VARIABLES
  recorded,      \* the trace: when each request began and finished
  predecessors,  \* _predecessors: of each turn, the turns it joins
  resumed,       \* of each stream of the snapshot, the turn it goes on with
  stage,         \* pressure, draining or profiling
  completed,     \* the completed turns the barrier knows of
  pending,       \* turns the barrier retains
  due, issuing, wire,
  sent,          \* every turn that has gone out, those before the snapshot too
  handoff,       \* _handoff_credits: each stream's last returned turn
  spawned,       \* children that have been started
  tracked,       \* _child_to_join: children the orchestrator waits for
  gating,        \* those among them that gate a join
  suspended,     \* the turn the suspended root waits to send, or NoTurn
  lost           \* unfinished streams that nothing goes on with any more

traceVars == <<recorded, predecessors, resumed>>
turnVars == <<pending, due, issuing, wire, sent>>
joinVars == <<spawned, tracked, gating, suspended>>
vars == <<traceVars, stage, completed, turnVars, handoff, joinVars, lost>>

NoTurn == -1

Returned == sent \ wire
SpawnedBy(t) == {c \in Children : t = <<Root, SpawnedAt(recorded, c)>>}
Gates(i) == {c \in gating : JoinedAt(recorded, c) = i}

-------------------------------------------------------------------------------
\* The snapshot a lane resumes from: t* falls just before the instant s.

NextTurn(rec, s, str) ==
  Cardinality({t \in Turns : t[1] = str /\ rec.begin[t] < s})

\* Subagents with turns left that have begun, or whose spawn will not replay.
LiveAt(rec, s) ==
  {c \in Children : /\ NextTurn(rec, s, c) < NumTurns[c]
                    /\ \/ ChildBegin(rec, c) < s
                       \/ SpawnedAt(rec, c) < NextTurn(rec, s, Root)}

WaitsAt(rec, s) == \E c \in LiveAt(rec, s) : JoinedAt(rec, c) = NextTurn(rec, s, Root)

Resumed(rec, s) ==
  {<<c, NextTurn(rec, s, c)>> : c \in LiveAt(rec, s)} \cup
  {<<Root, i>> : i \in {NextTurn(rec, s, Root)} \cap RootTurns}

Dispatchable(rec, s) ==
  {t \in Resumed(rec, s) : t[1] # Root \/ ~WaitsAt(rec, s)}

PrefixesAt(rec, s) == {t \in Turns : rec.begin[t] < s}

Init ==
  \E rec \in Recordings, s \in Instants :
    /\ Dispatchable(rec, s) # {}
    /\ recorded = rec
    /\ predecessors = [t \in Turns |-> InferPredecessors(rec, t)]
    /\ resumed = Resumed(rec, s)
    /\ stage \in {"pressure", "profiling"} /\ lost = {}
    /\ completed = PrefixesAt(rec, s) /\ sent = PrefixesAt(rec, s)
    /\ due = Dispatchable(rec, s)
    /\ pending = {} /\ issuing = {} /\ wire = {} /\ handoff = {}
    /\ spawned = {c \in Children : ChildBegin(rec, c) < s} \cup LiveAt(rec, s)
    /\ tracked = LiveAt(rec, s)
    /\ gating = IF NextTurn(rec, s, Root) \in RootTurns
                THEN {c \in LiveAt(rec, s) : JoinedAt(rec, c) \in RootTurns}
                ELSE {}
    /\ suspended = IF WaitsAt(rec, s) /\ NextTurn(rec, s, Root) \in RootTurns
                   THEN NextTurn(rec, s, Root) ELSE NoTurn

-------------------------------------------------------------------------------
\* The barrier.

Ready(t, done) == predecessors[t] \subseteq done
Paused == stage = "draining"

\* submit: what is ready is issued, and the rest retained.
Submit(ts) ==
  LET now == {t \in ts : Ready(t, completed) /\ ~Paused}
  IN  issuing' = issuing \cup now /\ pending' = pending \cup (ts \ now)

\* complete, with the turns a released join had submitted just before: what has
\* become ready is issued.  The slip looks only at what the turn itself was for.
CompleteLast(t, ts) ==
  LET done == completed \cup {t}
      now == {u \in pending \cup ts : t \in predecessors[u] /\ Ready(u, done) /\ ~Paused}
  IN  /\ completed' = done
      /\ issuing' = issuing \cup now
      /\ pending' = (pending \cup ts) \ now

Complete(t, ts) ==
  LET done == completed \cup {t}
      now == {u \in pending \cup ts : Ready(u, done) /\ ~Paused}
  IN  /\ completed' = done
      /\ issuing' = issuing \cup now
      /\ pending' = (pending \cup ts) \ now

-------------------------------------------------------------------------------
\* Turns go out and come back.

SubmitDue(t) ==
  /\ t \in due /\ due' = due \ {t}
  /\ Submit({t})
  /\ UNCHANGED <<traceVars, stage, completed, wire, sent, handoff, joinVars, lost>>

\* Children are started and enter the joins they gate.
Start(cs) ==
  /\ spawned' = spawned \cup cs
  /\ tracked' = tracked \cup cs
  /\ gating' = gating \cup {c \in cs : JoinedAt(recorded, c) \in RootTurns}

First(cs) == {<<c, 0>> : c \in cs}

\* A slot is free: the request goes out, and the branches it had overlapped with
\* on the record start beside it.
Issue(t) ==
  LET cs == {c \in SpawnedBy(t) \ spawned : SpawnOverlaps(recorded, c)}
  IN  /\ t \in issuing /\ issuing' = issuing \ {t}
      /\ wire' = wire \cup {t} /\ sent' = sent \cup {t}
      /\ Start(cs)
      /\ due' = due \cup First(cs)
      /\ UNCHANGED <<traceVars, stage, completed, pending, handoff, suspended, lost>>

\* observe_credit_return: under pressure the last turn of each stream is noted,
\* until the stream is finished.  The slips note the last turn too, and only
\* what the root returns.
NoteReturnOfEvery(t) ==
  handoff' = IF stage = "profiling" THEN handoff
             ELSE {u \in handoff : u[1] # t[1]} \cup {t}

NoteReturnOfRoots(t) ==
  handoff' = IF stage = "profiling" \/ t[1] # Root THEN handoff
             ELSE {u \in handoff : u[1] # t[1]} \cup {u \in {t} : ~IsFinal(u)}

NoteReturn(t) ==
  handoff' = IF stage = "profiling" THEN handoff
             ELSE {u \in handoff : u[1] # t[1]} \cup {u \in {t} : ~IsFinal(u)}

\* The child c is done: the join turn it was the last to gate.  The slip looks
\* at what is outstanding before the child is taken out of it.
JoinReleasedEarly(c) == {<<Root, i>> : i \in {suspended} \cap RootTurns \cap
                                             {j \in RootTurns : Gates(j) = {}}}
JoinReleased(c) == {<<Root, i>> : i \in {suspended} \cap RootTurns \cap
                                        {j \in RootTurns : Gates(j) = {c}}}

ChildDone(c) ==
  /\ tracked' = tracked \ {c} /\ gating' = gating \ {c}
  /\ suspended' = IF JoinReleased(c) # {} THEN NoTurn ELSE suspended
  /\ UNCHANGED spawned

\* A child's turn returns.  The child is done after its last one.
ReturnOfChild(t) ==
  /\ t \in wire /\ t[1] \in Children
  /\ wire' = wire \ {t}
  /\ NoteReturn(t)
  /\ \/ /\ ~IsFinal(t)
        /\ Complete(t, {})
        /\ due' = due \cup {After(t)}
        /\ UNCHANGED joinVars
     \/ /\ IsFinal(t)
        /\ Complete(t, JoinReleased(t[1]))
        /\ ChildDone(t[1])
        /\ UNCHANGED due
  /\ UNCHANGED <<traceVars, stage, sent, lost>>

\* A turn of the root returns: its remaining branches start, and the root is
\* suspended when its next turn has a child to wait for; else the next turn is due.
ReturnOfRoot(t) ==
  LET cs == SpawnedBy(t) \ spawned
      gated == {c \in gating \cup cs : JoinedAt(recorded, c) = t[2] + 1} # {}
  IN  /\ t \in wire /\ t[1] = Root
      /\ wire' = wire \ {t}
      /\ NoteReturn(t)
      /\ Complete(t, {})
      /\ Start(cs)
      /\ \/ /\ ~IsFinal(t) /\ gated
            /\ suspended' = t[2] + 1
            /\ due' = due \cup First(cs)
         \/ /\ ~IsFinal(t) /\ ~gated
            /\ due' = due \cup First(cs) \cup {After(t)}
            /\ UNCHANGED suspended
         \/ /\ IsFinal(t)
            /\ due' = due \cup First(cs)
            /\ UNCHANGED suspended
      /\ UNCHANGED <<traceVars, stage, sent, lost>>

-------------------------------------------------------------------------------
\* From the cache-pressure stage to profiling.

\* _finish_accelerated_warmup: the barrier keeps what is submitted from now on,
\* the issuer is stopped, and what is on the wire is left to return.
EndPressure ==
  /\ stage = "pressure" /\ stage' = "draining"
  /\ UNCHANGED <<traceVars, completed, turnVars, handoff, joinVars, lost>>

\* The stopped issuer refuses a turn that has yet to pass its check, or a root's
\* turn that gets its prefill slot only now (others still go out: Issue).  Of a
\* subagent's turn the orchestrator is told, save of those the lane resumed with;
\* it takes the subagent for stopped.  A stream that was noted can go on.
Refuse(t) ==
  /\ stage = "draining" /\ t \in issuing /\ issuing' = issuing \ {t}
  /\ lost' = lost \cup ({t[1]} \ {u[1] : u \in handoff})
  /\ \/ /\ t[1] = Root \/ t \in resumed
        /\ UNCHANGED <<pending, joinVars>>
     \/ /\ t[1] \in Children /\ t \notin resumed
        /\ pending' = pending \cup JoinReleased(t[1])
        /\ ChildDone(t[1])
  /\ UNCHANGED <<traceVars, stage, completed, due, wire, sent, handoff>>

\* Each stream goes on after the last turn it returned, or with the turn that
\* the barrier retains.  The slip forgets the retained turns.
HandoverOfReturned == {After(t) : t \in handoff}
HandoverTurns == {After(t) : t \in handoff} \cup pending

\* The completed prefix of every stream.  The slip takes the live streams alone.
HandoverPrefixesOfLive ==
  {t \in Turns : \E u \in HandoverTurns : u[1] = t[1] /\ t[2] < u[2]}
HandoverPrefixes == completed \cup
  {t \in Turns : \E u \in HandoverTurns : u[1] = t[1] /\ t[2] < u[2]}

\* The live streams are resumed in a new phase, with a barrier of its own.  A
\* suspended root waits on when it was noted and a child it waits for is live.
Handover ==
  LET live == {t[1] : t \in HandoverTurns}
      waits == Root \in live /\ suspended # NoTurn /\ Gates(suspended) \cap live # {}
  IN  /\ stage = "draining" /\ stage' = "profiling"
      /\ wire = {} /\ issuing = {} /\ due = {}
      /\ completed' = HandoverPrefixes
      /\ due' = {t \in HandoverTurns : t[1] = Root => suspended = NoTurn}
      /\ pending' = {} /\ handoff' = {}
      /\ tracked' = live \cap Children
      /\ gating' = IF Root \in live THEN gating \cap live ELSE {}
      /\ suspended' = IF waits THEN suspended ELSE NoTurn
      /\ lost' = lost \cup {r \in {Root} : suspended # NoTurn /\ ~waits}
      /\ UNCHANGED <<traceVars, issuing, wire, sent, spawned>>

Quiet == due = {} /\ issuing = {} /\ wire = {} /\ stage = "profiling"
Done == Quiet /\ UNCHANGED vars

Step ==
  \/ \E t \in Turns : \/ SubmitDue(t) \/ Issue(t) \/ Refuse(t)
                     \/ ReturnOfChild(t) \/ ReturnOfRoot(t)
  \/ EndPressure \/ Handover

Next == Step \/ Done

Spec == Init /\ [][Next]_vars

-------------------------------------------------------------------------------
\* Types of the variables.
TypeOK ==
  /\ recorded \in Recordings
  /\ predecessors \in [Turns -> SUBSET Turns]
  /\ stage \in {"pressure", "draining", "profiling"}
  /\ {resumed, completed, pending, due, issuing, wire, sent, handoff} \subseteq SUBSET Turns
  /\ {spawned, tracked, gating} \subseteq SUBSET Children
  /\ suspended \in RootTurns \cup {NoTurn}
  /\ lost \subseteq Streams

\* A stream that was started, is not finished and is not lost has exactly one turn
\* under way, its first one that has not returned, wherever that turn is.  Only
\* a root that waits for a child at a join has none, and, until the handover, a
\* stream whose turn was refused after another had been noted.  Outside of the
\* drain the orchestrator tracks just the unfinished subagents.
Underway(str) == {t \in due \cup pending \cup issuing \cup wire : t[1] = str}
NextOf(str) == {t \in Turns : /\ t[1] = str /\ t \notin Returned
                              /\ \A i \in 0 .. t[2] - 1 : <<str, i>> \in Returned}
Waiting == suspended # NoTurn /\ Gates(suspended) # {}
                              /\ <<Root, suspended>> \in NextOf(Root)

Going == ({Root} \cup spawned) \ lost
GoesOnAtHandover(str) ==
  stage = "draining" /\ \E t \in handoff : t[1] = str /\ NextOf(str) = {After(t)}

OneTurnEach ==
  /\ \A str \in Streams \ Going : Underway(str) = {}
  /\ \A str \in Going \ {r \in {Root} : Waiting} :
       \/ Underway(str) = NextOf(str)
       \/ Underway(str) = {} /\ GoesOnAtHandover(str)
  /\ Waiting => Underway(Root) = {}
  /\ suspended = NoTurn \/ Waiting
  /\ stage # "draining" => tracked = {c \in spawned \ lost : NextOf(c) # {}}
  /\ \A a, b \in {due, pending, issuing, wire} : a = b \/ a \cap b = {}

\* A stream is lost only if none of its turns came back in the pressure stage:
\* the handover goes on with every stream it has heard of.  But a root is also
\* lost with the subagents it waits for.
OnlyUnheardAreLost ==
  \A str \in lost : \/ NextOf(str) \subseteq resumed \cup First(Children)
                    \/ str = Root /\ lost \cap Children # {}

\* So no step loses a stream silently or runs it twice, the handover included.
StreamsKept == OneTurnEach /\ OnlyUnheardAreLost

\* A root that waits at a join for a live child waits for it after the handover
\* too.  (A root that has waited since the snapshot is not in the new phase.)
UnresolvedJoinsResume ==
  [][\A t \in HandoverTurns :
       stage # stage' /\ suspended # NoTurn /\ t[1] \in Gates(suspended)
         => suspended' = suspended]_vars

\* What the barrier counts as completed is what has returned, no less and no
\* more, after a resume and a handover too; so every stream's part of it is a
\* prefix, as completed_prefixes demands.
HistoryExact ==
  /\ completed = Returned
  /\ \A t \in completed : \A i \in 0 .. t[2] - 1 : <<t[1], i>> \in completed

\* A retained turn waits for a turn that is still to return; under pressure's
\* end it may also wait for the handover.
RetainedWithReason ==
  \A t \in pending : Paused \/ ~(predecessors[t] \subseteq completed)

\* The turns recorded to have ended before t began, unless an earlier request
\* of the same stream outlasted them, and the turn before t on its own stream.
RecordedBefore(t) ==
  LET ended == EndedBy(recorded, t)
  IN  {p \in ended :
         \A q \in ended : q[1] = p[1] /\ q[2] < p[2] => recorded.finish[q] <= recorded.finish[p]}
      \cup {p \in Turns : After(p) = t}

\* The replay keeps the recorded order and sends no turn twice.
Order == INSTANCE ReplayOrder WITH
  precedes <- [t \in Turns |-> RecordedBefore(t)], returned <- Returned

ImplementsOrder == Order!Spec

\* When the lane is at rest, which it comes to because no step can be taken twice,
\* every turn of the recording was replayed or lay before the snapshot, but for
\* the turns of lost streams and those that come behind them: the barrier, the
\* joins and the spawns wait for turns that never go out.
RightBehind(T) ==
  {t \in Turns : \/ t[1] \in lost
                 \/ predecessors[t] \cap T # {}
                 \/ \E u \in T : \/ After(u) = t
                                 \/ t \in First(SpawnedBy(u))
                                 \/ /\ u[1] \in Children /\ t[1] = Root
                                    /\ t[2] = JoinedAt(recorded, u[1])}
AllBehindLost(ts) == \A T \in SUBSET Turns : RightBehind(T) \subseteq T => ts \subseteq T

EverythingReplayed == Quiet => AllBehindLost(Turns \ Returned)
==============================================================================
