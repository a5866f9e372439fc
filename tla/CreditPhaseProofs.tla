--------------------------- MODULE CreditPhaseProofs ---------------------------
(***************************************************************************)
(* Theorems of CreditPhase, for every set of sessions, any numbers of      *)
(* turns, every limit and every set of plans: the phase keeps its stop     *)
(* conditions, its limiters limit, and what it publishes keeps the         *)
(* contract of PhaseContract.                                              *)
(*                                                                         *)
(* The invariant relates four books that the code keeps apart: where each  *)
(* session is, the queues of the two limiters, the counters, and the       *)
(* stages of the runner with its two events.                               *)
(***************************************************************************)
EXTENDS CreditPhase, ConcurrencyLimitLemmas, FiniteSetTheorems

At(place) == {s \in Sessions : task[s] = place}
InQueue(s) == \E i \in 1..Len(queue) : queue[i] = s

\* A session is at one place at a time; only a first turn waits for a session
\* slot, and the rate strategy delays later turns only.
Places ==
  /\ \A s \in Sessions : wire[s] # "none" => task[s] = "none"
  /\ \A i \in 1..Len(queue) :
       task[queue[i]] = "none" /\ wire[queue[i]] = "none" /\ turn[queue[i]] > 0
  /\ Distinct(queue)
  /\ \A s \in Sessions : task[s] \in {"new", "session"} => IsStart(s)
  /\ \A s \in Sessions :
       plan.strategy = "rate" /\ task[s] = "timer" => ~IsStart(s)

\* The queue of a limiter holds tasks that wait for it, each once.
QueuesKept ==
  /\ Orderly(session, Sessions, SessionLimit, At("session"))
  /\ Orderly(prefill, Sessions, PrefillLimit, At("prefill"))

-------------------------------------------------------------------------------
(***************************************************************************)
(* The issuer's operations, and what they leave to the rest of the proof:  *)
(* the turn of s is sent, refused or parked, and the slots in use change   *)
(* accordingly.                                                            *)
(***************************************************************************)
Sends(s) ==
  LET counted == AfterSent(counter, TurnToSend(s))
      final   == IsFinalCredit(counted, TurnToSend(s))
  IN  /\ MayProceed(s)
      /\ counter' = IF final THEN FreezeSent(counted) ELSE counted
      /\ sentEvent' = (sentEvent \/ final)
      /\ task' = [task EXCEPT ![s] = "none"]
      /\ wire' = [wire EXCEPT ![s] = IF workersUp THEN "prefill" ELSE "lost"]
      /\ loop' \in {loop, "ended"} /\ own' = own \ {s}

Refuses(s) ==
  /\ task' = [task EXCEPT ![s] = "none"]
  /\ loop' \in {loop, "ended"} /\ own' = own \ {s}
  /\ UNCHANGED <<counter, sentEvent, wire>>

Parks(s, place) ==
  /\ task' = [task EXCEPT ![s] = place]
  /\ own' \in {own, {s}}
  /\ UNCHANGED <<counter, sentEvent, wire, loop>>

One(b) == IF b THEN 1 ELSE 0

\* What is in use is ses and pre, and then changes by s and p.
Uses(ses, s, pre, p) ==
  Taken(session') = Taken(ses) + s /\ Taken(prefill') = Taken(pre) + p

Typed == /\ task \in [Sessions -> TaskStates]
         /\ turn \in [Sessions -> Nat]
         /\ \A s \in Sessions : turn[s] < NumTurns[s]

\* The limits' sizes are numbers.
LEMMA LimitNumbers == SessionLimit \in Nat /\ PrefillLimit \in Nat
BY LimitsAssumption

\* s holds both slots it needs.
LEMMA WithBothSlots ==
  ASSUME Typed, NEW s \in Sessions, NEW ses, NEW pre,
         Orderly(ses, Sessions, SessionLimit, At("session") \ {s}),
         Orderly(pre, Sessions, PrefillLimit, At("prefill") \ {s}),
         HavePrefillSlot(s, ses, pre)
  PROVE  /\ QueuesKept'
         /\ \/ Sends(s) /\ Uses(ses, 0, pre, 0)
            \/ Refuses(s) /\ Uses(ses, 0 - One(IsStart(s)), pre, 0 - 1)
<1>1. CASE MayProceed(s) /\ Send(s, ses, pre)
  <2>1. Sends(s) /\ session' = ses /\ prefill' = pre
    BY <1>1 DEF Send, Sends
  <2>2. At("session")' = At("session") \ {s} /\ At("prefill")' = At("prefill") \ {s}
    BY <2>1 DEF Sends, At, Typed
  <2>3. Taken(ses) \in Int /\ Taken(pre) \in Int
    BY LimitFields DEF Orderly
  <2>4. QueuesKept'
    BY <2>1, <2>2, Zenon DEF QueuesKept
  <2>5. Uses(ses, 0, pre, 0)
    BY <2>1, <2>3 DEF Uses
  <2> QED BY <2>1, <2>4, <2>5
<1>2. CASE /\ ~MayProceed(s)
           /\ Refuse(s, IF IsStart(s) THEN Release(ses) ELSE ses, Release(pre))
  <2> DEFINE new == IF IsStart(s) THEN Release(ses) ELSE ses
  <2>1. Refuses(s) /\ session' = new /\ prefill' = Release(pre)
    BY <1>2 DEF Refuse, Refuses
  <2>2. At("session")' = At("session") \ {s} /\ At("prefill")' = At("prefill") \ {s}
    BY <2>1 DEF Refuses, At, Typed
  <2>3. Taken(ses) \in Int /\ Taken(pre) \in Int
    BY LimitFields DEF Orderly
  <2>4. /\ Orderly(Release(pre), Sessions, PrefillLimit, At("prefill") \ {s})
        /\ Taken(Release(pre)) = Taken(pre) - 1
    BY ReleaseOrderly
  <2>5. /\ Orderly(Release(ses), Sessions, SessionLimit, At("session") \ {s})
        /\ Taken(Release(ses)) = Taken(ses) - 1
    BY ReleaseOrderly
  <2>6. /\ Orderly(new, Sessions, SessionLimit, At("session") \ {s})
        /\ Taken(new) = Taken(ses) - One(IsStart(s))
    BY <2>3, <2>5 DEF One
  <2> HIDE DEF new
  <2>7. Uses(ses, 0 - One(IsStart(s)), pre, 0 - 1)
    BY <2>1, <2>3, <2>4, <2>6 DEF Uses, One
  <2> QED BY <2>1, <2>2, <2>4, <2>6, <2>7 DEF QueuesKept
<1> QED BY <1>1, <1>2 DEF HavePrefillSlot

\* s asks for a prefill slot.
LEMMA WithSessionSlot ==
  ASSUME Typed, NEW s \in Sessions, NEW ses, task[s] # "prefill",
         Orderly(ses, Sessions, SessionLimit, At("session") \ {s}),
         Orderly(prefill, Sessions, PrefillLimit, At("prefill")),
         AcquirePrefill(s, ses)
  PROVE  /\ QueuesKept'
         /\ \/ Sends(s) /\ Uses(ses, 0, prefill, 1)
            \/ Refuses(s) /\ Uses(ses, 0 - One(IsStart(s)), prefill, 0)
            \/ Parks(s, "prefill") /\ Uses(ses, 0, prefill, 0)
<1>0. /\ At("prefill") \ {s} = At("prefill") /\ s \notin At("prefill")
      /\ Taken(ses) \in Int /\ Taken(prefill) \in Int
  BY LimitFields DEF At, Orderly
<1>1. CASE ~Locked(prefill) /\ HavePrefillSlot(s, ses, TakeSlot(prefill))
  <2>1. /\ Orderly(TakeSlot(prefill), Sessions, PrefillLimit, At("prefill") \ {s})
        /\ Taken(TakeSlot(prefill)) = Taken(prefill) + 1
    BY <1>0, <1>1, TakeOrderly
  <2>2. /\ QueuesKept'
        /\ \/ Sends(s) /\ Uses(ses, 0, TakeSlot(prefill), 0)
           \/ Refuses(s) /\ Uses(ses, 0 - One(IsStart(s)), TakeSlot(prefill), 0 - 1)
    BY <1>1, <2>1, WithBothSlots
  <2> QED BY <1>0, <2>1, <2>2 DEF Uses
<1>2. CASE /\ Locked(prefill)
           /\ session' = ses
           /\ prefill' = Park(prefill, s)
           /\ Waits(s, "prefill")
  <2>1. /\ Orderly(Park(prefill, s), Sessions, PrefillLimit, At("prefill") \cup {s})
        /\ Taken(Park(prefill, s)) = Taken(prefill)
    BY <1>0, ParkOrderly
  <2>2. At("session")' = At("session") \ {s} /\ At("prefill")' = At("prefill") \cup {s}
    BY <1>2 DEF At, Typed, Waits
  <2>3. Parks(s, "prefill")
    BY <1>2 DEF Parks, Waits
  <2>4. QueuesKept'
    BY <1>0, <1>2, <2>1, <2>2, Zenon DEF QueuesKept
  <2>5. Uses(ses, 0, prefill, 0)
    BY <1>0, <1>2, <2>1 DEF Uses
  <2> QED BY <2>3, <2>4, <2>5
<1> QED BY <1>1, <1>2 DEF AcquirePrefill

\* s, a first turn, has its session slot.
LEMMA AtSessionStart ==
  ASSUME Typed, NEW s \in Sessions, NEW ses, task[s] # "prefill", IsStart(s),
         Orderly(ses, Sessions, SessionLimit, At("session") \ {s}),
         Orderly(prefill, Sessions, PrefillLimit, At("prefill")),
         HaveSessionSlot(s, ses)
  PROVE  /\ QueuesKept'
         /\ \/ Sends(s) /\ Uses(ses, 0, prefill, 1)
            \/ Refuses(s) /\ Uses(ses, 0 - 1, prefill, 0)
            \/ Parks(s, "prefill") /\ Uses(ses, 0, prefill, 0)
<1>1. CASE CanStart /\ AcquirePrefill(s, ses)
  BY <1>1, WithSessionSlot DEF One
<1>2. CASE ~CanStart /\ Refuse(s, Release(ses), prefill)
  <2>1. Refuses(s) /\ session' = Release(ses) /\ prefill' = prefill
    BY <1>2 DEF Refuse, Refuses
  <2>2. At("session")' = At("session") \ {s} /\ At("prefill")' = At("prefill")
    BY <2>1 DEF Refuses, At, Typed
  <2>3. /\ Orderly(Release(ses), Sessions, SessionLimit, At("session") \ {s})
        /\ Taken(Release(ses)) = Taken(ses) - 1
    BY ReleaseOrderly
  <2>4. Taken(ses) \in Int /\ Taken(prefill) \in Int
    BY LimitFields DEF Orderly
  <2> QED BY <2>1, <2>2, <2>3, <2>4 DEF QueuesKept, Uses
<1> QED BY <1>1, <1>2 DEF HaveSessionSlot

-------------------------------------------------------------------------------
\* The session slots in use, but for those of tasks about to start a session.
SlotsOfSessions == Taken(session) - Cardinality(Starting)

\* The tasks about to start a session, now and after a task's place changed.
LEMMA StartingCount ==
  ASSUME turn' = turn
  PROVE  /\ IsFiniteSet(Starting) /\ IsFiniteSet(Starting')
         /\ Cardinality(Starting) \in Nat /\ Cardinality(Starting') \in Nat
         /\ Starting' = {x \in Sessions : \/ task'[x] = "stranded"
                                          \/ task'[x] = "prefill" /\ IsStart(x)}
<1>1. Starting \subseteq Sessions /\ Starting' \subseteq Sessions
  BY DEF Starting
<1>2. IsFiniteSet(Starting) /\ IsFiniteSet(Starting')
  BY <1>1, SessionsAssumption, FS_Subset
<1>3. Starting' = {x \in Sessions : \/ task'[x] = "stranded"
                                    \/ task'[x] = "prefill" /\ IsStart(x)}
  BY DEF Starting, IsStart
<1> QED BY <1>2, <1>3, FS_CardinalityType

\* A first turn stops waiting for its prefill slot.
LEMMA StartingLess ==
  ASSUME Typed, NEW s \in Sessions, NEW place, turn' = turn,
         task' = [task EXCEPT ![s] = place],
         IsStart(s), task[s] = "prefill", place \notin {"prefill", "stranded"}
  PROVE  Cardinality(Starting') = Cardinality(Starting) - 1
<1>1. Starting' = Starting \ {s} /\ s \in Starting
  BY StartingCount DEF Starting, Typed
<1> QED BY <1>1, StartingCount, FS_RemoveElement

\* A first turn starts to wait for its prefill slot.
LEMMA StartingMore ==
  ASSUME Typed, NEW s \in Sessions, turn' = turn,
         task' = [task EXCEPT ![s] = "prefill"],
         IsStart(s), task[s] \notin {"prefill", "stranded"}
  PROVE  Cardinality(Starting') = Cardinality(Starting) + 1
<1>1. Starting' = Starting \cup {s} /\ s \notin Starting
  BY StartingCount DEF Starting, Typed
<1> QED BY <1>1, StartingCount, FS_AddElement

\* A later turn, or one that neither starts nor stops to wait for it.
LEMMA StartingSame ==
  ASSUME Typed, NEW s \in Sessions, NEW place, turn' = turn,
         task' = [task EXCEPT ![s] = place],
         task[s] # "stranded", place # "stranded",
         ~IsStart(s) \/ (task[s] # "prefill" /\ place # "prefill")
  PROVE  Starting' = Starting /\ Cardinality(Starting') = Cardinality(Starting)
<1>1. Starting' = Starting
  BY StartingCount DEF Starting, Typed
<1> QED BY <1>1

-------------------------------------------------------------------------------
Goes(s) == wire[s] # "none" \/ (turn[s] > 0 /\ (task[s] # "none" \/ InQueue(s)))

\* A step of the issuer on the turn of s, which was started or is a session's
\* first: it is sent with its slots, or nothing is counted and no slot is kept.
IssueStep(s) ==
  /\ wire[s] = "none" /\ (IsStart(s) \/ Goes(s)) /\ (IsStart(s) => task[s] # "none")
  /\ queue' \in Seq(Sessions) /\ Distinct(queue')
  /\ \A i \in 1..Len(queue') : queue'[i] # s /\ InQueue(queue'[i])
  /\ UNCHANGED issuerUnchanged
  /\ \/ /\ Sends(s)
        /\ SlotsOfSessions' = SlotsOfSessions + One(IsStart(s))
        /\ Taken(prefill') = Taken(prefill) + 1
     \/ /\ \/ Refuses(s)
           \/ Parks(s, "prefill")
           \/ Parks(s, "session") /\ IsStart(s)
        /\ SlotsOfSessions' = SlotsOfSessions
        /\ Taken(prefill') = Taken(prefill)

\* Every step that issues is one.
LEMMA IssueSteps ==
  ASSUME TypeOK, Places, QueuesKept,
         \/ \E s \in Sessions : StartTask(s) \/ StartSession(s) \/ SpawnUser(s)
         \/ SessionSlotGranted \/ PrefillSlotGranted \/ IssueContinuation
  PROVE  QueuesKept' /\ \E s \in Sessions : IssueStep(s)
<1>1. Typed /\ queue \in Seq(Sessions)
  BY DEF TypeOK, Typed
<1>2. /\ Taken(session) \in Int /\ Taken(prefill) \in Int
  BY LimitFields DEF QueuesKept, Orderly
<1>3. /\ Orderly(session, Sessions, SessionLimit, At("session"))
      /\ Orderly(prefill, Sessions, PrefillLimit, At("prefill"))
  BY DEF QueuesKept
<1>4. ASSUME NEW s \in Sessions, task[s] # "none", UNCHANGED queue
      PROVE  /\ wire[s] = "none" /\ (IsStart(s) \/ Goes(s))
             /\ queue' \in Seq(Sessions) /\ Distinct(queue')
             /\ \A i \in 1..Len(queue') : queue'[i] # s /\ InQueue(queue'[i])
  <2>1. turn[s] \in Nat
    BY <1>1, NumTurnsAssumption DEF Typed
  <2>2. wire[s] = "none" /\ (IsStart(s) \/ Goes(s))
    BY <1>4, <2>1 DEF Places, IsStart, Goes
  <2> QED BY <1>1, <1>4, <2>2 DEF Places, InQueue
<1>5. ASSUME NEW s \in Sessions, task[s] \in {"new", "timer", "ready"},
             \/ ~IsStart(s) /\ AcquirePrefill(s, session)
             \/ IsStart(s) /\ AcquireSession(s),
             UNCHANGED <<issuerUnchanged, queue>>
      PROVE  QueuesKept' /\ IssueStep(s)
  <2>1. /\ task[s] \notin {"none", "prefill", "session", "stranded"}
        /\ UNCHANGED <<issuerUnchanged, queue>> /\ turn' = turn
    BY <1>5 DEF issuerUnchanged
  <2>2. CASE ~IsStart(s) /\ AcquirePrefill(s, session)
    <3>1. Orderly(session, Sessions, SessionLimit, At("session") \ {s})
      <4>1. At("session") \ {s} = At("session")
        BY <2>1 DEF At
      <4> QED BY <1>3, <4>1
    <3>2. /\ QueuesKept'
          /\ \/ Sends(s) /\ Uses(session, 0, prefill, 1)
             \/ Refuses(s) /\ Uses(session, 0 - One(IsStart(s)), prefill, 0)
             \/ Parks(s, "prefill") /\ Uses(session, 0, prefill, 0)
      BY <1>1, <1>3, <2>1, <2>2, <3>1, WithSessionSlot
    <3>3. PICK place : place # "stranded" /\ task' = [task EXCEPT ![s] = place]
      BY <3>2, "none" # "stranded", "prefill" # "stranded" DEF Sends, Refuses, Parks
    <3>4. Cardinality(Starting) \in Nat /\ Cardinality(Starting') = Cardinality(Starting)
      <4>1. Cardinality(Starting) \in Nat
        BY <2>1, StartingCount
      <4> QED BY <1>1, <2>1, <2>2, <3>3, <4>1, StartingSame
    <3>5. \/ /\ Sends(s)
             /\ SlotsOfSessions' = SlotsOfSessions + One(IsStart(s))
             /\ Taken(prefill') = Taken(prefill) + 1
          \/ /\ Refuses(s) \/ Parks(s, "prefill")
             /\ SlotsOfSessions' = SlotsOfSessions
             /\ Taken(prefill') = Taken(prefill)
      BY <1>2, <2>2, <3>2, <3>4 DEF Uses, One, SlotsOfSessions
    <3> QED BY <1>4, <2>1, <3>2, <3>5 DEF IssueStep
  <2>3. CASE IsStart(s) /\ ~Locked(session) /\ HaveSessionSlot(s, TakeSlot(session))
    <3>1. /\ Orderly(TakeSlot(session), Sessions, SessionLimit, At("session") \ {s})
          /\ Taken(TakeSlot(session)) = Taken(session) + 1
      <4>1. At("session") \ {s} = At("session")
        BY <2>1 DEF At
      <4> QED BY <1>3, <2>3, <4>1, TakeOrderly
    <3>2. /\ QueuesKept'
          /\ \/ Sends(s) /\ Uses(TakeSlot(session), 0, prefill, 1)
             \/ Refuses(s) /\ Uses(TakeSlot(session), 0 - 1, prefill, 0)
             \/ Parks(s, "prefill") /\ Uses(TakeSlot(session), 0, prefill, 0)
      BY <1>1, <1>3, <2>1, <2>3, <3>1, AtSessionStart
    <3>3. CASE Sends(s) /\ Uses(TakeSlot(session), 0, prefill, 1)
      <4>1. Cardinality(Starting) \in Nat /\ Cardinality(Starting') = Cardinality(Starting)
        BY <1>1, <2>1, <2>3, <3>3, StartingCount, StartingSame, "none" \notin {"prefill", "stranded"} DEF Sends
      <4>2. /\ SlotsOfSessions' = SlotsOfSessions + One(IsStart(s))
            /\ Taken(prefill') = Taken(prefill) + 1
        BY <1>2, <2>3, <3>1, <3>3, <4>1 DEF Uses, One, SlotsOfSessions
      <4> QED BY <1>4, <2>1, <3>2, <3>3, <4>2 DEF IssueStep
    <3>4. CASE Refuses(s) /\ Uses(TakeSlot(session), 0 - 1, prefill, 0)
      <4>1. Cardinality(Starting) \in Nat /\ Cardinality(Starting') = Cardinality(Starting)
        BY <1>1, <2>1, <2>3, <3>4, StartingCount, StartingSame, "none" \notin {"prefill", "stranded"} DEF Refuses
      <4>2. SlotsOfSessions' = SlotsOfSessions /\ Taken(prefill') = Taken(prefill)
        BY <1>2, <2>3, <3>1, <3>4, <4>1 DEF Uses, SlotsOfSessions
      <4> QED BY <1>4, <2>1, <3>2, <3>4, <4>2 DEF IssueStep
    <3>5. CASE Parks(s, "prefill") /\ Uses(TakeSlot(session), 0, prefill, 0)
      <4>1. /\ Cardinality(Starting) \in Nat
            /\ Cardinality(Starting') = Cardinality(Starting) + 1
        BY <1>1, <2>1, <2>3, <3>5, StartingCount, StartingMore DEF Parks
      <4>2. SlotsOfSessions' = SlotsOfSessions /\ Taken(prefill') = Taken(prefill)
        BY <1>2, <2>3, <3>1, <3>5, <4>1 DEF Uses, SlotsOfSessions
      <4> QED BY <1>4, <2>1, <3>2, <3>5, <4>2 DEF IssueStep
    <3> QED BY <3>2, <3>3, <3>4, <3>5
  <2>4. CASE /\ IsStart(s) /\ Locked(session)
             /\ session' = Park(session, s) /\ UNCHANGED prefill
             /\ Waits(s, "session")
    <3>0. task' = [task EXCEPT ![s] = "session"]
      BY <2>4 DEF Waits
    <3>1. /\ Orderly(Park(session, s), Sessions, SessionLimit, At("session") \cup {s})
          /\ Taken(Park(session, s)) = Taken(session)
      <4>1. s \notin At("session")
        BY <2>1 DEF At
      <4> QED BY <1>3, <4>1, ParkOrderly
    <3>2. /\ At("session")' = At("session") \cup {s}
          /\ At("prefill")' = At("prefill")
      BY <1>1, <2>1, <3>0 DEF At, Typed
    <3>3. QueuesKept'
      BY <1>3, <2>4, <3>1, <3>2, Zenon DEF QueuesKept
    <3>4. Cardinality(Starting) \in Nat /\ Cardinality(Starting') = Cardinality(Starting)
      BY <1>1, <2>1, <2>4, <3>0, StartingCount, StartingSame,
         "session" \notin {"prefill", "stranded"}
    <3>5. SlotsOfSessions' = SlotsOfSessions /\ Taken(prefill') = Taken(prefill)
      BY <1>2, <2>4, <3>1, <3>4 DEF SlotsOfSessions
    <3>6. Parks(s, "session")
      BY <2>4 DEF Parks, Waits
    <3> QED BY <1>4, <2>1, <2>4, <3>3, <3>5, <3>6 DEF IssueStep
  <2> QED BY <1>5, <2>2, <2>3, <2>4 DEF AcquireSession
<1>10. ASSUME NEW s \in Sessions, StartTask(s) \/ SpawnUser(s)
       PROVE  QueuesKept' /\ IssueStep(s)
  <2>1. CASE StartTask(s)
    <3>1. /\ task[s] \in {"new", "timer", "ready"}
          /\ \/ ~IsStart(s) /\ AcquirePrefill(s, session)
             \/ IsStart(s) /\ AcquireSession(s)
          /\ UNCHANGED <<issuerUnchanged, queue>>
      BY <2>1 DEF StartTask
    <3> QED BY <1>5, <3>1
  <2>2. CASE SpawnUser(s)
    <3>1. /\ task[s] \in {"new", "timer", "ready"} /\ IsStart(s) /\ AcquireSession(s)
          /\ UNCHANGED <<issuerUnchanged, queue>>
      BY <2>2 DEF SpawnUser, Places
    <3> QED BY <1>5, <3>1
  <2> QED BY <1>10, <2>1, <2>2
<1>6. ASSUME SessionSlotGranted
      PROVE  QueuesKept' /\ \E s \in Sessions : IssueStep(s)
  <2> DEFINE s == Head(session.woken)
             ses == Resume(session)
  <2>1. /\ s \in Sessions \cap At("session")
        /\ Orderly(ses, Sessions, SessionLimit, At("session") \ {s})
        /\ Taken(ses) = Taken(session) + 1
    BY <1>3, <1>6, ResumeOrderly DEF SessionSlotGranted
  <2>2. /\ HaveSessionSlot(s, ses)
        /\ UNCHANGED <<issuerUnchanged, queue>> /\ turn' = turn
    BY <1>6 DEF SessionSlotGranted, issuerUnchanged
  <2> HIDE DEF s, ses
  <2>3. s \in Sessions /\ task[s] = "session" /\ IsStart(s)
    BY <2>1 DEF At, Places
  <2>4. /\ QueuesKept'
        /\ \/ Sends(s) /\ Uses(ses, 0, prefill, 1)
           \/ Refuses(s) /\ Uses(ses, 0 - 1, prefill, 0)
           \/ Parks(s, "prefill") /\ Uses(ses, 0, prefill, 0)
    BY <1>1, <1>3, <2>1, <2>2, <2>3, AtSessionStart
  <2>5. CASE Sends(s) /\ Uses(ses, 0, prefill, 1)
    <3>1. Cardinality(Starting) \in Nat /\ Cardinality(Starting') = Cardinality(Starting)
      BY <1>1, <2>2, <2>3, <2>5, StartingCount, StartingSame, "none" \notin {"prefill", "stranded"} DEF Sends
    <3>2. /\ SlotsOfSessions' = SlotsOfSessions + One(IsStart(s))
          /\ Taken(prefill') = Taken(prefill) + 1
      BY <1>2, <2>1, <2>3, <2>5, <3>1 DEF Uses, One, SlotsOfSessions
    <3> QED BY <1>4, <2>2, <2>3, <2>4, <2>5, <3>2 DEF IssueStep
  <2>6. CASE Refuses(s) /\ Uses(ses, 0 - 1, prefill, 0)
    <3>1. Cardinality(Starting) \in Nat /\ Cardinality(Starting') = Cardinality(Starting)
      BY <1>1, <2>2, <2>3, <2>6, StartingCount, StartingSame, "none" \notin {"prefill", "stranded"} DEF Refuses
    <3>2. SlotsOfSessions' = SlotsOfSessions /\ Taken(prefill') = Taken(prefill)
      BY <1>2, <2>1, <2>6, <3>1 DEF Uses, SlotsOfSessions
    <3> QED BY <1>4, <2>2, <2>3, <2>4, <2>6, <3>2 DEF IssueStep
  <2>7. CASE Parks(s, "prefill") /\ Uses(ses, 0, prefill, 0)
    <3>1. /\ Cardinality(Starting) \in Nat
          /\ Cardinality(Starting') = Cardinality(Starting) + 1
      BY <1>1, <2>2, <2>3, <2>7, StartingCount, StartingMore DEF Parks
    <3>2. SlotsOfSessions' = SlotsOfSessions /\ Taken(prefill') = Taken(prefill)
      BY <1>2, <2>1, <2>7, <3>1 DEF Uses, SlotsOfSessions
    <3> QED BY <1>4, <2>2, <2>3, <2>4, <2>7, <3>2 DEF IssueStep
  <2> QED BY <2>4, <2>5, <2>6, <2>7
<1>7. ASSUME PrefillSlotGranted
      PROVE  QueuesKept' /\ \E s \in Sessions : IssueStep(s)
  <2>1. PICK s \in Sessions \cap At("prefill") : s = Head(prefill.woken)
    BY <1>3, <1>7, ResumeOrderly DEF PrefillSlotGranted
  <2> DEFINE pre == Resume(prefill)
  <2>2. /\ Orderly(pre, Sessions, PrefillLimit, At("prefill") \ {s})
        /\ Taken(pre) = Taken(prefill) + 1
    BY <1>3, <1>7, <2>1, ResumeOrderly DEF PrefillSlotGranted
  <2>3. /\ HavePrefillSlot(s, session, pre)
        /\ UNCHANGED <<issuerUnchanged, queue>> /\ turn' = turn
        /\ s \in Sessions /\ task[s] = "prefill"
    BY <1>7, <2>1 DEF PrefillSlotGranted, issuerUnchanged, At
  <2> HIDE DEF pre
  <2>4. Orderly(session, Sessions, SessionLimit, At("session") \ {s})
    <3>1. At("session") \ {s} = At("session")
      BY <2>3 DEF At
    <3> QED BY <1>3, <3>1
  <2>5. /\ QueuesKept'
        /\ \/ Sends(s) /\ Uses(session, 0, pre, 0)
           \/ Refuses(s) /\ Uses(session, 0 - One(IsStart(s)), pre, 0 - 1)
    BY <1>1, <2>2, <2>3, <2>4, WithBothSlots
  <2>6. /\ Cardinality(Starting) \in Nat
        /\ Cardinality(Starting') = Cardinality(Starting) - One(IsStart(s))
    <3>1. task' = [task EXCEPT ![s] = "none"]
      BY <2>5 DEF Sends, Refuses
    <3>2. CASE IsStart(s)
      BY <1>1, <2>3, <3>1, <3>2, StartingCount, StartingLess, "none" \notin {"prefill", "stranded"} DEF One
    <3>3. CASE ~IsStart(s)
      <4>1. Cardinality(Starting) \in Nat /\ Cardinality(Starting') = Cardinality(Starting)
        BY <1>1, <2>3, <3>1, <3>3, StartingCount, StartingSame
      <4> QED BY <3>3, <4>1 DEF One
    <3> QED BY <3>2, <3>3
  <2>7. CASE Sends(s) /\ Uses(session, 0, pre, 0)
    <3>1. /\ SlotsOfSessions' = SlotsOfSessions + One(IsStart(s))
          /\ Taken(prefill') = Taken(prefill) + 1
      BY <1>2, <2>2, <2>6, <2>7 DEF Uses, One, SlotsOfSessions
    <3> QED BY <1>4, <2>3, <2>5, <2>7, <3>1 DEF IssueStep
  <2>8. CASE Refuses(s) /\ Uses(session, 0 - One(IsStart(s)), pre, 0 - 1)
    <3>1. SlotsOfSessions' = SlotsOfSessions /\ Taken(prefill') = Taken(prefill)
      BY <1>2, <2>2, <2>6, <2>8 DEF Uses, One, SlotsOfSessions
    <3> QED BY <1>4, <2>3, <2>5, <2>8, <3>1 DEF IssueStep
  <2> QED BY <2>5, <2>7, <2>8
<1>8. ASSUME IssueContinuation
      PROVE  QueuesKept' /\ \E s \in Sessions : IssueStep(s)
  <2> DEFINE s == Head(queue)
  <2>1. /\ s \in Sessions /\ InQueue(s)
        /\ queue' \in Seq(Sessions) /\ Distinct(queue')
        /\ \A i \in 1..Len(queue') : queue'[i] # s /\ InQueue(queue'[i])
    <3>1. queue # <<>> /\ queue' = Tail(queue)
      BY <1>8 DEF IssueContinuation
    <3>2. /\ s \in Sessions /\ s = queue[1] /\ Len(queue) \in Nat \ {0}
          /\ queue' \in Seq(Sessions) /\ Len(queue') = Len(queue) - 1
          /\ \A i \in 1..(Len(queue) - 1) : queue'[i] = queue[i + 1]
      BY <1>1, <3>1
    <3>3. \A i \in 1..Len(queue') : i + 1 \in 1..Len(queue) /\ i + 1 # 1
      BY <3>2
    <3>4. Distinct(queue)
      BY DEF Places
    <3>5. 1 \in 1..Len(queue) /\ \A i \in 1..Len(queue') : queue'[i] = queue[i + 1]
      BY <3>2
    <3> HIDE DEF s
    <3>6. Distinct(queue')
      <4> SUFFICES ASSUME NEW i \in 1..Len(queue'), NEW j \in 1..Len(queue'),
                          queue'[i] = queue'[j]
                   PROVE  i = j
        BY DEF Distinct
      <4>1. i + 1 = j + 1
        BY <3>3, <3>4, <3>5 DEF Distinct
      <4> QED BY <3>2, <4>1
    <3>7. \A i \in 1..Len(queue') : queue'[i] # s /\ InQueue(queue'[i])
      BY <3>2, <3>3, <3>4, <3>5 DEF Distinct, InQueue
    <3> QED BY <3>2, <3>5, <3>6, <3>7 DEF InQueue
  <2>2. /\ AcquirePrefill(s, session) /\ UNCHANGED issuerUnchanged /\ turn' = turn
    BY <1>8 DEF IssueContinuation, issuerUnchanged
  <2> HIDE DEF s
  <2>3. task[s] = "none" /\ wire[s] = "none" /\ ~IsStart(s) /\ Goes(s)
    <3>1. turn[s] > 0 /\ task[s] = "none" /\ wire[s] = "none"
      BY <2>1 DEF Places, InQueue
    <3> QED BY <2>1, <3>1 DEF IsStart, Goes
  <2>4. Orderly(session, Sessions, SessionLimit, At("session") \ {s})
    <3>1. At("session") \ {s} = At("session")
      BY <2>3 DEF At
    <3> QED BY <1>3, <3>1
  <2>5. /\ QueuesKept'
        /\ \/ Sends(s) /\ Uses(session, 0, prefill, 1)
           \/ Refuses(s) /\ Uses(session, 0 - One(IsStart(s)), prefill, 0)
           \/ Parks(s, "prefill") /\ Uses(session, 0, prefill, 0)
    BY <1>1, <1>3, <2>1, <2>2, <2>3, <2>4, WithSessionSlot
  <2>6. PICK place : place # "stranded" /\ task' = [task EXCEPT ![s] = place]
    BY <2>5, "none" # "stranded", "prefill" # "stranded" DEF Sends, Refuses, Parks
  <2>7. Cardinality(Starting) \in Nat /\ Cardinality(Starting') = Cardinality(Starting)
    <3>1. Cardinality(Starting) \in Nat /\ task[s] # "stranded"
      BY <2>2, <2>3, StartingCount
    <3> QED BY <1>1, <2>1, <2>2, <2>3, <2>6, <3>1, StartingSame
  <2>8. \/ /\ Sends(s)
           /\ SlotsOfSessions' = SlotsOfSessions + One(IsStart(s))
           /\ Taken(prefill') = Taken(prefill) + 1
        \/ /\ Refuses(s) \/ Parks(s, "prefill")
           /\ SlotsOfSessions' = SlotsOfSessions
           /\ Taken(prefill') = Taken(prefill)
    BY <1>2, <2>3, <2>5, <2>7 DEF Uses, One, SlotsOfSessions
  <2> QED BY <2>1, <2>2, <2>3, <2>5, <2>8 DEF IssueStep
<1>9. ASSUME NEW s \in Sessions, StartSession(s)
      PROVE  QueuesKept' /\ IssueStep(s)
  <2>1. /\ task[s] = "new" /\ CanStart /\ ~Locked(session) /\ ~Locked(prefill)
        /\ Send(s, TakeSlot(session), TakeSlot(prefill))
        /\ UNCHANGED <<issuerUnchanged, queue>> /\ turn' = turn
    BY <1>9 DEF StartSession, issuerUnchanged
  <2>2. IsStart(s) /\ MayProceed(s)
    BY <2>1 DEF Places, MayProceed
  <2>3. /\ At("session") \ {s} = At("session") /\ At("prefill") \ {s} = At("prefill")
    BY <2>1 DEF At
  <2>4. /\ Orderly(TakeSlot(session), Sessions, SessionLimit, At("session") \ {s})
        /\ Taken(TakeSlot(session)) = Taken(session) + 1
    BY <1>3, <2>1, <2>3, TakeOrderly
  <2>5. /\ Orderly(TakeSlot(prefill), Sessions, PrefillLimit, At("prefill") \ {s})
        /\ Taken(TakeSlot(prefill)) = Taken(prefill) + 1
    BY <1>3, <2>1, <2>3, TakeOrderly
  <2>6. /\ session' = TakeSlot(session) /\ prefill' = TakeSlot(prefill) /\ Sends(s)
    BY <2>1, <2>2 DEF Send, Sends
  <2>7. At("session")' = At("session") \ {s} /\ At("prefill")' = At("prefill") \ {s}
    BY <1>1, <2>6 DEF At, Sends, Typed
  <2>8. QueuesKept'
    BY <2>4, <2>5, <2>6, <2>7, Zenon DEF QueuesKept
  <2>9. Cardinality(Starting) \in Nat /\ Cardinality(Starting') = Cardinality(Starting)
    BY <1>1, <2>1, <2>6, StartingCount, StartingSame, "none" \notin {"prefill", "stranded"} DEF Sends
  <2>10. /\ SlotsOfSessions' = SlotsOfSessions + One(IsStart(s))
         /\ Taken(prefill') = Taken(prefill) + 1
    BY <1>2, <2>2, <2>4, <2>5, <2>6, <2>9 DEF One, SlotsOfSessions
  <2> QED BY <1>4, <2>1, <2>6, <2>8, <2>10 DEF IssueStep
<1> QED BY <1>10, <1>6, <1>7, <1>8, <1>9

-------------------------------------------------------------------------------
(***************************************************************************)
(* The rest of the invariant.                                              *)
(***************************************************************************)
Wired == {s \in Sessions : wire[s] # "none"}
WaitForToken == {s \in Sessions : wire[s] = "prefill"}
Active == {s \in Sessions : Goes(s)}

\* What is on the wire was sent and has not come back, and every session that
\* still goes on was started and has not ended.
Counted ==
  /\ counter.cap = plan.cap /\ counter.target = plan.target
  /\ counter.returned + Cardinality(Wired) <= counter.sent
  /\ Cardinality(Active) <= InFlightSessions(counter)

\* How the runner, the lifecycle and the clock stand to each other.
Stages ==
  /\ lifecycle.state = "started" <=> runner = "sending"
  /\ PhaseComplete <=> runner \in {"closing", "done"}
  /\ clock # "running" => plan.timed
  /\ runner = "draining" => plan.timed
  /\ forced => plan.timed /\ PhaseComplete
  /\ PhaseComplete => doneEvent
  /\ lifecycle.cancelled => sentEvent /\ doneEvent

IsFrozen == counter.finalSent # NotFrozen
NothingLeft == CrossesRequestCap(counter) \/ CrossesSessionTarget(counter)

\* When the number of requests is final, and what the two events then mean.
Signals ==
  /\ IsFrozen => counter.finalSent = counter.sent
  /\ IsFrozen /\ (lifecycle.state = "started" \/ (~plan.timed /\ ~lifecycle.cancelled))
       => NothingLeft
  /\ lifecycle.state # "started" => IsFrozen
  /\ sentEvent => lifecycle.cancelled \/ IsFrozen
  /\ doneEvent => lifecycle.cancelled \/ forced \/ AllReturned(counter)
  /\ ~plan.timed /\ ~lifecycle.cancelled /\ AllReturned(counter) => doneEvent

\* The two books of the slots, for as long as each of them is kept.
Slots ==
  /\ ~forced => Taken(prefill) = InFlightPrefills(counter)
  /\ ~doneEvent => SlotsOfSessions = InFlightSessions(counter)
  /\ (~plan.timed /\ ~lifecycle.cancelled /\ doneEvent /\ runner # "done")
       => SlotsOfSessions = 0
  /\ InFlightSessions(counter) <= SessionLimit
  /\ Cardinality(WaitForToken) <= PrefillLimit
  /\ ~forced => Cardinality(WaitForToken) <= InFlightPrefills(counter)

IInv == /\ TypeOK /\ Places /\ QueuesKept
        /\ Counted /\ Stages /\ Signals /\ Slots

\* The steps that start or resume a turn's issue, and all others.
Issues == \/ \E s \in Sessions : StartTask(s) \/ StartSession(s) \/ SpawnUser(s)
          \/ SessionSlotGranted \/ PrefillSlotGranted \/ IssueContinuation

\* The ways a step may come about, flat.
LEMMA NextSteps ==
  ASSUME [Next]_vars
  PROVE  \/ Issues
         \/ \E s \in Sessions : \/ QueueDelayed(s) \/ CreditReturns(s)
                                \/ LateReturn(s) \/ FirstToken(s)
         \/ LeaveLoop \/ WorkersCrash
         \/ StopSending \/ AfterSending \/ AllCreditsBack \/ CancelInFlight
         \/ ForceCompletion \/ Close
         \/ Cancel \/ TimePasses \/ UNCHANGED vars
BY DEF Next, Issue, Workers, Run, Issues

-------------------------------------------------------------------------------
CounterType ==
  [cap : Nat \cup {NoLimit}, target : Nat \cup {NoLimit}, sent : Nat,
   rootSent : Nat, sessions : Nat, turns : Nat, returned : Nat, ended : Nat,
   prefills : Nat, finalSent : Nat \cup {NotFrozen}]

\* The counters after a turn was sent.
LEMMA SentCounters ==
  ASSUME counter \in CounterType, Typed, NEW s \in Sessions, Sends(s)
  PROVE  /\ counter' \in CounterType
         /\ counter'.cap = counter.cap /\ counter'.target = counter.target
         /\ counter'.sent = counter.sent + 1
         /\ counter'.rootSent = counter.rootSent + 1
         /\ counter'.sessions = counter.sessions + (IF IsStart(s) THEN 1 ELSE 0)
         /\ counter'.turns = counter.turns + (IF IsStart(s) THEN NumTurns[s] ELSE 0)
         /\ counter'.returned = counter.returned /\ counter'.ended = counter.ended
         /\ counter'.prefills = counter.prefills
         /\ IF NothingLeft' THEN counter'.finalSent = counter'.sent
                            ELSE counter'.finalSent = counter.finalSent
         /\ sentEvent' = (sentEvent \/ NothingLeft')
<1> DEFINE t == TurnToSend(s)
           c == AfterSent(counter, t)
           final == IsFinalCredit(c, t)
<1>1. t = [root |-> TRUE, start |-> IsStart(s), left |-> NumTurns[s] - turn[s],
           planned |-> TRUE]
  BY DEF TurnToSend
<1>2. NumTurns[s] \in Nat /\ NumTurns[s] - turn[s] \in Nat
  <2>1. NumTurns[s] \in Nat /\ turn[s] \in Nat /\ turn[s] < NumTurns[s]
    BY NumTurnsAssumption DEF Typed
  <2> QED BY <2>1
<1>3. /\ t.root = TRUE /\ t.planned = TRUE /\ t.start = IsStart(s)
      /\ t.left \in Nat /\ (IsStart(s) => t.left = NumTurns[s])
  BY <1>1, <1>2 DEF IsStart
<1> HIDE DEF t
<1>4. c = [counter EXCEPT !.sent = counter.sent + 1,
                          !.rootSent = counter.rootSent + 1,
                          !.sessions = counter.sessions + (IF IsStart(s) THEN 1 ELSE 0),
                          !.turns = counter.turns + (IF IsStart(s) THEN t.left ELSE 0)]
  BY <1>3 DEF AfterSent
<1>5. /\ c \in CounterType
      /\ c.cap = counter.cap /\ c.target = counter.target
      /\ c.sent = counter.sent + 1 /\ c.rootSent = counter.rootSent + 1
      /\ c.sessions = counter.sessions + (IF IsStart(s) THEN 1 ELSE 0)
      /\ c.turns = counter.turns + (IF IsStart(s) THEN NumTurns[s] ELSE 0)
      /\ c.returned = counter.returned /\ c.ended = counter.ended
      /\ c.prefills = counter.prefills /\ c.finalSent = counter.finalSent
  <2> DEFINE a == counter.sessions + (IF IsStart(s) THEN 1 ELSE 0)
             b == counter.turns + (IF IsStart(s) THEN t.left ELSE 0)
  <2>1. /\ counter.sent + 1 \in Nat /\ counter.rootSent + 1 \in Nat
        /\ a \in Nat /\ b \in Nat
        /\ b = counter.turns + (IF IsStart(s) THEN NumTurns[s] ELSE 0)
    BY <1>3 DEF CounterType
  <2>2. c = [counter EXCEPT !.sent = counter.sent + 1, !.rootSent = counter.rootSent + 1,
                            !.sessions = a, !.turns = b]
    BY <1>4
  <2> HIDE DEF a, b, c
  <2>3. /\ c \in CounterType
        /\ c.cap = counter.cap /\ c.target = counter.target
        /\ c.sent = counter.sent + 1 /\ c.sessions = a
        /\ c.rootSent = counter.rootSent + 1 /\ c.turns = b
        /\ c.returned = counter.returned /\ c.ended = counter.ended
        /\ c.prefills = counter.prefills /\ c.finalSent = counter.finalSent
    BY <2>1, <2>2 DEF CounterType
  <2> QED BY <2>1, <2>3 DEF a
<1>6. final = (CrossesRequestCap(c) \/ CrossesSessionTarget(c))
  BY <1>3 DEF IsFinalCredit
<1>7. /\ counter' = IF final THEN FreezeSent(c) ELSE c
      /\ sentEvent' = (sentEvent \/ final)
  BY DEF Sends, t
<1> HIDE DEF c, final
<1>8. /\ FreezeSent(c) \in CounterType
      /\ FreezeSent(c) = [c EXCEPT !.finalSent = c.sent]
  BY <1>5 DEF FreezeSent, CounterType
<1>9. NothingLeft' <=> CrossesRequestCap(c) \/ CrossesSessionTarget(c)
  <2>1. /\ counter'.cap = c.cap /\ counter'.sent = c.sent /\ counter'.target = c.target
        /\ counter'.sessions = c.sessions /\ counter'.rootSent = c.rootSent
        /\ counter'.turns = c.turns
    BY <1>5, <1>7, <1>8 DEF CounterType
  <2> QED BY <2>1 DEF NothingLeft, CrossesRequestCap, CrossesSessionTarget
<1>10. CASE final
  <2>1. counter' = [c EXCEPT !.finalSent = c.sent]
    BY <1>7, <1>8, <1>10
  <2>2. /\ counter'.cap = c.cap /\ counter'.target = c.target
        /\ counter'.sent = c.sent /\ counter'.sessions = c.sessions
        /\ counter'.rootSent = c.rootSent /\ counter'.turns = c.turns
        /\ counter'.returned = c.returned /\ counter'.ended = c.ended
        /\ counter'.prefills = c.prefills /\ counter'.finalSent = c.sent
    BY <1>5, <2>1 DEF CounterType
  <2> QED BY <1>5, <1>6, <1>7, <1>8, <1>9, <1>10, <2>1, <2>2
<1>11. CASE ~final
  BY <1>5, <1>6, <1>7, <1>9, <1>11
<1> QED BY <1>10, <1>11

\* The counters after a return, without or with the prefill slot.
LEMMA ReturnedCounters ==
  ASSUME NEW c \in CounterType, NEW b \in BOOLEAN
  PROVE  /\ AfterReturned(c, b) \in CounterType
         /\ AfterReturned(c, b)
              = [c EXCEPT !.returned = c.returned + 1,
                          !.ended = c.ended + (IF b THEN 1 ELSE 0)]
         /\ AfterPrefillReleased(c) \in CounterType
         /\ AfterPrefillReleased(c) = [c EXCEPT !.prefills = c.prefills + 1]
         /\ FreezeSent(c) \in CounterType
         /\ FreezeSent(c) = [c EXCEPT !.finalSent = c.sent]
<1>1. /\ AfterReturned(c, b) \in CounterType
      /\ AfterReturned(c, b)
           = [c EXCEPT !.returned = c.returned + 1,
                       !.ended = c.ended + (IF b THEN 1 ELSE 0)]
  <2> DEFINE n == c.ended + (IF b THEN 1 ELSE 0)
  <2>1. n \in Nat /\ c.returned + 1 \in Nat
    BY DEF CounterType
  <2>2. AfterReturned(c, b) = [c EXCEPT !.returned = c.returned + 1, !.ended = n]
    BY DEF AfterReturned
  <2> HIDE DEF n
  <2>3. AfterReturned(c, b) \in CounterType
    BY <2>1, <2>2 DEF CounterType
  <2> QED BY <2>2, <2>3 DEF n
<1>2. /\ AfterPrefillReleased(c) \in CounterType
      /\ AfterPrefillReleased(c) = [c EXCEPT !.prefills = c.prefills + 1]
  BY DEF CounterType, AfterPrefillReleased
<1>3. /\ FreezeSent(c) \in CounterType
      /\ FreezeSent(c) = [c EXCEPT !.finalSent = c.sent]
  BY DEF CounterType, FreezeSent
<1> QED BY <1>1, <1>2, <1>3

-------------------------------------------------------------------------------
(***************************************************************************)
(* What the steps that are hardest to see through amount to.               *)
(***************************************************************************)
\* The sets of the invariant are finite.
LEMMA FiniteSets ==
  /\ IsFiniteSet(Wired) /\ IsFiniteSet(Active) /\ IsFiniteSet(WaitForToken)
  /\ Cardinality(Wired) \in Nat /\ Cardinality(Active) \in Nat
  /\ Cardinality(WaitForToken) \in Nat
<1>1. /\ Wired \subseteq Sessions /\ Active \subseteq Sessions
      /\ WaitForToken \subseteq Sessions
  BY DEF Wired, Active, WaitForToken
<1> QED BY <1>1, SessionsAssumption, FS_Subset, FS_CardinalityType

\* A session whose credit is on the wire is in flight.
LEMMA WiredInFlight ==
  ASSUME TypeOK, Counted, NEW s \in Sessions, wire[s] # "none"
  PROVE  InFlightSessions(counter) \in Nat \ {0} /\ counter.sent > counter.returned
<1>1. s \in Active /\ s \in Wired
  BY DEF Active, Goes, Wired
<1>2. Cardinality(Active) # 0 /\ Cardinality(Wired) # 0
  BY <1>1, FiniteSets, FS_EmptySet
<1>3. /\ counter.sessions \in Nat /\ counter.ended \in Nat
      /\ counter.sent \in Nat /\ counter.returned \in Nat
  BY DEF TypeOK
<1> QED BY <1>2, <1>3, FiniteSets DEF Counted, InFlightSessions

\* A return, with its n session slots.
Returns(s, n) ==
  /\ counter' \in CounterType
  /\ counter'.cap = counter.cap /\ counter'.target = counter.target
  /\ counter'.sent = counter.sent /\ counter'.sessions = counter.sessions
  /\ counter'.rootSent = counter.rootSent /\ counter'.turns = counter.turns
  /\ counter'.finalSent = counter.finalSent
  /\ counter'.returned = counter.returned + 1
  /\ counter'.ended = counter.ended + (IF IsLastTurn(s) THEN 1 ELSE 0)
  /\ counter'.prefills = counter.prefills + (IF WithoutToken(s) THEN 1 ELSE 0)
  /\ NothingLeft' <=> NothingLeft
  /\ n = (IF IsLastTurn(s) THEN 1 ELSE 0)
           + (IF AllReturned(counter') THEN InFlightSessions(counter') ELSE 0)
  /\ session' = ReleaseMany(session, n)
  /\ prefill' = IF WithoutToken(s) THEN Release(prefill) ELSE prefill
  /\ doneEvent' = (doneEvent \/ AllReturned(counter'))
  /\ wire' = [wire EXCEPT ![s] = "none"]
  /\ wire[s] \in {"prefill", "decode"} /\ ~PhaseComplete
  /\ UNCHANGED <<turn, task, queue>> \/ (~IsLastTurn(s) /\ NextTurn(s))
  /\ UNCHANGED <<loop, own, lifecycle, sentEvent, runner, forced, clock, workersUp, plan>>

\* Every return is one, and the slots it gives back are a number.
LEMMA ReturnSteps ==
  ASSUME TypeOK, Counted, NEW s \in Sessions, CreditReturns(s)
  PROVE  \E n \in Nat : Returns(s, n)
<1> DEFINE b == IsLastTurn(s)
           c == AfterReturned(counter, b)
           d == AfterPrefillReleased(c)
           n == SlotsToRelease(s, c)
<1>1. /\ counter' = IF WithoutToken(s) THEN d ELSE c
      /\ session' = ReleaseMany(session, n)
      /\ prefill' = IF WithoutToken(s) THEN Release(prefill) ELSE prefill
      /\ doneEvent' = (doneEvent \/ AllReturned(c))
      /\ wire' = [wire EXCEPT ![s] = "none"]
      /\ wire[s] \in {"prefill", "decode"} /\ ~PhaseComplete
      /\ UNCHANGED <<turn, task, queue>> \/ (~IsLastTurn(s) /\ NextTurn(s))
      /\ UNCHANGED <<loop, own, lifecycle, sentEvent, runner, forced, clock, workersUp, plan>>
  BY DEF CreditReturns
<1>2. counter \in CounterType /\ b \in BOOLEAN
  BY DEF TypeOK, CounterType, IsLastTurn
<1>3. /\ c \in CounterType /\ d \in CounterType
      /\ c = [counter EXCEPT !.returned = counter.returned + 1,
                             !.ended = counter.ended + (IF b THEN 1 ELSE 0)]
      /\ d = [c EXCEPT !.prefills = c.prefills + 1]
  BY <1>2, ReturnedCounters
<1> HIDE DEF c, d
<1>4. /\ c.cap = counter.cap /\ c.target = counter.target /\ c.sent = counter.sent
      /\ c.sessions = counter.sessions /\ c.rootSent = counter.rootSent
      /\ c.turns = counter.turns /\ c.finalSent = counter.finalSent
      /\ c.prefills = counter.prefills
      /\ c.returned = counter.returned + 1
      /\ c.ended = counter.ended + (IF b THEN 1 ELSE 0)
  BY <1>2, <1>3 DEF CounterType
<1>5. /\ d.cap = c.cap /\ d.target = c.target /\ d.sent = c.sent
      /\ d.sessions = c.sessions /\ d.rootSent = c.rootSent
      /\ d.turns = c.turns /\ d.finalSent = c.finalSent
      /\ d.prefills = c.prefills + 1
      /\ d.returned = c.returned /\ d.ended = c.ended
  BY <1>3 DEF CounterType
<1>6. /\ counter' \in CounterType
      /\ counter'.cap = counter.cap /\ counter'.target = counter.target
      /\ counter'.sent = counter.sent /\ counter'.sessions = counter.sessions
      /\ counter'.rootSent = counter.rootSent /\ counter'.turns = counter.turns
      /\ counter'.finalSent = counter.finalSent
      /\ counter'.returned = counter.returned + 1
      /\ counter'.ended = counter.ended + (IF b THEN 1 ELSE 0)
      /\ counter'.returned = c.returned /\ counter'.ended = c.ended
      /\ counter'.prefills = counter.prefills + (IF WithoutToken(s) THEN 1 ELSE 0)
  <2>1. CASE WithoutToken(s)
    <3>1. counter' = d
      BY <1>1, <2>1
    <3> QED BY <1>3, <1>4, <1>5, <2>1, <3>1
  <2>2. CASE ~WithoutToken(s)
    <3>1. counter' = c /\ counter.prefills + 0 = counter.prefills
      BY <1>1, <1>2, <2>2 DEF CounterType
    <3> QED BY <1>3, <1>4, <2>2, <3>1
  <2> QED BY <2>1, <2>2
<1>7. NothingLeft' <=> NothingLeft
  BY <1>6 DEF NothingLeft, CrossesRequestCap, CrossesSessionTarget
<1>8. /\ AllReturned(counter') <=> AllReturned(c)
      /\ InFlightSessions(counter') = InFlightSessions(c)
  BY <1>4, <1>6 DEF AllReturned, InFlightSessions
<1>9. n = (IF b THEN 1 ELSE 0)
            + (IF AllReturned(counter') THEN InFlightSessions(counter') ELSE 0)
  BY <1>8 DEF SlotsToRelease
<1>10. n \in Nat
  <2>1. InFlightSessions(counter) \in Nat \ {0}
    BY <1>1, WiredInFlight
  <2>2. InFlightSessions(counter') \in Nat
    <3>1. counter.sessions \in Nat /\ counter.ended \in Nat
      BY <1>2 DEF CounterType
    <3> QED BY <1>6, <2>1, <3>1 DEF InFlightSessions
  <2> QED BY <1>9, <2>2
<1> HIDE DEF n
<1>11. Returns(s, n)
  BY <1>1, <1>6, <1>7, <1>8, <1>9 DEF Returns
<1> QED BY <1>10, <1>11

\* Once the number of requests is final, or the phase cancelled, nothing goes out.
LEMMA NothingMoreToSend ==
  ASSUME TypeOK, Signals, IsFrozen \/ lifecycle.cancelled
  PROVE  ~CanSend /\ ~CanStart
<1>1. CASE lifecycle.cancelled
  BY <1>1 DEF CanSend, CanStart, CanStartNewSession, CanSendAnyTurn, CanSendChildTurn, Facts
<1>2. CASE IsFrozen /\ lifecycle.state # "started"
  BY <1>2 DEF CanSend, CanStart, CanStartNewSession, CanSendAnyTurn, CanSendChildTurn, Facts
<1>3. CASE IsFrozen /\ lifecycle.state = "started"
  <2>1. NothingLeft
    BY <1>3 DEF Signals
  <2>2. /\ counter.sent \in Nat /\ counter.cap \in Nat \cup {NoLimit}
        /\ counter.sessions \in Nat /\ counter.target \in Nat \cup {NoLimit}
        /\ counter.rootSent \in Nat /\ counter.turns \in Nat
    BY DEF TypeOK
  <2>3. CASE CrossesRequestCap(counter)
    <3>1. ~RequestsLeft(counter)
      BY <2>2, <2>3 DEF CrossesRequestCap, RequestsLeft
    <3> QED BY <3>1 DEF CanSend, CanStart, CanStartNewSession, CanSendAnyTurn, CanSendChildTurn
  <2>4. CASE CrossesSessionTarget(counter)
    <3>1. ~SessionsLeft(counter) /\ ~(counter.rootSent < counter.turns)
      BY <2>2, <2>4 DEF CrossesSessionTarget, SessionsLeft
    <3> QED BY <3>1 DEF CanSend, CanStart, CanStartNewSession, CanSendAnyTurn
  <2> QED BY <2>1, <2>3, <2>4 DEF NothingLeft
<1> QED BY <1>1, <1>2, <1>3

\* So who sends does it in the phase's sending stage, below its cap and target.
LEMMA SendsInTime ==
  ASSUME TypeOK, Stages, Signals, NEW s \in Sessions, Sends(s)
  PROVE  /\ ~IsFrozen /\ ~lifecycle.cancelled /\ lifecycle.state = "started"
         /\ ~doneEvent /\ ~forced
         /\ RequestsLeft(counter) /\ (IsStart(s) => SessionsLeft(counter))
<1>1. CanSend /\ (IsStart(s) => SessionsLeft(counter))
  BY DEF Sends, MayProceed, CanStart, CanSend, CanStartNewSession
<1>2. ~IsFrozen /\ ~lifecycle.cancelled
  BY <1>1, NothingMoreToSend
<1>3. RequestsLeft(counter)
  BY <1>1 DEF CanSend, CanSendAnyTurn, CanSendChildTurn
<1>4. lifecycle.state = "started" /\ ~forced
  BY <1>2 DEF Stages, Signals, PhaseComplete
<1>5. ~doneEvent
  BY <1>2, <1>4 DEF Signals, AllReturned, IsFrozen
<1> QED BY <1>1, <1>2, <1>3, <1>4, <1>5

\* A task that ends or that nobody gave its session slot back for; one on the way.
Ends(x) == \/ task'[x] \in {task[x], "none"}
           \/ task[x] = "prefill" /\ IsStart(x) /\ task'[x] = "stranded"

\* What the sending stage's end does to tasks and queues: timers go, and with a
\* duration what the main loop waited for.
LEMMA StopSendingTasks ==
  ASSUME TypeOK, QueuesKept, StopSending
  PROVE  /\ loop' \in {loop, "ended"} /\ own' \subseteq Sessions
         /\ task' \in [Sessions -> TaskStates]
         /\ \A x \in Sessions : Ends(x)
         /\ QueuesKept'
         /\ Taken(session') = Taken(session) /\ Taken(prefill') = Taken(prefill)
         /\ Starting' = Starting
<1>1. /\ task \in [Sessions -> TaskStates] /\ own \subseteq Sessions
      /\ Orderly(session, Sessions, SessionLimit, At("session"))
      /\ Orderly(prefill, Sessions, PrefillLimit, At("prefill"))
      /\ turn' = turn
  BY DEF TypeOK, QueuesKept, StopSending
<1>2. \A s \in Sessions : WithoutTimers[s] = IF task[s] = "timer" THEN "none" ELSE task[s]
  BY DEF WithoutTimers
<1>3. WithoutTimers \in [Sessions -> TaskStates]
  BY <1>1 DEF WithoutTimers, TaskStates
<1>4. loop' \in {loop, "ended"} /\ own' \subseteq Sessions
  BY <1>1 DEF StopSending, CancelLoop
<1>5. CASE task' = WithoutTimers /\ UNCHANGED limitVars
  <2>1. session' = session /\ prefill' = prefill
    BY <1>5 DEF limitVars
  <2>2. \A x \in Sessions : task'[x] = IF task[x] = "timer" THEN "none" ELSE task[x]
    BY <1>2, <1>5
  <2>3. At("session")' = At("session") /\ At("prefill")' = At("prefill")
    BY <2>2 DEF At
  <2>4. QueuesKept'
    BY <1>1, <2>1, <2>3, Zenon DEF QueuesKept
  <2>5. Starting' = Starting
    BY <1>1, <2>2 DEF Starting, IsStart
  <2>6. \A x \in Sessions : Ends(x)
    BY <2>2 DEF Ends
  <2>7. Taken(session') = Taken(session) /\ Taken(prefill') = Taken(prefill)
    BY <2>1
  <2> QED BY <1>3, <1>4, <1>5, <2>4, <2>5, <2>6, <2>7
<1>6. ASSUME NEW s \in own, task[s] = "session",
             session' = CancelTask(session, s), prefill' = prefill,
             task' = [WithoutTimers EXCEPT ![s] = "none"]
      PROVE  /\ task' \in [Sessions -> TaskStates] /\ \A x \in Sessions : Ends(x)
             /\ QueuesKept'
             /\ Taken(session') = Taken(session) /\ Taken(prefill') = Taken(prefill)
             /\ Starting' = Starting
  <2>1. s \in Sessions
    BY <1>1
  <2>2. \A x \in Sessions : task'[x] = IF x = s \/ task[x] = "timer" THEN "none" ELSE task[x]
    BY <1>2, <1>3, <1>6
  <2>3. At("session")' = At("session") \ {s} /\ At("prefill")' = At("prefill")
    BY <1>6, <2>2 DEF At
  <2>4. /\ Orderly(session', Sessions, SessionLimit, At("session") \ {s})
        /\ Taken(session') = Taken(session)
    BY <1>1, <1>6, CancelTaskOrderly
  <2>5. QueuesKept'
    BY <1>1, <1>6, <2>3, <2>4, Zenon DEF QueuesKept
  <2>6. Starting' = Starting
    BY <1>1, <1>6, <2>2 DEF Starting, IsStart
  <2>7. \A x \in Sessions : Ends(x)
    BY <2>2 DEF Ends
  <2>8. task' \in [Sessions -> TaskStates]
    BY <1>3, <1>6 DEF TaskStates
  <2> QED BY <1>6, <2>4, <2>5, <2>6, <2>7, <2>8
<1>7. ASSUME NEW s \in own, task[s] = "prefill",
             prefill' = CancelTask(prefill, s), session' = session,
             task' = [WithoutTimers EXCEPT ![s] = IF IsStart(s) THEN "stranded" ELSE "none"]
      PROVE  /\ task' \in [Sessions -> TaskStates] /\ \A x \in Sessions : Ends(x)
             /\ QueuesKept'
             /\ Taken(session') = Taken(session) /\ Taken(prefill') = Taken(prefill)
             /\ Starting' = Starting
  <2>1. s \in Sessions
    BY <1>1
  <2>2. /\ \A x \in Sessions \ {s} :
             task'[x] = IF task[x] = "timer" THEN "none" ELSE task[x]
        /\ task'[s] = IF IsStart(s) THEN "stranded" ELSE "none"
    BY <1>2, <1>3, <1>7, <2>1
  <2>3. At("session")' = At("session") /\ At("prefill")' = At("prefill") \ {s}
    BY <1>7, <2>2 DEF At
  <2>4. /\ Orderly(prefill', Sessions, PrefillLimit, At("prefill") \ {s})
        /\ Taken(prefill') = Taken(prefill)
    BY <1>1, <1>7, CancelTaskOrderly
  <2>5. QueuesKept'
    BY <1>1, <1>7, <2>3, <2>4, Zenon DEF QueuesKept
  <2>6. Starting' = Starting
    <3>1. Starting' = {x \in Sessions : \/ task'[x] = "stranded"
                                        \/ task'[x] = "prefill" /\ IsStart(x)}
      BY <1>1 DEF Starting, IsStart
    <3>2. \A x \in Sessions :
            (task'[x] = "stranded" \/ (task'[x] = "prefill" /\ IsStart(x)))
              <=> (task[x] = "stranded" \/ (task[x] = "prefill" /\ IsStart(x)))
      BY <1>7, <2>2
    <3> QED BY <3>1, <3>2 DEF Starting
  <2>7. \A x \in Sessions : Ends(x)
    BY <1>7, <2>2 DEF Ends
  <2>8. task' \in [Sessions -> TaskStates]
    BY <1>3, <1>7 DEF TaskStates
  <2> QED BY <1>7, <2>4, <2>5, <2>6, <2>7, <2>8
<1> QED BY <1>4, <1>5, <1>6, <1>7, Zenon DEF StopSending, CancelLoop, limitVars

\* What the phase's end and its cancellation do to them: tasks go and queues empty.
LEMMA ClosingTasks ==
  ASSUME TypeOK, QueuesKept, Close \/ Cancel
  PROVE  /\ loop' \in {loop, "ended"} /\ own' \subseteq Sessions
         /\ task' \in [Sessions -> TaskStates]
         /\ \A x \in Sessions : task'[x] \in {task[x], "none"}
         /\ QueuesKept'
         /\ Taken(prefill') = Taken(prefill)
<1>1. /\ task \in [Sessions -> TaskStates] /\ own \subseteq Sessions
      /\ Orderly(session, Sessions, SessionLimit, At("session"))
      /\ Orderly(prefill, Sessions, PrefillLimit, At("prefill"))
  BY DEF TypeOK, QueuesKept
<1>2. loop' \in {loop, "ended"} /\ own' \subseteq Sessions
  BY <1>1 DEF Close, Cancel, CancelEverything
<1>3. ASSUME \A x \in Sessions : task'[x] \in {"new", "none"},
             session' = CancelAll(session), prefill' = CancelAll(prefill)
      PROVE  QueuesKept' /\ Taken(prefill') = Taken(prefill)
  <2>1. At("session")' = {} /\ At("prefill")' = {}
    BY <1>3 DEF At
  <2>2. /\ Orderly(session', Sessions, SessionLimit, {})
        /\ Orderly(prefill', Sessions, PrefillLimit, {})
        /\ Taken(prefill') = Taken(prefill)
    BY <1>1, <1>3, CancelAllOrderly
  <2> QED BY <2>1, <2>2, Zenon DEF QueuesKept
<1>4. ASSUME NEW s \in own,
             \A x \in Sessions :
               task'[x] = IF task[x] = "new" \/ x \in own THEN task[x] ELSE "none",
             session' = CancelAllBut(session, s), prefill' = CancelAllBut(prefill, s)
      PROVE  QueuesKept' /\ Taken(prefill') = Taken(prefill)
  <2>1. s \in Sessions
    BY <1>1
  <2>2. /\ At("session") \cap {s} \subseteq At("session")'
        /\ At("prefill") \cap {s} \subseteq At("prefill")'
    BY <1>4 DEF At
  <2>3. /\ Orderly(session', Sessions, SessionLimit, At("session") \cap {s})
        /\ Orderly(prefill', Sessions, PrefillLimit, At("prefill") \cap {s})
        /\ Taken(prefill') = Taken(prefill)
    BY <1>1, <1>4, <2>1, CancelAllButOrderly
  <2>4. /\ Orderly(session', Sessions, SessionLimit, At("session")')
        /\ Orderly(prefill', Sessions, PrefillLimit, At("prefill")')
    BY <2>2, <2>3, OrderlyIn
  <2> QED BY <2>3, <2>4, Zenon DEF QueuesKept
<1>5. CASE Close
  <2>1. /\ task' = [x \in Sessions |->
                     IF task[x] = "new" \/ x \in own THEN task[x] ELSE "none"]
        /\ \/ own = {} /\ session' = CancelAll(session) /\ prefill' = CancelAll(prefill)
           \/ \E s \in own : /\ session' = CancelAllBut(session, s)
                             /\ prefill' = CancelAllBut(prefill, s)
    BY <1>5 DEF Close, CancelTasks
  <2>2. /\ \A x \in Sessions :
             task'[x] = IF task[x] = "new" \/ x \in own THEN task[x] ELSE "none"
        /\ task' \in [Sessions -> TaskStates]
    BY <1>1, <2>1 DEF TaskStates
  <2>3. CASE own = {} /\ session' = CancelAll(session) /\ prefill' = CancelAll(prefill)
    <3>1. \A x \in Sessions : task'[x] \in {"new", "none"}
      BY <2>2, <2>3
    <3> QED BY <1>2, <1>3, <2>2, <2>3, <3>1
  <2>4. CASE \E s \in own : /\ session' = CancelAllBut(session, s)
                            /\ prefill' = CancelAllBut(prefill, s)
    BY <1>2, <1>4, <2>2, <2>4
  <2> QED BY <2>1, <2>3, <2>4
<1>6. CASE Cancel
  <2>1. /\ task' = [x \in Sessions |-> IF task[x] = "new" THEN "new" ELSE "none"]
        /\ session' = CancelAll(session) /\ prefill' = CancelAll(prefill)
    BY <1>6 DEF Cancel, CancelEverything
  <2>2. /\ \A x \in Sessions : /\ task'[x] \in {"new", "none"}
                               /\ task'[x] \in {task[x], "none"}
        /\ task' \in [Sessions -> TaskStates]
    BY <2>1 DEF TaskStates
  <2> QED BY <1>2, <1>3, <2>1, <2>2
<1> QED BY <1>5, <1>6

\* What the stuck-slot sweep takes to be held.
LEMMA HeldIsNumber ==
  ASSUME NEW T, NEW N, NEW S, NEW l, Orderly(l, T, N, S)
  PROVE  Held(l) \in Nat
<1> DEFINE v == l.value + Len(l.woken)
           m == [l EXCEPT !.value = v]
<1>1. l \in LimitsOf(T)
  BY DEF Orderly
<1>2. l.value \in Nat /\ Len(l.woken) \in Nat /\ v \in Nat
  BY <1>1, LimitFields
<1>3. Held(l) = HeldSlots(m)
  BY Zenon DEF Held
<1> HIDE DEF v
<1>4. Becomes(m, l, T, v, l.woken, l.waiting)
  BY <1>1, <1>2, LimitUpdates, Zenon
<1> HIDE DEF m
<1>5. m.value \in Nat /\ m.debt \in Nat /\ m.limit \in Nat
  BY <1>4, LimitFields DEF Becomes
<1> QED BY <1>3, <1>5 DEF HeldSlots, EffectiveSlots

-------------------------------------------------------------------------------
(***************************************************************************)
(* Each part of the invariant is kept by every step.                       *)
(***************************************************************************)
\* The queues of the limiters.
LEMMA KeepsQueues ==
  ASSUME IInv, [Next]_vars
  PROVE  QueuesKept'
<1>1. /\ Orderly(session, Sessions, SessionLimit, At("session"))
      /\ Orderly(prefill, Sessions, PrefillLimit, At("prefill"))
  BY DEF IInv, QueuesKept
<1>2. task \in [Sessions -> TaskStates]
  BY DEF IInv, TypeOK
<1>3. ASSUME task' = task, session' = session, prefill' = prefill
      PROVE  QueuesKept'
  <2>1. At("session")' = At("session") /\ At("prefill")' = At("prefill")
    BY <1>3 DEF At
  <2> QED BY <1>1, <1>3, <2>1, Zenon DEF QueuesKept
<1>4. CASE Issues
  BY <1>4, IssueSteps DEF IInv, Issues
<1>5. ASSUME NEW s \in Sessions, QueueDelayed(s)
      PROVE  QueuesKept'
  <2>1. At("session")' = At("session") /\ At("prefill")' = At("prefill")
    BY <1>2, <1>5 DEF At, QueueDelayed
  <2>2. session' = session /\ prefill' = prefill
    BY <1>5 DEF QueueDelayed, limitVars
  <2> QED BY <1>1, <2>1, <2>2, Zenon DEF QueuesKept
<1>6. ASSUME NEW s \in Sessions, CreditReturns(s)
      PROVE  QueuesKept'
  <2>1. PICK n \in Nat : Returns(s, n)
    BY <1>6, ReturnSteps DEF IInv
  <2>2. task[s] = "none"
    BY <2>1 DEF IInv, Places, Returns
  <2>3. At("session")' = At("session") /\ At("prefill")' = At("prefill")
    BY <1>2, <2>1, <2>2 DEF At, Returns, NextTurn
  <2>4. /\ session' = ReleaseMany(session, n)
        /\ prefill' = IF WithoutToken(s) THEN Release(prefill) ELSE prefill
    BY <2>1 DEF Returns
  <2>5. Orderly(session', Sessions, SessionLimit, At("session"))
    BY <1>1, <2>4, ReleaseManyOrderly
  <2>6. Orderly(prefill', Sessions, PrefillLimit, At("prefill"))
    BY <1>1, <2>4, ReleaseOrderly
  <2> QED BY <2>3, <2>5, <2>6, Zenon DEF QueuesKept
<1>7. ASSUME NEW s \in Sessions, LateReturn(s)
      PROVE  QueuesKept'
  BY <1>3, <1>7 DEF LateReturn, limitVars
<1>8. ASSUME NEW s \in Sessions, FirstToken(s)
      PROVE  QueuesKept'
  <2>1. prefill' = Release(prefill) /\ session' = session /\ task' = task
    BY <1>8 DEF FirstToken
  <2>2. At("session")' = At("session") /\ At("prefill")' = At("prefill")
    BY <2>1 DEF At
  <2>3. Orderly(prefill', Sessions, PrefillLimit, At("prefill"))
    BY <1>1, <2>1, ReleaseOrderly
  <2> QED BY <1>1, <2>1, <2>2, <2>3, Zenon DEF QueuesKept
<1>9. CASE \/ LeaveLoop \/ WorkersCrash \/ AfterSending \/ AllCreditsBack
           \/ CancelInFlight \/ TimePasses \/ UNCHANGED vars
  BY <1>3, <1>9 DEF LeaveLoop, WorkersCrash, AfterSending, AllCreditsBack,
       CancelInFlight, TimePasses, vars, issueVars, limitVars
<1>10. CASE StopSending
  BY <1>10, StopSendingTasks DEF IInv
<1>11. CASE ForceCompletion
  <2>1. /\ session' = ReleaseMany(session, Held(session))
        /\ prefill' = ReleaseMany(prefill, Held(prefill))
        /\ task' = task
    BY <1>11 DEF ForceCompletion, issueVars
  <2>2. Held(session) \in Nat /\ Held(prefill) \in Nat
    BY <1>1, HeldIsNumber
  <2>3. At("session")' = At("session") /\ At("prefill")' = At("prefill")
    BY <2>1 DEF At
  <2>4. /\ Orderly(session', Sessions, SessionLimit, At("session"))
        /\ Orderly(prefill', Sessions, PrefillLimit, At("prefill"))
    BY <1>1, <2>1, <2>2, ReleaseManyOrderly
  <2> QED BY <2>3, <2>4, Zenon DEF QueuesKept
<1>12. CASE Close \/ Cancel
  BY <1>12, ClosingTasks DEF IInv
<1> QED BY <1>4, <1>5, <1>6, <1>7, <1>8, <1>9, <1>10, <1>11, <1>12, NextSteps

\* Types.
LEMMA KeepsTypes ==
  ASSUME IInv, [Next]_vars
  PROVE  TypeOK'
<1>1. session' \in Limit /\ prefill' \in Limit
  BY KeepsQueues DEF QueuesKept, Orderly, LimitsOf, Limit
<1>2. TypeOK /\ counter \in CounterType /\ Typed
  BY DEF IInv, TypeOK, CounterType, Typed
<1>3. ASSUME counter' \in CounterType, UNCHANGED <<plan, turn>>,
             task' \in [Sessions -> TaskStates],
             wire' \in [Sessions -> {"none", "prefill", "decode", "lost"}],
             queue' \in Seq(Sessions), loop' \in {"running", "ended"}, own' \subseteq Sessions,
             UNCHANGED lifecycle, sentEvent' \in BOOLEAN, doneEvent' \in BOOLEAN,
             UNCHANGED <<runner, clock, forced>>, workersUp' \in BOOLEAN
      PROVE  TypeOK'
  BY <1>1, <1>2, <1>3 DEF TypeOK, CounterType
<1>4. CASE Issues
  <2>1. PICK s \in Sessions : IssueStep(s)
    BY <1>4, IssueSteps DEF IInv, Issues
  <2>2. queue' \in Seq(Sessions) /\ UNCHANGED issuerUnchanged
    BY <2>1 DEF IssueStep
  <2>3. CASE Sends(s)
    <3>1. counter' \in CounterType
      BY <1>2, <2>3, SentCounters
    <3>2. /\ task' \in [Sessions -> TaskStates]
          /\ wire' \in [Sessions -> {"none", "prefill", "decode", "lost"}]
          /\ loop' \in {"running", "ended"} /\ own' \subseteq Sessions
      BY <1>2, <2>3 DEF Sends, TypeOK, TaskStates
    <3>3. sentEvent' \in BOOLEAN
      BY <1>2, <2>3, SentCounters DEF TypeOK, NothingLeft
    <3> QED BY <1>2, <1>3, <2>2, <3>1, <3>2, <3>3 DEF issuerUnchanged, TypeOK
  <2>4. CASE Refuses(s)
    <3>1. /\ task' \in [Sessions -> TaskStates]
          /\ loop' \in {"running", "ended"} /\ own' \subseteq Sessions
      BY <1>2, <2>4 DEF Refuses, TypeOK, TaskStates
    <3> QED BY <1>2, <1>3, <2>2, <2>4, <3>1 DEF issuerUnchanged, TypeOK, Refuses
  <2>5. ASSUME NEW place \in {"prefill", "session"}, Parks(s, place)
        PROVE  TypeOK'
    <3>1. /\ task' \in [Sessions -> TaskStates]
          /\ loop' \in {"running", "ended"} /\ own' \subseteq Sessions
      BY <1>2, <2>5 DEF Parks, TypeOK, TaskStates
    <3> QED BY <1>2, <1>3, <2>2, <2>5, <3>1 DEF issuerUnchanged, TypeOK, Parks
  <2> QED BY <2>1, <2>3, <2>4, <2>5 DEF IssueStep
<1>5. ASSUME NEW s \in Sessions, QueueDelayed(s)
      PROVE  TypeOK'
  <2>1. task' \in [Sessions -> TaskStates] /\ queue' \in Seq(Sessions)
    BY <1>2, <1>5 DEF QueueDelayed, TypeOK, TaskStates
  <2> QED BY <1>2, <1>3, <1>5, <2>1 DEF QueueDelayed, TypeOK, runVars, CounterType
<1>6. ASSUME NEW s \in Sessions, CreditReturns(s)
      PROVE  TypeOK'
  <2>1. PICK n \in Nat : Returns(s, n)
    BY <1>6, ReturnSteps DEF IInv
  <2>2. counter' \in CounterType /\ doneEvent' \in BOOLEAN
    BY <1>2, <2>1 DEF Returns, TypeOK, AllReturned
  <2>3. wire' \in [Sessions -> {"none", "prefill", "decode", "lost"}]
    BY <1>2, <2>1 DEF Returns, TypeOK
  <2>4. CASE UNCHANGED <<turn, task, queue>>
    BY <1>2, <1>3, <2>1, <2>2, <2>3, <2>4, SMTT(30) DEF Returns, TypeOK
  <2>5. CASE ~IsLastTurn(s) /\ NextTurn(s)
    <3>1. turn' \in [Sessions -> Nat] /\ \A x \in Sessions : turn'[x] < NumTurns[x]
      <4>1. /\ turn' = [turn EXCEPT ![s] = turn[s] + 1]
            /\ turn \in [Sessions -> Nat] /\ \A x \in Sessions : turn[x] < NumTurns[x]
            /\ NumTurns[s] \in Nat /\ turn[s] # NumTurns[s] - 1
        BY <1>2, <2>5, NumTurnsAssumption DEF Typed, NextTurn, IsLastTurn
      <4>2. turn[s] + 1 \in Nat /\ turn[s] + 1 < NumTurns[s]
        BY <4>1
      <4> QED BY <4>1, <4>2
    <3>2. task' \in [Sessions -> TaskStates]
      BY <1>2, <2>5 DEF TypeOK, NextTurn, TaskStates
    <3>3. queue' \in Seq(Sessions)
      <4>1. queue \in Seq(Sessions) /\ (queue' = queue \/ queue' = Append(queue, s))
        BY <1>2, <2>5 DEF TypeOK, NextTurn
      <4> QED BY <4>1
    <3>4. UNCHANGED <<loop, own, lifecycle, sentEvent, runner, forced, clock, workersUp, plan>>
      BY <2>1 DEF Returns
    <3> QED BY <1>1, <1>2, <2>2, <2>3, <3>1, <3>2, <3>3, <3>4, SMTT(30)
            DEF TypeOK, CounterType
  <2> QED BY <2>1, <2>4, <2>5 DEF Returns
<1>7. ASSUME NEW s \in Sessions, LateReturn(s)
      PROVE  TypeOK'
  <2>1. wire' \in [Sessions -> {"none", "prefill", "decode", "lost"}]
    BY <1>2, <1>7 DEF LateReturn, TypeOK
  <2> QED BY <1>2, <1>3, <1>7, <2>1 DEF LateReturn, TypeOK, runVars, CounterType
<1>8. ASSUME NEW s \in Sessions, FirstToken(s)
      PROVE  TypeOK'
  <2>1. wire' \in [Sessions -> {"none", "prefill", "decode", "lost"}]
    BY <1>2, <1>8 DEF FirstToken, TypeOK
  <2>2. counter' \in CounterType
    BY <1>2, <1>8, ReturnedCounters DEF FirstToken
  <2> QED BY <1>2, <1>3, <1>8, <2>1, <2>2 DEF FirstToken, TypeOK, runVars
<1>9. CASE LeaveLoop \/ WorkersCrash
  <2>1. wire' \in [Sessions -> {"none", "prefill", "decode", "lost"}]
    BY <1>2, <1>9 DEF LeaveLoop, WorkersCrash, TypeOK
  <2> QED BY <1>2, <1>3, <1>9, <2>1
          DEF LeaveLoop, WorkersCrash, TypeOK, runVars, CounterType
<1>10. CASE AfterSending \/ AllCreditsBack \/ CancelInFlight \/ ForceCompletion
  <2>1. /\ UNCHANGED <<plan, turn, task, wire, queue, loop, own, counter, sentEvent, clock,
                       workersUp>>
        /\ lifecycle' \in {lifecycle, [lifecycle EXCEPT !.state = "complete"]}
        /\ runner' \in {"closing", "returning", "draining"}
        /\ doneEvent' \in BOOLEAN /\ forced' \in BOOLEAN
    BY <1>2, <1>10 DEF AfterSending, AllCreditsBack, CancelInFlight, ForceCompletion,
         MarkComplete, issueVars, TypeOK, AllReturned
  <2>2. lifecycle' \in [state : {"started", "sending_complete", "complete"},
                        cancelled : BOOLEAN]
    BY <1>2, <2>1 DEF TypeOK
  <2> QED BY <1>1, <1>2, <2>1, <2>2 DEF TypeOK
<1>11. CASE StopSending
  <2>1. /\ task' \in [Sessions -> TaskStates] /\ loop' \in {loop, "ended"}
        /\ own' \subseteq Sessions
    BY <1>2, <1>11, StopSendingTasks DEF IInv
  <2>2. counter' \in CounterType
    BY <1>2, <1>11, ReturnedCounters DEF StopSending
  <2>3. /\ lifecycle' = [lifecycle EXCEPT !.state = "sending_complete"]
        /\ sentEvent' = TRUE /\ runner' = "sent"
        /\ UNCHANGED <<turn, wire, queue, doneEvent, clock, workersUp, plan, forced>>
    BY <1>11 DEF StopSending
  <2>4. lifecycle' \in [state : {"started", "sending_complete", "complete"},
                        cancelled : BOOLEAN]
    BY <1>2, <2>3 DEF TypeOK
  <2> QED BY <1>1, <1>2, <2>1, <2>2, <2>3, <2>4 DEF TypeOK, CounterType
<1>12. CASE Close \/ Cancel
  <2>1. /\ UNCHANGED <<plan, turn, wire, queue, counter, forced, clock, workersUp>>
        /\ lifecycle' \in {lifecycle, [lifecycle EXCEPT !.cancelled = TRUE]}
        /\ runner' \in {runner, "done"}
        /\ sentEvent' \in BOOLEAN /\ doneEvent' \in BOOLEAN
    BY <1>2, <1>12 DEF TypeOK, Close, Cancel
  <2>3. /\ task' \in [Sessions -> TaskStates] /\ loop' \in {loop, "ended"}
        /\ own' \subseteq Sessions
    BY <1>12, ClosingTasks DEF IInv
  <2>2. lifecycle' \in [state : {"started", "sending_complete", "complete"},
                        cancelled : BOOLEAN]
    BY <1>2, <2>1 DEF TypeOK
  <2> QED BY <1>1, <1>2, <2>1, <2>2, <2>3 DEF TypeOK
<1>13. CASE TimePasses
  <2>1. clock' \in {"running", "grace", "over"}
    BY <1>13 DEF TimePasses
  <2> QED BY <1>1, <1>2, <1>13, <2>1 DEF TimePasses, TypeOK, issueVars, runVars
<1>14. CASE UNCHANGED vars
  BY <1>1, <1>2, <1>14 DEF vars, TypeOK, issueVars, runVars
<1> QED BY <1>4, <1>5, <1>6, <1>7, <1>8, <1>9, <1>10, <1>11, <1>12, <1>13, <1>14,
           NextSteps

\* A continuation joins the queue.
LEMMA Appended ==
  ASSUME TypeOK, NEW s \in Sessions, ~InQueue(s), Distinct(queue),
         queue' = Append(queue, s)
  PROVE  /\ Distinct(queue')
         /\ \A i \in 1..Len(queue') : queue'[i] = s \/ InQueue(queue'[i])
<1> DEFINE n == Len(queue)
<1>1. /\ queue \in Seq(Sessions) /\ n \in Nat /\ Len(queue') = n + 1
      /\ \A i \in 1..n : queue'[i] = queue[i]
      /\ queue'[n + 1] = s
  BY AppendProperties DEF TypeOK
<1>2. \A i \in 1..n : queue[i] # s /\ InQueue(queue[i])
  BY DEF InQueue
<1> HIDE DEF n
<1>3. \A i \in 1..Len(queue') : i \in 1..n \/ i = n + 1
  BY <1>1
<1>4. \A i \in 1..Len(queue') : queue'[i] = s \/ InQueue(queue'[i])
  BY <1>1, <1>2, <1>3
<1>5. ASSUME NEW i \in 1..Len(queue'), NEW j \in 1..Len(queue'), queue'[i] = queue'[j]
      PROVE  i = j
  <2>1. CASE i \in 1..n /\ j \in 1..n
    BY <1>1, <1>5, <2>1 DEF Distinct, n
  <2>2. CASE i = n + 1 /\ j \in 1..n
    BY <1>1, <1>2, <1>5, <2>2
  <2>3. CASE i \in 1..n /\ j = n + 1
    BY <1>1, <1>2, <1>5, <2>3
  <2> QED BY <1>3, <2>1, <2>2, <2>3
<1> QED BY <1>4, <1>5 DEF Distinct

\* Where each session is.
LEMMA KeepsPlaces ==
  ASSUME IInv, [Next]_vars
  PROVE  Places'
<1>1. TypeOK /\ Places /\ Typed
  BY DEF IInv, TypeOK, Typed
<1>2. ASSUME UNCHANGED <<plan, turn, queue>>, loop' \in {loop, "ended"},
             \A x \in Sessions : Ends(x),
             \A x \in Sessions : wire'[x] # "none" => wire[x] # "none"
      PROVE  Places'
  <2>1. \A i \in 1..Len(queue) : queue[i] \in Sessions
    BY <1>1, ElementOfSeq DEF TypeOK
  <2>2. \A x \in Sessions : wire'[x] # "none" => task'[x] = "none"
    BY <1>1, <1>2 DEF Places, Ends
  <2>3. \A i \in 1..Len(queue') :
          task'[queue'[i]] = "none" /\ wire'[queue'[i]] = "none" /\ turn'[queue'[i]] > 0
    BY <1>1, <1>2, <2>1 DEF Places, Ends
  <2>4. /\ \A x \in Sessions : task'[x] \in {"new", "session"} => IsStart(x)'
        /\ \A x \in Sessions :
             plan'.strategy = "rate" /\ task'[x] = "timer" => ~IsStart(x)'
    BY <1>1, <1>2 DEF Places, IsStart, Ends
  <2> QED BY <1>1, <1>2, <2>2, <2>3, <2>4 DEF Places
<1>3. CASE Issues
  <2>1. PICK s \in Sessions : IssueStep(s)
    BY <1>3, IssueSteps DEF IInv, Issues
  <2>2. /\ wire[s] = "none" /\ queue' \in Seq(Sessions) /\ Distinct(queue')
        /\ \A i \in 1..Len(queue') : queue'[i] # s /\ InQueue(queue'[i])
        /\ turn' = turn /\ plan' = plan
    BY <2>1 DEF IssueStep, issuerUnchanged
  <2>3. \A x \in Sessions : x # s => task'[x] = task[x] /\ wire'[x] = wire[x]
    BY <1>1, <2>1 DEF IssueStep, Sends, Refuses, Parks, Typed, TypeOK
  <2>4. /\ wire'[s] # "none" => task'[s] = "none"
        /\ task'[s] \in {"none", "prefill", "session"}
        /\ task'[s] = "session" => IsStart(s)
    BY <1>1, <2>1, <2>2 DEF IssueStep, Sends, Refuses, Parks, Typed, TypeOK
  <2>5. \A i \in 1..Len(queue') : \E j \in 1..Len(queue) :
          queue'[i] = queue[j] /\ queue'[i] \in Sessions
    BY <2>2, ElementOfSeq DEF InQueue
  <2>6. \A i \in 1..Len(queue') :
          task'[queue'[i]] = "none" /\ wire'[queue'[i]] = "none" /\ turn'[queue'[i]] > 0
    BY <1>1, <2>2, <2>3, <2>5 DEF Places
  <2>8. \A x \in Sessions : wire'[x] # "none" => task'[x] = "none"
    BY <1>1, <2>3, <2>4 DEF Places
  <2>9. /\ \A x \in Sessions : task'[x] \in {"new", "session"} => IsStart(x)'
        /\ \A x \in Sessions :
             plan'.strategy = "rate" /\ task'[x] = "timer" => ~IsStart(x)'
    BY <1>1, <2>2, <2>3, <2>4 DEF Places, IsStart
  <2> QED BY <2>2, <2>6, <2>8, <2>9 DEF Places
<1>4. ASSUME NEW s \in Sessions, QueueDelayed(s)
      PROVE  Places'
  <2>1. /\ plan.strategy = "rate" /\ task[s] = "timer"
        /\ task' = [task EXCEPT ![s] = "none"] /\ queue' = Append(queue, s)
        /\ UNCHANGED <<turn, wire, loop, plan>>
    BY <1>4 DEF QueueDelayed
  <2>2. wire[s] = "none" /\ turn[s] > 0
    BY <1>1, <2>1 DEF Places, IsStart, Typed
  <2>3. ~InQueue(s)
    BY <1>1, <2>1 DEF InQueue, Places
  <2>4. /\ Distinct(queue')
        /\ \A i \in 1..Len(queue') : queue'[i] = s \/ InQueue(queue'[i])
    BY <1>1, <2>1, <2>3, Appended DEF Places
  <2>5. \A x : x # s => task'[x] = task[x]
    BY <1>1, <2>1 DEF Typed
  <2>6. task'[s] = "none"
    BY <1>1, <2>1 DEF Typed
  <2>7. \A i \in 1..Len(queue') :
          task'[queue'[i]] = "none" /\ wire'[queue'[i]] = "none" /\ turn'[queue'[i]] > 0
    BY <1>1, <2>1, <2>2, <2>4, <2>5, <2>6 DEF Places, InQueue
  <2>8. \A x \in Sessions : task'[x] \in {task[x], "none"}
    BY <2>5, <2>6
  <2> QED BY <1>1, <2>1, <2>4, <2>7, <2>8 DEF Places, IsStart
<1>5. ASSUME NEW s \in Sessions, CreditReturns(s)
      PROVE  Places'
  <2>1. PICK n \in Nat : Returns(s, n)
    BY <1>1, <1>5, ReturnSteps DEF IInv
  <2>2. /\ wire' = [wire EXCEPT ![s] = "none"] /\ wire[s] # "none"
        /\ UNCHANGED <<loop, plan>>
        /\ UNCHANGED <<turn, task, queue>> \/ (~IsLastTurn(s) /\ NextTurn(s))
    BY <2>1 DEF Returns
  <2>3. \A x \in Sessions : wire'[x] # "none" => wire[x] # "none" /\ x # s
    BY <1>1, <2>2 DEF TypeOK
  <2>4. CASE UNCHANGED <<turn, task, queue>>
    BY <1>2, <2>2, <2>3, <2>4 DEF Ends
  <2>5. CASE NextTurn(s)
    <3>1. task[s] = "none" /\ ~InQueue(s)
      BY <1>1, <2>2 DEF Places, InQueue
    <3>2. /\ turn'[s] > 0 /\ \A x \in Sessions : x # s => turn'[x] = turn[x]
      BY <1>1, <2>5 DEF NextTurn, Typed
    <3>3. /\ \A x \in Sessions : x # s => task'[x] = task[x]
          /\ task'[s] \in {"none", "timer", "ready"}
          /\ queue' = queue \/ (queue' = Append(queue, s) /\ task'[s] = "none")
      BY <1>1, <2>5, <3>1 DEF NextTurn, Typed
    <3>4. /\ Distinct(queue')
          /\ \A i \in 1..Len(queue') :
               (queue'[i] = s /\ task'[s] = "none") \/ InQueue(queue'[i])
      <4>1. CASE queue' = queue
        BY <1>1, <4>1 DEF Places, InQueue
      <4>2. CASE queue' = Append(queue, s) /\ task'[s] = "none"
        BY <1>1, <3>1, <4>2, Appended DEF Places
      <4> QED BY <3>3, <4>1, <4>2
    <3>5. \A i \in 1..Len(queue) : queue[i] \in Sessions
      BY <1>1, ElementOfSeq DEF TypeOK
    <3>6. wire'[s] = "none" /\ \A x \in Sessions : x # s => wire'[x] = wire[x]
      BY <1>1, <2>2 DEF TypeOK
    <3>7. ASSUME NEW i \in 1..Len(queue')
          PROVE  /\ task'[queue'[i]] = "none" /\ wire'[queue'[i]] = "none"
                 /\ turn'[queue'[i]] > 0
      <4>1. CASE queue'[i] = s /\ task'[s] = "none"
        BY <3>2, <3>6, <4>1
      <4>2. CASE InQueue(queue'[i])
        <5>1. PICK j \in 1..Len(queue) : queue[j] = queue'[i]
          BY <4>2 DEF InQueue
        <5>2. queue[j] # s /\ queue[j] \in Sessions
          BY <3>1, <3>5 DEF InQueue
        <5> QED BY <1>1, <3>2, <3>3, <3>6, <5>1, <5>2 DEF Places
      <4> QED BY <3>4, <4>1, <4>2
    <3>8. \A x \in Sessions : wire'[x] # "none" => task'[x] = "none"
      BY <1>1, <2>3, <3>3 DEF Places
    <3>9. \A x \in Sessions : task'[x] \in {"new", "session"} => IsStart(x)'
      BY <1>1, <3>2, <3>3 DEF Places, IsStart
    <3>10. \A x \in Sessions :
             plan'.strategy = "rate" /\ task'[x] = "timer" => ~IsStart(x)'
      BY <1>1, <2>2, <3>2, <3>3 DEF Places, IsStart
    <3> QED BY <1>1, <2>2, <3>4, <3>7, <3>8, <3>9, <3>10 DEF Places
  <2> QED BY <2>2, <2>4, <2>5
<1>6. ASSUME NEW s \in Sessions, LateReturn(s) \/ FirstToken(s)
      PROVE  Places'
  <2>1. /\ UNCHANGED <<plan, turn, queue, loop, task>>
        /\ \A x \in Sessions : wire'[x] # "none" => wire[x] # "none"
    BY <1>1, <1>6 DEF LateReturn, FirstToken, TypeOK
  <2> QED BY <1>2, <2>1 DEF Ends
<1>7. CASE \/ LeaveLoop \/ WorkersCrash \/ AfterSending \/ AllCreditsBack
           \/ CancelInFlight \/ ForceCompletion \/ TimePasses \/ UNCHANGED vars
  <2>1. /\ UNCHANGED <<plan, turn, queue, task>> /\ loop' \in {loop, "ended"}
        /\ \A x \in Sessions : wire'[x] # "none" => wire[x] # "none"
    BY <1>7 DEF LeaveLoop, WorkersCrash, AfterSending, AllCreditsBack, CancelInFlight,
         ForceCompletion, TimePasses, vars, issueVars
  <2> QED BY <1>2, <2>1 DEF Ends
<1>8. CASE StopSending
  <2>1. loop' \in {loop, "ended"} /\ \A x \in Sessions : Ends(x)
    BY <1>8, StopSendingTasks DEF IInv
  <2>2. UNCHANGED <<plan, turn, queue, wire>>
    BY <1>8 DEF StopSending
  <2> QED BY <1>2, <2>1, <2>2
<1>9. CASE Close \/ Cancel
  <2>1. loop' \in {loop, "ended"} /\ \A x \in Sessions : Ends(x)
    BY <1>9, ClosingTasks DEF IInv, Ends
  <2>2. UNCHANGED <<plan, turn, queue, wire>>
    BY <1>9 DEF Close, Cancel
  <2> QED BY <1>2, <2>1, <2>2
<1> QED BY <1>3, <1>4, <1>5, <1>6, <1>7, <1>8, <1>9, NextSteps

\* Requests and sessions in flight.
LEMMA KeepsCounted ==
  ASSUME IInv, [Next]_vars
  PROVE  Counted'
<1>1. TypeOK /\ Typed /\ Places /\ Counted /\ counter \in CounterType
  BY DEF IInv, TypeOK, Typed, CounterType
<1>2. /\ counter.sent \in Nat /\ counter.returned \in Nat
      /\ counter.sessions \in Nat /\ counter.ended \in Nat
  BY <1>1 DEF CounterType
<1>3. /\ IsFiniteSet(Wired) /\ IsFiniteSet(Active)
      /\ Cardinality(Wired) \in Nat /\ Cardinality(Active) \in Nat
  BY FiniteSets
<1>4. /\ Wired' \subseteq Wired => Cardinality(Wired') <= Cardinality(Wired)
      /\ Active' \subseteq Active => Cardinality(Active') <= Cardinality(Active)
  BY <1>3, FS_Subset
<1>5. Cardinality(Wired') \in Nat /\ Cardinality(Active') \in Nat
  <2>1. Wired' \subseteq Sessions /\ Active' \subseteq Sessions
    BY DEF Wired, Active
  <2> QED BY <2>1, SessionsAssumption, FS_Subset, FS_CardinalityType
<1>6. ASSUME UNCHANGED plan,
             counter'.cap = counter.cap, counter'.target = counter.target,
             counter'.sent = counter.sent, counter'.returned = counter.returned,
             counter'.sessions = counter.sessions, counter'.ended = counter.ended,
             Wired' \subseteq Wired, Active' \subseteq Active
      PROVE  Counted'
  <2>1. Cardinality(Wired') <= Cardinality(Wired) /\ Cardinality(Active') <= Cardinality(Active)
    BY <1>4, <1>6
  <2> QED BY <1>1, <1>2, <1>3, <1>5, <1>6, <2>1 DEF Counted, InFlightSessions
<1>7. CASE Issues
  <2>1. PICK s \in Sessions : IssueStep(s)
    BY <1>7, IssueSteps DEF IInv, Issues
  <2>2. /\ wire[s] = "none" /\ (IsStart(s) \/ Goes(s))
        /\ \A i \in 1..Len(queue') : queue'[i] # s /\ InQueue(queue'[i])
        /\ turn' = turn /\ plan' = plan
    BY <2>1 DEF IssueStep, issuerUnchanged
  <2>3. \A x \in Sessions : InQueue(x)' => InQueue(x) /\ x # s
    BY <2>2 DEF InQueue
  <2>4. \A x \in Sessions : x # s => task'[x] = task[x] /\ wire'[x] = wire[x]
    BY <1>1, <2>1 DEF IssueStep, Sends, Refuses, Parks, Typed, TypeOK
  <2>5. \A x \in Sessions : x # s => (Goes(x)' => Goes(x))
    BY <2>2, <2>3, <2>4 DEF Goes
  <2>6. CASE Sends(s)
    <3>1. /\ Wired' \subseteq Wired \cup {s} /\ s \notin Wired
          /\ Active' \subseteq Active \cup {s}
      BY <2>2, <2>4, <2>5 DEF Wired, Active
    <3>2. Cardinality(Wired') <= Cardinality(Wired) + 1
      <4>1. /\ IsFiniteSet(Wired \cup {s})
            /\ Cardinality(Wired \cup {s}) = Cardinality(Wired) + 1
        BY <1>3, <3>1, FS_AddElement
      <4> QED BY <3>1, <4>1, FS_Subset
    <3>3. /\ counter'.cap = counter.cap /\ counter'.target = counter.target
          /\ counter'.sent = counter.sent + 1
          /\ counter'.sessions = counter.sessions + (IF IsStart(s) THEN 1 ELSE 0)
          /\ counter'.returned = counter.returned /\ counter'.ended = counter.ended
      BY <1>1, <2>6, SentCounters
    <3>4. counter'.returned + Cardinality(Wired') <= counter'.sent
      BY <1>1, <1>2, <1>3, <1>5, <3>2, <3>3 DEF Counted
    <3>5. Cardinality(Active') <= InFlightSessions(counter')
      <4>1. CASE IsStart(s)
        <5>1. s \notin Active
          BY <1>1, <2>2, <4>1 DEF Active, Goes, IsStart
        <5>2. /\ IsFiniteSet(Active \cup {s})
              /\ Cardinality(Active \cup {s}) = Cardinality(Active) + 1
          BY <1>3, <5>1, FS_AddElement
        <5>3. Cardinality(Active') <= Cardinality(Active) + 1
          BY <3>1, <5>2, FS_Subset
        <5> QED BY <1>1, <1>2, <1>3, <1>5, <3>3, <4>1, <5>3
                DEF Counted, InFlightSessions
      <4>2. CASE ~IsStart(s)
        <5>1. Active' \subseteq Active
          BY <2>2, <3>1, <4>2 DEF Active
        <5>2. counter'.sessions = counter.sessions
          BY <1>2, <3>3, <4>2
        <5> QED BY <1>1, <1>2, <1>3, <1>4, <1>5, <3>3, <5>1, <5>2
                DEF Counted, InFlightSessions
      <4> QED BY <4>1, <4>2
    <3> QED BY <1>1, <2>2, <3>3, <3>4, <3>5 DEF Counted
  <2>7. CASE Refuses(s) \/ Parks(s, "prefill") \/ Parks(s, "session")
    <3>1. counter' = counter /\ wire' = wire
      BY <2>7 DEF Refuses, Parks
    <3>2. Wired' \subseteq Wired
      BY <3>1 DEF Wired
    <3>3. Goes(s)' => Goes(s)
      BY <1>1, <2>2, <3>1 DEF Goes, IsStart, Typed
    <3>4. Active' \subseteq Active
      BY <2>5, <3>3 DEF Active
    <3> QED BY <1>6, <2>2, <3>1, <3>2, <3>4
  <2> QED BY <2>1, <2>6, <2>7 DEF IssueStep
<1>8. ASSUME NEW s \in Sessions, QueueDelayed(s)
      PROVE  Counted'
  <2>1. /\ task[s] = "timer" /\ task' = [task EXCEPT ![s] = "none"]
        /\ queue' = Append(queue, s)
        /\ UNCHANGED <<turn, wire, counter, plan>>
    BY <1>8 DEF QueueDelayed
  <2>2. ~InQueue(s)
    BY <1>1, <2>1 DEF InQueue, Places
  <2>3. \A i \in 1..Len(queue') : queue'[i] = s \/ InQueue(queue'[i])
    BY <1>1, <2>1, <2>2, Appended DEF Places
  <2>4. \A x \in Sessions : Goes(x)' => Goes(x)
    BY <1>1, <2>1, <2>3 DEF Goes, InQueue, Typed
  <2>5. Wired' \subseteq Wired /\ Active' \subseteq Active
    BY <2>1, <2>4 DEF Wired, Active
  <2> QED BY <1>6, <2>1, <2>5
<1>9. ASSUME NEW s \in Sessions, CreditReturns(s)
      PROVE  Counted'
  <2>1. PICK n \in Nat : Returns(s, n)
    BY <1>1, <1>9, ReturnSteps DEF IInv
  <2>2. /\ wire' = [wire EXCEPT ![s] = "none"] /\ wire[s] # "none" /\ plan' = plan
        /\ UNCHANGED <<turn, task, queue>> \/ (~IsLastTurn(s) /\ NextTurn(s))
        /\ counter'.cap = counter.cap /\ counter'.target = counter.target
        /\ counter'.sent = counter.sent /\ counter'.sessions = counter.sessions
        /\ counter'.returned = counter.returned + 1
        /\ counter'.ended = counter.ended + (IF IsLastTurn(s) THEN 1 ELSE 0)
    BY <2>1 DEF Returns
  <2>3. task[s] = "none" /\ ~InQueue(s)
    BY <1>1, <2>2 DEF Places, InQueue
  <2>4. wire'[s] = "none" /\ \A x \in Sessions : x # s => wire'[x] = wire[x]
    BY <1>1, <2>2 DEF TypeOK
  <2>5. counter'.returned + Cardinality(Wired') <= counter'.sent
    <3>1. Wired' = Wired \ {s} /\ s \in Wired
      BY <2>2, <2>4 DEF Wired
    <3>2. Cardinality(Wired') = Cardinality(Wired) - 1
      BY <1>3, <3>1, FS_RemoveElement
    <3> QED BY <1>1, <1>2, <1>3, <2>2, <3>2 DEF Counted
  <2>6. \A x \in Sessions : x # s => (Goes(x)' => Goes(x))
    <3>1. CASE UNCHANGED <<turn, task, queue>>
      BY <2>4, <3>1 DEF Goes, InQueue
    <3>2. CASE NextTurn(s)
      <4>1. \A x \in Sessions : x # s => task'[x] = task[x] /\ turn'[x] = turn[x]
        BY <1>1, <3>2 DEF NextTurn, Typed
      <4>2. \A x \in Sessions : x # s => (InQueue(x)' => InQueue(x))
        <5>1. CASE queue' = queue
          BY <5>1 DEF InQueue
        <5>2. CASE queue' = Append(queue, s)
          <6>1. \A i \in 1..Len(queue') : queue'[i] = s \/ InQueue(queue'[i])
            BY <1>1, <2>3, <5>2, Appended DEF Places
          <6> QED BY <6>1 DEF InQueue
        <5> QED BY <3>2, <5>1, <5>2 DEF NextTurn
      <4> QED BY <2>4, <4>1, <4>2 DEF Goes
    <3> QED BY <2>2, <3>1, <3>2
  <2>7. s \in Active
    BY <2>2 DEF Active, Goes
  <2>8. CASE IsLastTurn(s)
    <3>1. ~Goes(s)'
      BY <2>2, <2>3, <2>4, <2>8 DEF Goes, InQueue
    <3>2. Active' \subseteq Active \ {s}
      BY <2>6, <3>1 DEF Active
    <3>3. /\ IsFiniteSet(Active \ {s})
          /\ Cardinality(Active \ {s}) = Cardinality(Active) - 1
      BY <1>3, <2>7, FS_RemoveElement
    <3>4. Cardinality(Active') <= Cardinality(Active) - 1
      BY <3>2, <3>3, FS_Subset
    <3> QED BY <1>1, <1>2, <1>3, <1>5, <2>2, <2>5, <2>8, <3>4
            DEF Counted, InFlightSessions
  <2>9. CASE ~IsLastTurn(s)
    <3>1. Active' \subseteq Active
      BY <2>6, <2>7 DEF Active
    <3>2. counter'.ended = counter.ended
      BY <1>2, <2>2, <2>9
    <3> QED BY <1>1, <1>2, <1>3, <1>4, <1>5, <2>2, <2>5, <3>1, <3>2
            DEF Counted, InFlightSessions
  <2> QED BY <2>8, <2>9
<1>10. ASSUME NEW s \in Sessions, LateReturn(s) \/ FirstToken(s)
       PROVE  Counted'
  <2>1. /\ UNCHANGED <<plan, turn, queue, task>>
        /\ \A x \in Sessions : wire'[x] # "none" => wire[x] # "none"
    BY <1>1, <1>10 DEF LateReturn, FirstToken, TypeOK
  <2>2. Wired' \subseteq Wired /\ Active' \subseteq Active
    BY <2>1 DEF Wired, Active, Goes, InQueue
  <2>3. counter' \in {counter, AfterPrefillReleased(counter)}
    BY <1>10 DEF LateReturn, FirstToken
  <2>4. AfterPrefillReleased(counter) = [counter EXCEPT !.prefills = counter.prefills + 1]
    BY <1>1, ReturnedCounters
  <2>5. /\ counter'.cap = counter.cap /\ counter'.target = counter.target
        /\ counter'.sent = counter.sent /\ counter'.returned = counter.returned
        /\ counter'.sessions = counter.sessions /\ counter'.ended = counter.ended
    BY <1>1, <2>3, <2>4 DEF CounterType
  <2> QED BY <1>6, <2>1, <2>2, <2>5
<1>11. CASE \/ LeaveLoop \/ WorkersCrash \/ AfterSending \/ AllCreditsBack
            \/ CancelInFlight \/ ForceCompletion \/ TimePasses \/ UNCHANGED vars
  <2>1. /\ UNCHANGED <<plan, turn, queue, task, counter>>
        /\ \A x \in Sessions : wire'[x] # "none" => wire[x] # "none"
    BY <1>11 DEF LeaveLoop, WorkersCrash, AfterSending, AllCreditsBack, CancelInFlight,
         ForceCompletion, TimePasses, vars, issueVars
  <2>2. Wired' \subseteq Wired /\ Active' \subseteq Active
    BY <2>1 DEF Wired, Active, Goes, InQueue
  <2> QED BY <1>6, <2>1, <2>2
<1>12. CASE StopSending
  <2>1. \A x \in Sessions : Ends(x)
    BY <1>12, StopSendingTasks DEF IInv
  <2>2. UNCHANGED <<plan, turn, queue, wire>> /\ counter' = FreezeSent(counter)
    BY <1>12 DEF StopSending
  <2>3. Wired' \subseteq Wired /\ Active' \subseteq Active
    BY <2>1, <2>2 DEF Wired, Active, Goes, InQueue, Ends
  <2>4. counter' = [counter EXCEPT !.finalSent = counter.sent]
    BY <1>1, <2>2, ReturnedCounters
  <2>5. /\ counter'.cap = counter.cap /\ counter'.target = counter.target
        /\ counter'.sent = counter.sent /\ counter'.returned = counter.returned
        /\ counter'.sessions = counter.sessions /\ counter'.ended = counter.ended
    BY <1>1, <2>4 DEF CounterType
  <2> QED BY <1>6, <2>2, <2>3, <2>5
<1>13. CASE Close \/ Cancel
  <2>1. /\ UNCHANGED <<plan, turn, queue, wire, counter>>
        /\ \A x \in Sessions : task'[x] \in {task[x], "none"}
    BY <1>13, ClosingTasks DEF IInv, Close, Cancel
  <2>2. Wired' \subseteq Wired /\ Active' \subseteq Active
    BY <2>1 DEF Wired, Active, Goes, InQueue
  <2> QED BY <1>6, <2>1, <2>2
<1> QED BY <1>7, <1>8, <1>9, <1>10, <1>11, <1>12, <1>13, NextSteps

\* The runner, the lifecycle and the clock.
LEMMA KeepsStages ==
  ASSUME IInv, [Next]_vars
  PROVE  Stages'
<1>1. Stages /\ TypeOK
  BY DEF IInv
<1>2. ASSUME UNCHANGED <<plan, lifecycle, runner, clock, forced>>,
             sentEvent => sentEvent', doneEvent => doneEvent'
      PROVE  Stages'
  BY <1>1, <1>2 DEF Stages, PhaseComplete
<1>3. CASE Issues
  <2>1. PICK s \in Sessions : IssueStep(s)
    BY <1>3, IssueSteps DEF IInv, Issues
  <2>2. UNCHANGED <<plan, lifecycle, runner, clock, forced, doneEvent>>
    BY <2>1 DEF IssueStep, issuerUnchanged
  <2>3. sentEvent => sentEvent'
    BY <2>1 DEF IssueStep, Sends, Refuses, Parks
  <2> QED BY <1>2, <2>2, <2>3
<1>4. ASSUME NEW s \in Sessions, CreditReturns(s)
      PROVE  Stages'
  <2>1. /\ UNCHANGED <<plan, lifecycle, runner, clock, forced, sentEvent>>
        /\ doneEvent => doneEvent'
    BY <1>4 DEF CreditReturns
  <2> QED BY <1>2, <2>1
<1>5. ASSUME NEW s \in Sessions, QueueDelayed(s) \/ LateReturn(s) \/ FirstToken(s)
      PROVE  Stages'
  BY <1>2, <1>5 DEF QueueDelayed, LateReturn, FirstToken, runVars
<1>6. CASE LeaveLoop \/ WorkersCrash \/ UNCHANGED vars
  BY <1>2, <1>6 DEF LeaveLoop, WorkersCrash, vars, runVars
<1>7. CASE StopSending
  <2>1. /\ lifecycle'.state = "sending_complete" /\ lifecycle'.cancelled = lifecycle.cancelled
    BY <1>1, <1>7 DEF StopSending, TypeOK
  <2> QED BY <1>1, <1>7, <2>1 DEF Stages, PhaseComplete, StopSending
<1>8. CASE AfterSending \/ AllCreditsBack \/ ForceCompletion
  <2>1. \/ UNCHANGED lifecycle
        \/ lifecycle'.state = "complete" /\ lifecycle'.cancelled = lifecycle.cancelled
    BY <1>1, <1>8 DEF AfterSending, AllCreditsBack, ForceCompletion, MarkComplete, TypeOK
  <2>2. CASE AfterSending
    BY <1>1, <2>1, <2>2 DEF Stages, PhaseComplete, AfterSending, MarkComplete, TypeOK
  <2>3. CASE AllCreditsBack
    BY <1>1, <2>1, <2>3 DEF Stages, PhaseComplete, AllCreditsBack, MarkComplete, TypeOK
  <2>4. CASE ForceCompletion
    BY <1>1, <2>1, <2>4 DEF Stages, PhaseComplete, ForceCompletion, MarkComplete, TypeOK
  <2> QED BY <1>8, <2>2, <2>3, <2>4
<1>9. CASE CancelInFlight
  BY <1>1, <1>9 DEF Stages, PhaseComplete, CancelInFlight, GraceOver
<1>10. CASE Close
  BY <1>1, <1>10 DEF Stages, PhaseComplete, Close
<1>11. CASE Cancel
  <2>1. lifecycle'.state = lifecycle.state
    BY <1>1, <1>11 DEF Cancel, TypeOK
  <2> QED BY <1>1, <1>11, <2>1 DEF Stages, PhaseComplete, Cancel
<1>12. CASE TimePasses
  BY <1>1, <1>12 DEF Stages, PhaseComplete, TimePasses, runVars
<1> QED BY <1>3, <1>4, <1>5, <1>6, <1>7, <1>8, <1>9, <1>10, <1>11, <1>12, NextSteps

\* The final number of requests and the two events.
LEMMA KeepsSignals ==
  ASSUME IInv, [Next]_vars
  PROVE  Signals'
<1>1. TypeOK /\ Typed /\ Counted /\ Stages /\ Signals /\ counter \in CounterType
  BY DEF IInv, TypeOK, Typed, CounterType
<1>2. /\ counter.sent \in Nat /\ counter.returned \in Nat
      /\ counter.finalSent \in Nat \cup {NotFrozen} /\ NotFrozen \notin Nat
      /\ Cardinality(Wired) \in Nat
  BY <1>1, FiniteSets DEF CounterType, NotFrozen
<1>3. ASSUME UNCHANGED <<plan, lifecycle, sentEvent, doneEvent, forced>>,
             counter'.sent = counter.sent, counter'.returned = counter.returned,
             counter'.finalSent = counter.finalSent, NothingLeft' <=> NothingLeft
      PROVE  Signals'
  BY <1>1, <1>3 DEF Signals, IsFrozen, AllReturned
<1>4. counter' = counter => (NothingLeft' <=> NothingLeft)
  BY DEF NothingLeft
<1>5. CASE Issues
  <2>1. PICK s \in Sessions : IssueStep(s)
    BY <1>5, IssueSteps DEF IInv, Issues
  <2>2. UNCHANGED <<plan, lifecycle, doneEvent, forced>>
    BY <2>1 DEF IssueStep, issuerUnchanged
  <2>3. CASE Sends(s)
    <3>1. /\ ~IsFrozen /\ ~lifecycle.cancelled /\ lifecycle.state = "started"
          /\ ~doneEvent
      BY <1>1, <2>3, SendsInTime
    <3>2. /\ counter'.sent = counter.sent + 1 /\ counter'.returned = counter.returned
          /\ IF NothingLeft' THEN counter'.finalSent = counter'.sent
                             ELSE counter'.finalSent = counter.finalSent
          /\ sentEvent' = (sentEvent \/ NothingLeft')
      BY <1>1, <2>3, SentCounters
    <3>3. ~sentEvent
      BY <1>1, <3>1 DEF Signals
    <3>4. /\ IsFrozen' <=> NothingLeft'
          /\ NothingLeft' => counter'.finalSent = counter'.sent
      BY <1>2, <3>1, <3>2 DEF IsFrozen
    <3>5. ~AllReturned(counter')
      BY <1>1, <1>2, <3>2, <3>4 DEF AllReturned, IsFrozen, Counted
    <3> QED BY <2>2, <3>1, <3>2, <3>3, <3>4, <3>5 DEF Signals
  <2>4. CASE Refuses(s) \/ Parks(s, "prefill") \/ Parks(s, "session")
    BY <1>3, <1>4, <2>2, <2>4 DEF Refuses, Parks
  <2> QED BY <2>1, <2>3, <2>4 DEF IssueStep
<1>6. ASSUME NEW s \in Sessions, CreditReturns(s)
      PROVE  Signals'
  <2>1. PICK n \in Nat : Returns(s, n)
    BY <1>1, <1>6, ReturnSteps DEF IInv
  <2>2. /\ UNCHANGED <<plan, lifecycle, sentEvent, forced>>
        /\ counter'.sent = counter.sent /\ counter'.returned = counter.returned + 1
        /\ counter'.finalSent = counter.finalSent /\ (NothingLeft' <=> NothingLeft)
        /\ doneEvent' = (doneEvent \/ AllReturned(counter'))
    BY <2>1 DEF Returns
  <2>3. /\ IsFrozen' <=> IsFrozen
        /\ AllReturned(counter) => AllReturned(counter')
    BY <1>2, <2>2 DEF IsFrozen, AllReturned
  <2> QED BY <1>1, <2>2, <2>3 DEF Signals
<1>7. ASSUME NEW s \in Sessions, QueueDelayed(s) \/ LateReturn(s)
      PROVE  Signals'
  BY <1>3, <1>4, <1>7 DEF QueueDelayed, LateReturn, runVars
<1>8. ASSUME NEW s \in Sessions, FirstToken(s)
      PROVE  Signals'
  <2>1. /\ UNCHANGED <<plan, lifecycle, sentEvent, doneEvent, forced>>
        /\ counter' = [counter EXCEPT !.prefills = counter.prefills + 1]
    BY <1>1, <1>8, ReturnedCounters DEF FirstToken, runVars
  <2>2. /\ counter'.sent = counter.sent /\ counter'.returned = counter.returned
        /\ counter'.finalSent = counter.finalSent /\ counter'.cap = counter.cap
        /\ counter'.target = counter.target /\ counter'.sessions = counter.sessions
        /\ counter'.rootSent = counter.rootSent /\ counter'.turns = counter.turns
    BY <1>1, <2>1 DEF CounterType
  <2>3. NothingLeft' <=> NothingLeft
    BY <2>2 DEF NothingLeft, CrossesRequestCap, CrossesSessionTarget
  <2> QED BY <1>3, <2>1, <2>2, <2>3
<1>9. CASE LeaveLoop \/ WorkersCrash \/ TimePasses \/ Close \/ UNCHANGED vars
  BY <1>3, <1>4, <1>9 DEF LeaveLoop, WorkersCrash, TimePasses, Close, vars, runVars
<1>10. CASE StopSending
  <2>1. /\ UNCHANGED <<plan, doneEvent, forced>>
        /\ lifecycle'.state = "sending_complete" /\ lifecycle'.cancelled = lifecycle.cancelled
        /\ counter' = [counter EXCEPT !.finalSent = counter.sent]
    BY <1>1, <1>10, ReturnedCounters DEF StopSending, TypeOK
  <2>2. /\ counter'.sent = counter.sent /\ counter'.returned = counter.returned
        /\ counter'.finalSent = counter.sent
    BY <1>1, <2>1 DEF CounterType
  <2>3. IsFrozen' /\ (AllReturned(counter) => AllReturned(counter'))
    BY <1>1, <1>2, <2>2 DEF IsFrozen, AllReturned, Signals
  <2>4. ASSUME ~plan.timed, ~lifecycle.cancelled, AllReturned(counter')
        PROVE  doneEvent
    <3>1. sentEvent
      BY <1>1, <1>10, <2>4 DEF StopSending, Stages
    <3>2. AllReturned(counter)
      BY <1>1, <1>2, <2>2, <2>4, <3>1 DEF Signals, IsFrozen, AllReturned
    <3> QED BY <1>1, <2>4, <3>2 DEF Signals
  <2>5. ASSUME ~plan.timed, ~lifecycle.cancelled
        PROVE  NothingLeft'
    <3>1. sentEvent /\ lifecycle.state = "started"
      BY <1>1, <1>10, <2>5 DEF StopSending, Stages
    <3>2. NothingLeft
      BY <1>1, <2>5, <3>1 DEF Signals
    <3>3. /\ counter'.cap = counter.cap /\ counter'.target = counter.target
          /\ counter'.sessions = counter.sessions /\ counter'.turns = counter.turns
          /\ counter'.rootSent = counter.rootSent
      BY <1>1, <2>1 DEF CounterType
    <3> QED BY <2>2, <3>2, <3>3 DEF NothingLeft, CrossesRequestCap, CrossesSessionTarget
  <2> QED BY <1>1, <2>1, <2>2, <2>3, <2>4, <2>5 DEF Signals
<1>11. CASE AfterSending \/ AllCreditsBack \/ ForceCompletion \/ CancelInFlight
  <2>1. /\ UNCHANGED <<plan, counter, sentEvent>>
        /\ lifecycle'.cancelled = lifecycle.cancelled
        /\ IsFrozen
        /\ lifecycle'.state # "started"
    BY <1>1, <1>11 DEF AfterSending, AllCreditsBack, ForceCompletion, CancelInFlight,
         MarkComplete, TypeOK, Stages, Signals, PhaseComplete
  <2>2. /\ doneEvent => doneEvent'
        /\ doneEvent' => lifecycle.cancelled \/ forced' \/ AllReturned(counter)
    <3>1. CASE AfterSending
      <4>1. /\ forced' <=> forced
            /\ \/ doneEvent' /\ (lifecycle.cancelled \/ AllReturned(counter))
               \/ doneEvent' <=> doneEvent
        BY <3>1 DEF AfterSending
      <4> QED BY <1>1, <4>1, Zenon DEF Signals
    <3>2. CASE AllCreditsBack
      BY <1>1, <3>2, Zenon DEF AllCreditsBack, Signals
    <3>3. CASE ForceCompletion
      BY <3>3, Zenon DEF ForceCompletion
    <3>4. CASE CancelInFlight
      BY <1>1, <3>4, Zenon DEF CancelInFlight, Signals
    <3> QED BY <1>11, <3>1, <3>2, <3>3, <3>4
  <2> QED BY <1>1, <1>4, <2>1, <2>2 DEF Signals, IsFrozen, AllReturned
<1>12. CASE Cancel
  <2>1. /\ UNCHANGED <<plan, counter>> /\ lifecycle'.state = lifecycle.state
        /\ lifecycle'.cancelled = TRUE
    BY <1>1, <1>12 DEF Cancel, TypeOK
  <2> QED BY <1>1, <1>4, <2>1 DEF Signals, IsFrozen, AllReturned
<1> QED BY <1>5, <1>6, <1>7, <1>8, <1>9, <1>10, <1>11, <1>12, NextSteps

\* How many slots of a limit are taken.
LEMMA TakenBounds ==
  ASSUME QueuesKept
  PROVE  /\ Taken(session) \in Int /\ Taken(session) <= SessionLimit
         /\ Taken(prefill) \in Int /\ Taken(prefill) <= PrefillLimit
BY LimitFields DEF QueuesKept, Orderly

\* The books of the slots.
LEMMA KeepsSlots ==
  ASSUME IInv, [Next]_vars
  PROVE  Slots'
<1>1. /\ TypeOK /\ Typed /\ Places /\ QueuesKept /\ Counted /\ Stages /\ Signals /\ Slots
      /\ counter \in CounterType
  BY DEF IInv, TypeOK, Typed, CounterType
<1>2. /\ counter.sent \in Nat /\ counter.returned \in Nat /\ counter.prefills \in Nat
      /\ counter.sessions \in Nat /\ counter.ended \in Nat
      /\ SessionLimit \in Nat /\ PrefillLimit \in Nat
  BY <1>1, LimitNumbers DEF CounterType
<1>3. /\ IsFiniteSet(WaitForToken) /\ Cardinality(WaitForToken) \in Nat
      /\ Cardinality(WaitForToken') \in Nat
      /\ WaitForToken' \subseteq WaitForToken
           => Cardinality(WaitForToken') <= Cardinality(WaitForToken)
  <2>1. IsFiniteSet(WaitForToken) /\ Cardinality(WaitForToken) \in Nat
    BY FiniteSets
  <2>2. WaitForToken' \subseteq Sessions
    BY DEF WaitForToken
  <2> QED BY <2>1, <2>2, SessionsAssumption, FS_Subset, FS_CardinalityType
<1>4. /\ Taken(session) \in Int /\ Taken(prefill) \in Int
      /\ Taken(session) <= SessionLimit /\ Taken(prefill) <= PrefillLimit
  BY <1>1, TakenBounds
<1>5. /\ Taken(session') \in Int /\ Taken(prefill') \in Int
      /\ Taken(session') <= SessionLimit /\ Taken(prefill') <= PrefillLimit
  BY KeepsQueues, LimitFields DEF QueuesKept, Orderly
<1>6. /\ Cardinality(Starting) \in Nat /\ SlotsOfSessions \in Int
      /\ SlotsOfSessions <= SessionLimit
  <2>1. Starting \subseteq Sessions
    BY DEF Starting
  <2>2. Cardinality(Starting) \in Nat
    BY <2>1, SessionsAssumption, FS_Subset, FS_CardinalityType
  <2> QED BY <1>2, <1>4, <2>2 DEF SlotsOfSessions
<1>7. /\ Cardinality(Starting') \in Nat /\ SlotsOfSessions' \in Int
      /\ SlotsOfSessions' <= SessionLimit
  <2>1. Starting' \subseteq Sessions
    BY DEF Starting
  <2>2. Cardinality(Starting') \in Nat
    BY <2>1, SessionsAssumption, FS_Subset, FS_CardinalityType
  <2> QED BY <1>2, <1>5, <2>2 DEF SlotsOfSessions
<1>8. ASSUME counter'.sent = counter.sent, counter'.prefills = counter.prefills,
             counter'.sessions = counter.sessions, counter'.ended = counter.ended,
             WaitForToken' \subseteq WaitForToken,
             ~forced' => ~forced, Taken(prefill') = Taken(prefill),
             ~doneEvent' => ~doneEvent /\ SlotsOfSessions' = SlotsOfSessions,
             (~plan'.timed /\ ~lifecycle'.cancelled /\ doneEvent' /\ runner' # "done")
                => /\ ~plan.timed /\ ~lifecycle.cancelled /\ doneEvent /\ runner # "done"
                   /\ SlotsOfSessions' = SlotsOfSessions
      PROVE  Slots'
  <2>1. Cardinality(WaitForToken') <= Cardinality(WaitForToken)
    BY <1>3, <1>8
  <2>2. /\ InFlightSessions(counter') = InFlightSessions(counter)
        /\ InFlightPrefills(counter') = InFlightPrefills(counter)
        /\ InFlightPrefills(counter) \in Int
    BY <1>2, <1>8 DEF InFlightSessions, InFlightPrefills
  <2>3. Cardinality(WaitForToken') <= PrefillLimit
    BY <1>1, <1>2, <1>3, <2>1 DEF Slots
  <2>4. ~forced' => Cardinality(WaitForToken') <= InFlightPrefills(counter')
    BY <1>1, <1>3, <1>8, <2>1, <2>2 DEF Slots
  <2> QED BY <1>1, <1>8, <2>2, <2>3, <2>4 DEF Slots
<1>9. ASSUME UNCHANGED <<turn, task, session>>
      PROVE  SlotsOfSessions' = SlotsOfSessions
  BY <1>9 DEF SlotsOfSessions, Starting, IsStart, Taken
<1>10. wire' = wire => WaitForToken' \subseteq WaitForToken
  BY DEF WaitForToken
<1>11. CASE Issues
  <2>1. PICK s \in Sessions : IssueStep(s)
    BY <1>11, IssueSteps DEF IInv, Issues
  <2>2. UNCHANGED <<plan, lifecycle, runner, doneEvent, forced>>
    BY <2>1 DEF IssueStep, issuerUnchanged
  <2>3. CASE /\ Sends(s)
             /\ SlotsOfSessions' = SlotsOfSessions + One(IsStart(s))
             /\ Taken(prefill') = Taken(prefill) + 1
    <3>1. ~doneEvent /\ ~forced
      BY <1>1, <2>3, SendsInTime
    <3>2. /\ counter'.sent = counter.sent + 1 /\ counter'.prefills = counter.prefills
          /\ counter'.sessions = counter.sessions + One(IsStart(s))
          /\ counter'.ended = counter.ended
      BY <1>1, <2>3, SentCounters DEF One
    <3>3. One(IsStart(s)) \in Nat
      BY DEF One
    <3>4. /\ Taken(prefill') = InFlightPrefills(counter')
          /\ InFlightPrefills(counter') = InFlightPrefills(counter) + 1
          /\ InFlightPrefills(counter) \in Int
      BY <1>1, <1>2, <1>4, <2>3, <3>1, <3>2 DEF Slots, InFlightPrefills
    <3>5. SlotsOfSessions' = InFlightSessions(counter')
      BY <1>1, <1>2, <1>6, <2>3, <3>1, <3>2, <3>3 DEF Slots, InFlightSessions
    <3>6. Cardinality(WaitForToken') <= Cardinality(WaitForToken) + 1
      <4>1. WaitForToken' \subseteq WaitForToken \cup {s}
        BY <1>1, <2>3 DEF WaitForToken, Sends, TypeOK
      <4>2. /\ IsFiniteSet(WaitForToken \cup {s})
            /\ \/ Cardinality(WaitForToken \cup {s}) = Cardinality(WaitForToken)
               \/ Cardinality(WaitForToken \cup {s}) = Cardinality(WaitForToken) + 1
        BY <1>3, FS_AddElement
      <4>3. Cardinality(WaitForToken') <= Cardinality(WaitForToken \cup {s})
        BY <4>1, <4>2, FS_Subset
      <4> QED BY <1>3, <4>2, <4>3
    <3>7. Cardinality(WaitForToken') <= InFlightPrefills(counter')
      BY <1>1, <1>3, <3>1, <3>4, <3>6 DEF Slots
    <3>8. Cardinality(WaitForToken') <= PrefillLimit
      BY <1>2, <1>3, <1>5, <3>4, <3>7
    <3>9. InFlightSessions(counter') <= SessionLimit
      BY <1>7, <3>5
    <3> QED BY <2>2, <3>1, <3>4, <3>5, <3>7, <3>8, <3>9 DEF Slots
  <2>4. CASE /\ Refuses(s) \/ Parks(s, "prefill") \/ Parks(s, "session")
             /\ SlotsOfSessions' = SlotsOfSessions
             /\ Taken(prefill') = Taken(prefill)
    <3>1. counter' = counter /\ wire' = wire
      BY <2>4 DEF Refuses, Parks
    <3> QED BY <1>8, <1>10, <2>2, <2>4, <3>1
  <2> QED BY <2>1, <2>3, <2>4 DEF IssueStep
<1>12. ASSUME NEW s \in Sessions, QueueDelayed(s)
       PROVE  Slots'
  <2>1. /\ task[s] = "timer" /\ task' = [task EXCEPT ![s] = "none"]
        /\ UNCHANGED <<turn, wire, session, prefill, counter, plan,
                       lifecycle, doneEvent, runner, forced>>
    BY <1>12 DEF QueueDelayed, limitVars, runVars
  <2>2. "none" # "prefill" /\ "timer" # "prefill"
    OBVIOUS
  <2>3. Cardinality(Starting') = Cardinality(Starting)
    BY <1>1, <2>1, <2>2, StartingSame, "none" # "stranded", "timer" # "stranded"
  <2>4. SlotsOfSessions' = SlotsOfSessions /\ Taken(prefill') = Taken(prefill)
    BY <2>1, <2>3 DEF SlotsOfSessions, Taken
  <2> QED BY <1>8, <1>10, <2>1, <2>4
<1>13. ASSUME NEW s \in Sessions, CreditReturns(s)
       PROVE  Slots'
  <2>1. PICK n \in Nat : Returns(s, n)
    BY <1>1, <1>13, ReturnSteps
  <2> DEFINE last == IF IsLastTurn(s) THEN 1 ELSE 0
             first == IF WithoutToken(s) THEN 1 ELSE 0
  <2>2. /\ UNCHANGED <<plan, lifecycle, forced, runner>> /\ ~PhaseComplete
        /\ counter'.sent = counter.sent /\ counter'.sessions = counter.sessions
        /\ counter'.finalSent = counter.finalSent
        /\ counter'.ended = counter.ended + last
        /\ counter'.prefills = counter.prefills + first
        /\ n = last + (IF AllReturned(counter') THEN InFlightSessions(counter') ELSE 0)
        /\ session' = ReleaseMany(session, n)
        /\ prefill' = IF WithoutToken(s) THEN Release(prefill) ELSE prefill
        /\ doneEvent' = (doneEvent \/ AllReturned(counter'))
        /\ wire' = [wire EXCEPT ![s] = "none"] /\ wire[s] # "none"
        /\ UNCHANGED <<turn, task, queue>> \/ NextTurn(s)
    BY <2>1 DEF Returns
  <2>3. last \in Nat /\ first \in Nat
    OBVIOUS
  <2>4. ~forced
    BY <1>1, <2>2 DEF Stages
  <2>5. /\ Taken(session') = Taken(session) - n
        /\ Taken(prefill') = Taken(prefill) - first
    <3>1. Taken(session') = Taken(session) - n
      BY <1>1, <2>2, ReleaseManyOrderly DEF QueuesKept
    <3>2. Taken(prefill') = Taken(prefill) - first
      <4>1. CASE WithoutToken(s)
        <5>1. Taken(Release(prefill)) = Taken(prefill) - 1
          BY <1>1, ReleaseOrderly DEF QueuesKept
        <5> QED BY <2>2, <4>1, <5>1
      <4>2. CASE ~WithoutToken(s)
        BY <1>4, <2>2, <4>2
      <4> QED BY <4>1, <4>2
    <3> QED BY <3>1, <3>2
  <2>6. Starting' = Starting
    <3>1. task[s] = "none"
      BY <1>1, <2>2 DEF Places
    <3>2. CASE UNCHANGED <<turn, task, queue>>
      BY <3>2 DEF Starting, IsStart
    <3>3. CASE NextTurn(s)
      <4>1. /\ \A x \in Sessions : x # s => task'[x] = task[x] /\ turn'[x] = turn[x]
            /\ task'[s] \notin {"prefill", "stranded"}
        BY <1>1, <3>1, <3>3 DEF NextTurn, Typed
      <4> QED BY <3>1, <4>1 DEF Starting, IsStart
    <3> QED BY <2>2, <3>2, <3>3
  <2>7. SlotsOfSessions' = SlotsOfSessions - n
    BY <1>4, <1>6, <2>5, <2>6 DEF SlotsOfSessions
  <2>8. /\ InFlightSessions(counter') = InFlightSessions(counter) - last
        /\ InFlightSessions(counter) \in Nat
        /\ InFlightPrefills(counter') = InFlightPrefills(counter) - first
        /\ InFlightPrefills(counter) \in Int
        /\ counter.sent > counter.returned
    <3>1. InFlightSessions(counter) \in Nat \ {0} /\ counter.sent > counter.returned
      BY <1>1, <2>2, WiredInFlight
    <3> QED BY <1>2, <2>2, <2>3, <3>1 DEF InFlightSessions, InFlightPrefills
  <2>9. Cardinality(WaitForToken') <= Cardinality(WaitForToken) - first
    <3>1. CASE WithoutToken(s)
      <4>1. WaitForToken' = WaitForToken \ {s} /\ s \in WaitForToken
        BY <1>1, <2>2, <3>1 DEF WaitForToken, WithoutToken, TypeOK
      <4>2. Cardinality(WaitForToken') = Cardinality(WaitForToken) - 1
        BY <1>3, <4>1, FS_RemoveElement
      <4> QED BY <1>3, <3>1, <4>2
    <3>2. CASE ~WithoutToken(s)
      <4>1. WaitForToken' \subseteq WaitForToken
        BY <1>1, <2>2 DEF WaitForToken, TypeOK
      <4> QED BY <1>3, <3>2, <4>1
    <3> QED BY <3>1, <3>2
  <2> HIDE DEF last, first
  <2>10. Taken(prefill') = InFlightPrefills(counter')
    BY <1>1, <1>4, <2>3, <2>4, <2>5, <2>8 DEF Slots
  <2>11. ~doneEvent' => SlotsOfSessions' = InFlightSessions(counter')
    <3>1. ASSUME ~doneEvent'
          PROVE  ~doneEvent /\ n = last
      <4>1. ~doneEvent /\ ~AllReturned(counter')
        BY <2>2, <3>1, Zenon
      <4>2. n = last + 0
        BY <2>2, <4>1
      <4> QED BY <2>3, <4>1, <4>2
    <3> QED BY <1>1, <1>6, <2>3, <2>7, <2>8, <3>1 DEF Slots
  <2>12. ASSUME ~plan.timed, ~lifecycle.cancelled, doneEvent'
         PROVE  SlotsOfSessions' = 0
    <3>1. ~doneEvent
      BY <1>1, <1>2, <2>4, <2>8, <2>12 DEF Signals, AllReturned, IsFrozen
    <3>2. n = last + InFlightSessions(counter')
      BY <2>2, <2>12, <3>1
    <3>3. SlotsOfSessions = InFlightSessions(counter)
      BY <1>1, <3>1 DEF Slots
    <3> QED BY <1>6, <2>3, <2>7, <2>8, <3>2, <3>3
  <2>13. InFlightSessions(counter') <= SessionLimit
    BY <1>1, <1>2, <2>3, <2>8 DEF Slots
  <2>14. Cardinality(WaitForToken') <= InFlightPrefills(counter')
    BY <1>1, <1>3, <2>3, <2>4, <2>8, <2>9 DEF Slots
  <2>15. Cardinality(WaitForToken') <= PrefillLimit
    BY <1>1, <1>2, <1>3, <2>3, <2>9 DEF Slots
  <2> QED BY <2>2, <2>10, <2>11, <2>12, <2>13, <2>14, <2>15 DEF Slots
<1>14. ASSUME NEW s \in Sessions, LateReturn(s)
       PROVE  Slots'
  <2>1. UNCHANGED <<turn, task, session, prefill, counter, plan, lifecycle, doneEvent,
                    runner, forced>>
    BY <1>14 DEF LateReturn, limitVars, runVars
  <2>2. WaitForToken' \subseteq WaitForToken
    BY <1>1, <1>14 DEF LateReturn, WaitForToken, TypeOK
  <2>3. SlotsOfSessions' = SlotsOfSessions /\ Taken(prefill') = Taken(prefill)
    BY <1>9, <2>1
  <2> QED BY <1>8, <2>1, <2>2, <2>3
<1>15. ASSUME NEW s \in Sessions, FirstToken(s)
       PROVE  Slots'
  <2>1. /\ UNCHANGED <<turn, task, session, plan, lifecycle, doneEvent, runner, forced>>
        /\ counter' = [counter EXCEPT !.prefills = counter.prefills + 1]
        /\ prefill' = Release(prefill) /\ wire[s] = "prefill"
        /\ wire' = [wire EXCEPT ![s] = "decode"]
    BY <1>1, <1>15, ReturnedCounters DEF FirstToken, runVars
  <2>2. /\ counter'.sent = counter.sent /\ counter'.prefills = counter.prefills + 1
        /\ counter'.sessions = counter.sessions /\ counter'.ended = counter.ended
    BY <1>1, <2>1 DEF CounterType
  <2>3. Taken(prefill') = Taken(prefill) - 1
    BY <1>1, <2>1, ReleaseOrderly DEF QueuesKept
  <2>4. /\ InFlightPrefills(counter') = InFlightPrefills(counter) - 1
        /\ InFlightPrefills(counter) \in Int
        /\ InFlightSessions(counter') = InFlightSessions(counter)
    BY <1>2, <2>2 DEF InFlightPrefills, InFlightSessions
  <2>5. Cardinality(WaitForToken') = Cardinality(WaitForToken) - 1
    <3>1. WaitForToken' = WaitForToken \ {s} /\ s \in WaitForToken
      BY <1>1, <2>1 DEF WaitForToken, TypeOK
    <3> QED BY <1>3, <3>1, FS_RemoveElement
  <2>6. SlotsOfSessions' = SlotsOfSessions
    BY <1>9, <2>1
  <2>7. /\ ~forced => Taken(prefill') = InFlightPrefills(counter')
        /\ ~forced => Cardinality(WaitForToken') <= InFlightPrefills(counter')
        /\ Cardinality(WaitForToken') <= PrefillLimit
    BY <1>1, <1>2, <1>3, <1>4, <2>3, <2>4, <2>5 DEF Slots
  <2> QED BY <1>1, <2>1, <2>4, <2>6, <2>7 DEF Slots
<1>16. CASE \/ LeaveLoop \/ WorkersCrash \/ AllCreditsBack \/ TimePasses
            \/ UNCHANGED vars
  <2>1. /\ UNCHANGED <<turn, task, session, prefill, counter, plan, doneEvent, forced>>
        /\ WaitForToken' \subseteq WaitForToken
        /\ lifecycle'.cancelled = lifecycle.cancelled
        /\ runner' # "done" => runner # "done"
    BY <1>1, <1>16 DEF LeaveLoop, WorkersCrash, AllCreditsBack, TimePasses, vars,
         WaitForToken, MarkComplete, issueVars, limitVars, runVars, TypeOK
  <2>2. SlotsOfSessions' = SlotsOfSessions /\ Taken(prefill') = Taken(prefill)
    BY <1>9, <2>1
  <2> QED BY <1>8, <2>1, <2>2
<1>17. CASE AfterSending \/ CancelInFlight
  <2>1. /\ UNCHANGED <<turn, task, wire, session, prefill, counter, plan, forced>>
        /\ lifecycle'.cancelled = lifecycle.cancelled
        /\ doneEvent => doneEvent'
        /\ runner # "done"
    BY <1>1, <1>17 DEF AfterSending, CancelInFlight, MarkComplete, issueVars, limitVars,
         TypeOK
  <2>2. ~plan.timed /\ ~lifecycle.cancelled /\ doneEvent' => doneEvent
    BY <1>1, <1>17 DEF AfterSending, CancelInFlight, GraceOver, Signals, Stages
  <2>3. SlotsOfSessions' = SlotsOfSessions /\ Taken(prefill') = Taken(prefill)
    BY <1>9, <2>1
  <2> QED BY <1>8, <1>10, <2>1, <2>2, <2>3
<1>18. CASE StopSending
  <2>1. /\ UNCHANGED <<turn, wire, plan, forced, doneEvent>>
        /\ lifecycle'.cancelled = lifecycle.cancelled /\ runner # "done"
        /\ counter' = [counter EXCEPT !.finalSent = counter.sent]
    BY <1>1, <1>18, ReturnedCounters DEF StopSending, TypeOK
  <2>2. /\ counter'.sent = counter.sent /\ counter'.prefills = counter.prefills
        /\ counter'.sessions = counter.sessions /\ counter'.ended = counter.ended
    BY <1>1, <2>1 DEF CounterType
  <2>3. /\ Taken(session') = Taken(session) /\ Taken(prefill') = Taken(prefill)
        /\ Starting' = Starting
    BY <1>1, <1>18, StopSendingTasks
  <2>4. SlotsOfSessions' = SlotsOfSessions
    BY <2>3 DEF SlotsOfSessions
  <2> QED BY <1>8, <1>10, <2>1, <2>2, <2>3, <2>4
<1>19. CASE ForceCompletion
  <2>1. /\ counter' = counter /\ wire' = wire /\ plan' = plan
        /\ plan.timed /\ doneEvent' /\ forced'
    BY <1>1, <1>19 DEF ForceCompletion, issueVars, Stages
  <2>2. Cardinality(WaitForToken') <= PrefillLimit
    BY <1>1, <1>2, <1>3, <1>10, <2>1 DEF Slots
  <2> QED BY <1>1, <2>1, <2>2 DEF Slots
<1>20. CASE Close \/ Cancel
  <2>1. Taken(prefill') = Taken(prefill)
    BY <1>1, <1>20, ClosingTasks
  <2>2. /\ UNCHANGED <<wire, counter, plan, forced>> /\ doneEvent'
        /\ lifecycle'.cancelled \/ runner' = "done"
    BY <1>1, <1>20 DEF Close, Cancel, Stages, PhaseComplete, TypeOK
  <2> QED BY <1>8, <1>10, <2>1, <2>2
<1> QED BY <1>11, <1>12, <1>13, <1>14, <1>15, <1>16, <1>17, <1>18, <1>19, <1>20,
           NextSteps

-------------------------------------------------------------------------------
(***************************************************************************)
(* The theorems.                                                           *)
(***************************************************************************)
\* A new phase has nothing on the wire, nothing counted and nothing taken.
LEMMA InitHolds == Init => IInv
<1> SUFFICES ASSUME Init PROVE IInv
  OBVIOUS
<1>1. plan \in PlanType
  BY PlansAssumption DEF Init
<1>2. /\ counter = [cap |-> plan.cap, target |-> plan.target, sent |-> 0, rootSent |-> 0,
                    sessions |-> 0, turns |-> 0, returned |-> 0, ended |-> 0,
                    prefills |-> 0, finalSent |-> NotFrozen]
  BY DEF Init, NewCounter
<1>3. counter \in CounterType
  BY <1>1, <1>2 DEF PlanType, CounterType
<1>4. /\ Orderly(session, Sessions, SessionLimit, {}) /\ Taken(session) = 0
      /\ Orderly(prefill, Sessions, PrefillLimit, {}) /\ Taken(prefill) = 0
  BY LimitNumbers, NewLimitOrderly DEF Init
<1>5. \A x \in Sessions : /\ turn[x] = 0 /\ task[x] \in {"new", "timer"} /\ wire[x] = "none"
                          /\ plan.strategy = "rate" => task[x] = "new"
  <2>1. plan \in Plans /\ (plan.strategy = "rate" => plan.initial = {})
    BY PlansAssumption DEF Init
  <2> QED BY <2>1 DEF Init
<1>6. /\ queue = <<>> /\ queue \in Seq(Sessions) /\ Len(queue) = 0
  BY EmptySeq DEF Init
<1>7. QueuesKept
  BY <1>4, OrderlyIn DEF QueuesKept
<1>8. TypeOK
  <2>1. session \in Limit /\ prefill \in Limit
    BY <1>7 DEF QueuesKept, Orderly, LimitsOf, Limit
  <2>2. turn \in [Sessions -> Nat] /\ \A x \in Sessions : turn[x] < NumTurns[x]
    <3>1. \A x \in Sessions : NumTurns[x] \in Nat \ {0}
      BY NumTurnsAssumption
    <3>2. \A x \in Sessions : 0 < NumTurns[x]
      BY <3>1
    <3> QED BY <3>2 DEF Init
  <2>3. task \in [Sessions -> TaskStates] /\ loop \in {"running", "ended"} /\ own = {}
    BY DEF Init, TaskStates
  <2> QED BY <1>3, <1>6, <2>1, <2>2, <2>3 DEF Init, TypeOK, CounterType
<1>9. Places
  <2>1. Distinct(queue)
    BY <1>6 DEF Distinct
  <2>3. \A i \in 1..Len(queue) : FALSE
    BY <1>6
  <2> QED BY <1>5, <2>1, <2>3 DEF Places, IsStart
<1>10. Wired = {} /\ Active = {} /\ WaitForToken = {} /\ Starting = {}
  <2>1. \A x \in Sessions : ~InQueue(x)
    BY <1>6 DEF InQueue
  <2> QED BY <1>5, <2>1 DEF Wired, Active, WaitForToken, Starting, Goes
<1>11. Cardinality({}) = 0
  BY FS_EmptySet
<1>12. Counted
  BY <1>2, <1>10, <1>11 DEF Counted, InFlightSessions
<1>13. Stages /\ Signals
  BY <1>2 DEF Init, Stages, Signals, PhaseComplete, IsFrozen, AllReturned
<1>14. Slots
  BY <1>2, <1>4, <1>10, <1>11, LimitNumbers
     DEF Init, Slots, SlotsOfSessions, InFlightSessions, InFlightPrefills
<1> QED BY <1>7, <1>8, <1>9, <1>12, <1>13, <1>14 DEF IInv

\* The invariant is inductive.
LEMMA InvariantKept == IInv /\ [Next]_vars => IInv'
BY KeepsTypes, KeepsPlaces, KeepsQueues, KeepsCounted, KeepsStages, KeepsSignals,
   KeepsSlots DEF IInv

\* The invariant holds throughout.
THEOREM Invariance == Spec => []IInv
<1>1. IInv /\ [Next]_vars => IInv'
  BY InvariantKept
<1> QED BY InitHolds, <1>1, PTL DEF Spec

\* Every variable keeps its type: in particular, no slot count and no counter
\* goes below zero, and no session gets past its last turn.
THEOREM TypeCorrect == Spec => []TypeOK
<1>1. IInv => TypeOK
  BY DEF IInv
<1> QED BY Invariance, <1>1, PTL

\* The two books of the slots agree, and the limiters limit: never more
\* conversations, and never more requests without a first token, than configured.
THEOREM SlotsAgree == Spec => []SlotsAccounted
<1>1. IInv => SlotsAccounted
  <2> SUFFICES ASSUME IInv PROVE SlotsAccounted
    OBVIOUS
  <2>1. Slots /\ TypeOK /\ QueuesKept
    BY DEF IInv
  <2>2. Taken(session) \in Int /\ Taken(session) = InUse(session)
        /\ Taken(prefill) = InUse(prefill)
    BY <2>1, TakenBounds DEF Taken, InUse
  <2>3. Cardinality(Starting) \in Nat
    <3>1. Starting \subseteq Sessions
      BY DEF Starting
    <3> QED BY <3>1, SessionsAssumption, FS_Subset, FS_CardinalityType
  <2>4. ~doneEvent => InUse(session) = InFlightSessions(counter) + Cardinality(Starting)
    BY <2>1, <2>2, <2>3 DEF Slots, SlotsOfSessions
  <2> QED BY <2>1, <2>2, <2>4 DEF Slots, SlotsAccounted, WaitForToken
<1> QED BY Invariance, <1>1, PTL

\* A phase without a duration that ends by itself has given back every session
\* slot but those of tasks that still wait to start a session.
THEOREM CountedPhasesReturn == Spec => []CountedPhasesReturnSlots
<1>1. IInv => CountedPhasesReturnSlots
  <2> SUFFICES ASSUME IInv, runner = "closing", ~lifecycle.cancelled, ~plan.timed
               PROVE  InUse(session) = Cardinality(Starting)
    BY DEF CountedPhasesReturnSlots
  <2>1. SlotsOfSessions = 0
    BY DEF IInv, Stages, Slots
  <2>2. Taken(session) \in Int /\ Taken(session) = InUse(session)
    BY TakenBounds DEF IInv, Taken, InUse
  <2>3. Cardinality(Starting) \in Nat
    <3>1. Starting \subseteq Sessions
      BY DEF Starting
    <3> QED BY <3>1, SessionsAssumption, FS_Subset, FS_CardinalityType
  <2> QED BY <2>1, <2>2, <2>3 DEF SlotsOfSessions
<1> QED BY Invariance, <1>1, PTL

\* What a step does to the numbers that are published.
LEMMA PublishedNumbers ==
  ASSUME IInv, [Next]_vars
  PROVE  /\ plan' = plan /\ counter'.cap = counter.cap
         /\ \/ /\ \E s \in Sessions : Sends(s)
               /\ counter'.sent = counter.sent + 1
               /\ counter'.returned = counter.returned
               /\ \/ counter'.sessions = counter.sessions
                  \/ /\ counter'.sessions = counter.sessions + 1
                     /\ SessionsLeft(counter)
               /\ UNCHANGED <<lifecycle, forced>>
            \/ /\ counter'.sent = counter.sent /\ counter'.sessions = counter.sessions
               /\ \/ counter'.returned = counter.returned
                  \/ /\ counter'.returned = counter.returned + 1
                     /\ \E s \in Sessions : CreditReturns(s)
<1>1. TypeOK /\ Typed /\ Counted /\ Stages /\ Signals /\ counter \in CounterType
  BY DEF IInv, TypeOK, Typed, CounterType
<1>2. counter.sessions \in Nat
  BY <1>1 DEF CounterType
<1>3. CASE Issues
  <2>1. PICK s \in Sessions : IssueStep(s)
    BY <1>3, IssueSteps DEF IInv, Issues
  <2>2. CASE Sends(s)
    <3>1. /\ counter'.cap = counter.cap /\ counter'.sent = counter.sent + 1
          /\ counter'.sessions = counter.sessions + (IF IsStart(s) THEN 1 ELSE 0)
          /\ counter'.returned = counter.returned
      BY <1>1, <2>2, SentCounters
    <3>2. IsStart(s) => SessionsLeft(counter)
      BY <1>1, <2>2, SendsInTime
    <3> QED BY <1>2, <2>1, <2>2, <3>1, <3>2 DEF IssueStep, issuerUnchanged
  <2>3. CASE counter' = counter
    BY <2>1, <2>3 DEF IssueStep, issuerUnchanged
  <2> QED BY <2>1, <2>2, <2>3 DEF IssueStep, Refuses, Parks
<1>4. ASSUME NEW s \in Sessions, CreditReturns(s)
      PROVE  /\ plan' = plan /\ counter'.cap = counter.cap
             /\ counter'.sent = counter.sent /\ counter'.sessions = counter.sessions
             /\ counter'.returned = counter.returned + 1
  BY <1>1, <1>4, ReturnSteps DEF Returns
<1>5. ASSUME NEW s \in Sessions, FirstToken(s)
      PROVE  /\ plan' = plan /\ counter'.cap = counter.cap
             /\ counter'.sent = counter.sent /\ counter'.sessions = counter.sessions
             /\ counter'.returned = counter.returned
  <2>1. counter' = [counter EXCEPT !.prefills = counter.prefills + 1] /\ plan' = plan
    BY <1>1, <1>5, ReturnedCounters DEF FirstToken
  <2> QED BY <1>1, <2>1 DEF CounterType
<1>6. CASE StopSending
  <2>1. counter' = [counter EXCEPT !.finalSent = counter.sent] /\ plan' = plan
    BY <1>1, <1>6, ReturnedCounters DEF StopSending
  <2> QED BY <1>1, <2>1 DEF CounterType
<1>7. ASSUME NEW s \in Sessions, QueueDelayed(s) \/ LateReturn(s)
      PROVE  counter' = counter /\ plan' = plan
  BY <1>7 DEF QueueDelayed, LateReturn
<1>8. CASE \/ LeaveLoop \/ WorkersCrash \/ AfterSending \/ AllCreditsBack
           \/ CancelInFlight \/ ForceCompletion \/ Close \/ Cancel \/ TimePasses
           \/ UNCHANGED vars
  <2>1. counter' = counter /\ plan' = plan
    BY <1>8 DEF LeaveLoop, WorkersCrash, AfterSending, AllCreditsBack, CancelInFlight,
         ForceCompletion, Close, Cancel, TimePasses, vars
  <2> QED BY <2>1
<1> QED BY <1>3, <1>4, <1>5, <1>6, <1>7, <1>8, NextSteps

\* However many tasks pass the stop conditions and then wait for slots, no more
\* requests are sent and no more sessions started than asked for.
THEOREM StopConditionsKept == Spec => []StopConditionsHold
<1>1. Init => StopConditionsHold
  <2> SUFFICES ASSUME Init PROVE StopConditionsHold
    OBVIOUS
  <2>1. plan \in PlanType
    BY PlansAssumption DEF Init
  <2>2. counter.sent = 0 /\ counter.sessions = 0
    BY DEF Init, NewCounter
  <2> QED BY <2>1, <2>2 DEF PlanType, StopConditionsHold
<1>2. IInv /\ StopConditionsHold /\ [Next]_vars => StopConditionsHold'
  <2> SUFFICES ASSUME IInv, StopConditionsHold, [Next]_vars
               PROVE  StopConditionsHold'
    OBVIOUS
  <2>1. /\ counter.cap = plan.cap /\ counter.target = plan.target
        /\ counter.cap \in Nat \cup {NoLimit} /\ counter.target \in Nat \cup {NoLimit}
        /\ counter.sent \in Nat /\ counter.sessions \in Nat
    BY DEF IInv, Counted, TypeOK
  <2>2. plan' = plan
    BY PublishedNumbers
  <2>3. counter'.sent # counter.sent => counter'.sent = counter.sent + 1 /\ RequestsLeft(counter)
    BY PublishedNumbers, SendsInTime DEF IInv
  <2>4. counter'.sessions # counter.sessions
          => counter'.sessions = counter.sessions + 1 /\ SessionsLeft(counter)
    BY PublishedNumbers
  <2>5. plan.cap # NoLimit => counter'.sent <= plan.cap
    BY <2>1, <2>3 DEF StopConditionsHold, RequestsLeft
  <2>6. plan.target # NoLimit => counter'.sessions <= plan.target
    BY <2>1, <2>4 DEF StopConditionsHold, SessionsLeft
  <2> QED BY <2>2, <2>5, <2>6 DEF StopConditionsHold
<1> QED BY Invariance, <1>1, <1>2, PTL DEF Spec

-------------------------------------------------------------------------------
(***************************************************************************)
(* A phase that runs conversations in full.  The turns that a session      *)
(* announced and has not sent are its current one, unless that is on the   *)
(* wire, and those after it.                                               *)
(***************************************************************************)
ToSend == {p \in AllTurns :
             /\ Goes(p[1])
             /\ \/ p[2] > turn[p[1]]
                \/ p[2] = turn[p[1]] /\ wire[p[1]] = "none"}

\* A session announces its turns when it starts, and sends no others.
Planned ==
  /\ counter.rootSent = counter.sent
  /\ counter.sent + Cardinality(ToSend) <= counter.turns

\* The sessions that were started, each once, announced all the turns they have.
TurnsOf(S) == {p \in AllTurns : p[1] \in S}
Begins(x) == IsStart(x) /\ task[x] # "none"

Announced ==
  \E S \in SUBSET Sessions :
    /\ counter.sessions = Cardinality(S)
    /\ counter.turns = Cardinality(TurnsOf(S))
    /\ \A x \in S : ~Begins(x)

SameSent == /\ counter'.sent = counter.sent /\ counter'.rootSent = counter.rootSent
            /\ counter'.sessions = counter.sessions /\ counter'.turns = counter.turns

\* A session comes no closer to its start.
NoMore(x) == \/ turn'[x] = turn[x] /\ (wire'[x] = "none" => wire[x] = "none")
             \/ turn'[x] = turn[x] + 1

\* What a turn is, and the turns of one session.
LEMMA TurnFacts ==
  /\ \A p \in AllTurns : /\ p[1] \in Sessions /\ p[2] \in 0..(NumTurns[p[1]] - 1)
                         /\ p = <<p[1], p[2]>>
  /\ \A s \in Sessions : \A k \in 0..(NumTurns[s] - 1) : <<s, k>> \in AllTurns
BY DEF AllTurns

\* The turns are finitely many.
LEMMA TurnsFinite == IsFiniteSet(AllTurns)
<1> DEFINE f == [s \in Sessions |-> {s} \X (0..(NumTurns[s] - 1))]
           R == {f[s] : s \in Sessions}
<1>1. f \in Surjection(Sessions, R)
  BY DEF Surjection
<1>2. IsFiniteSet(R)
  BY <1>1, SessionsAssumption, FS_Surjection
<1>3. ASSUME NEW s \in Sessions
      PROVE  IsFiniteSet(f[s])
  <2>1. NumTurns[s] - 1 \in Int /\ 0 \in Int
    BY NumTurnsAssumption
  <2>2. IsFiniteSet(0..(NumTurns[s] - 1)) /\ IsFiniteSet({s})
    BY <2>1, FS_Interval, FS_Singleton
  <2> QED BY <2>2, FS_Product
<1>4. AllTurns = UNION R
  BY DEF AllTurns
<1>5. \A T \in R : IsFiniteSet(T)
  BY <1>3
<1> QED BY <1>2, <1>4, <1>5, FS_UNION

\* The turns to send are finitely many.
LEMMA ToSendFinite ==
  /\ IsFiniteSet(ToSend) /\ Cardinality(ToSend) \in Nat
  /\ IsFiniteSet(ToSend') /\ Cardinality(ToSend') \in Nat
<1>1. ToSend \subseteq AllTurns /\ ToSend' \subseteq AllTurns
  BY DEF ToSend
<1> QED BY <1>1, TurnsFinite, FS_Subset, FS_CardinalityType

\* How many numbers there are from a to b, and how a sum of sizes bounds one.
LEMMA IntervalSize ==
  ASSUME NEW a \in Int, NEW b \in Int
  PROVE  IsFiniteSet(a..b) /\ Cardinality(a..b) = IF a > b THEN 0 ELSE b - a + 1
BY FS_Interval

LEMMA SumOfSizes ==
  ASSUME NEW n \in Nat, NEW a \in Nat, NEW b \in Nat, NEW c \in Nat, n = a + b - c
  PROVE  n <= a + b /\ (c = 0 => n = a + b)
OBVIOUS

\* The turns k, k + 1, ... of one session.
LEMMA TurnsFrom ==
  ASSUME NEW s \in Sessions, NEW k \in {0, 1}
  PROVE  /\ IsFiniteSet({s} \X (k..(NumTurns[s] - 1)))
         /\ Cardinality({s} \X (k..(NumTurns[s] - 1))) = NumTurns[s] - k
<1> DEFINE J == k..(NumTurns[s] - 1)
<1>1. IsFiniteSet({s}) /\ Cardinality({s}) = 1
  BY FS_Singleton
<1>2. NumTurns[s] - 1 \in Nat /\ NumTurns[s] - k \in Nat /\ k \in Int /\ NumTurns[s] \in Nat
  BY NumTurnsAssumption
<1>3. IsFiniteSet(J) /\ Cardinality(J) = NumTurns[s] - k
  <2> DEFINE b == NumTurns[s] - 1
  <2>1. b \in Int /\ k <= b + 1 /\ b - k + 1 = NumTurns[s] - k
    BY <1>2
  <2>2. J = k..b
    OBVIOUS
  <2> HIDE DEF b, J
  <2>3. IsFiniteSet(k..b) /\ Cardinality(k..b) = IF k > b THEN 0 ELSE b - k + 1
    BY <1>2, <2>1, IntervalSize
  <2> QED BY <1>2, <2>1, <2>2, <2>3
<1> HIDE DEF J
<1>4. IsFiniteSet({s} \X J) /\ Cardinality({s} \X J) = Cardinality({s}) * Cardinality(J)
  BY <1>1, <1>3, FS_Product
<1> QED BY <1>1, <1>2, <1>3, <1>4 DEF J

\* A set grows by no more than what is added to it.
LEMMA Grown ==
  ASSUME NEW A, NEW B, IsFiniteSet(A), IsFiniteSet(B)
  PROVE  /\ IsFiniteSet(A \cup B)
         /\ Cardinality(A \cup B) \in Nat /\ Cardinality(A) \in Nat /\ Cardinality(B) \in Nat
         /\ Cardinality(A \cup B) <= Cardinality(A) + Cardinality(B)
         /\ A \cap B = {} => Cardinality(A \cup B) = Cardinality(A) + Cardinality(B)
<1>1. IsFiniteSet(A \cap B) /\ Cardinality(A \cap B) \in Nat /\ Cardinality({}) = 0
  BY FS_Intersection, FS_CardinalityType, FS_EmptySet
<1>2. /\ IsFiniteSet(A \cup B)
      /\ Cardinality(A \cup B) = Cardinality(A) + Cardinality(B) - Cardinality(A \cap B)
  BY FS_Union
<1>3. Cardinality(A \cup B) \in Nat /\ Cardinality(A) \in Nat /\ Cardinality(B) \in Nat
  BY <1>2, FS_CardinalityType
<1>4. A \cap B = {} => Cardinality(A \cap B) = 0
  BY <1>1
<1> QED BY <1>1, <1>2, <1>3, <1>4, SumOfSizes

\* A step sends a turn that was a session's first or still to send, or it sends
\* nothing; and nobody else has more left to send than before.
LEMMA Going ==
  ASSUME IInv, [Next]_vars
  PROVE  \/ \E s \in Sessions :
              /\ Sends(s) /\ wire[s] = "none" /\ (IsStart(s) \/ Goes(s)) /\ turn' = turn
              /\ IsStart(s) => task[s] # "none"
              /\ \A x \in Sessions \ {s} : wire'[x] = wire[x] /\ (Goes(x)' => Goes(x))
              /\ \A x \in Sessions : Begins(x)' => Begins(x) /\ x # s
         \/ /\ SameSent /\ \A x \in Sessions : Goes(x)' => Goes(x) /\ NoMore(x)
            /\ \A x \in Sessions : Begins(x)' => Begins(x)
<1>1. TypeOK /\ Typed /\ Places /\ Counted /\ counter \in CounterType
  BY DEF IInv, TypeOK, Typed, CounterType
<1>2. counter' = counter => SameSent
  BY DEF SameSent
<1>3. CASE Issues
  <2>1. PICK s \in Sessions : IssueStep(s)
    BY <1>3, IssueSteps DEF IInv, Issues
  <2>2. /\ wire[s] = "none" /\ (IsStart(s) \/ Goes(s)) /\ turn' = turn
        /\ IsStart(s) => task[s] # "none"
        /\ \A i \in 1..Len(queue') : queue'[i] # s /\ InQueue(queue'[i])
    BY <2>1 DEF IssueStep, issuerUnchanged
  <2>3. \A x \in Sessions : InQueue(x)' => InQueue(x) /\ x # s
    BY <2>2 DEF InQueue
  <2>4. \A x \in Sessions \ {s} : task'[x] = task[x] /\ wire'[x] = wire[x]
    BY <1>1, <2>1 DEF IssueStep, Sends, Refuses, Parks, Typed, TypeOK
  <2>5. \A x \in Sessions \ {s} : wire'[x] = wire[x] /\ (Goes(x)' => Goes(x))
    BY <2>2, <2>3, <2>4 DEF Goes
  <2>6. CASE Sends(s)
    <3>1. task'[s] = "none"
      BY <1>1, <2>6 DEF Sends, Typed
    <3>2. \A x \in Sessions : Begins(x)' => Begins(x) /\ x # s
      BY <2>2, <2>4, <3>1 DEF Begins, IsStart
    <3> QED BY <2>2, <2>5, <2>6, <3>2
  <2>7. CASE Refuses(s) \/ Parks(s, "prefill") \/ Parks(s, "session")
    <3>1. counter' = counter /\ wire' = wire
      BY <2>7 DEF Refuses, Parks
    <3>2. Goes(s)' => Goes(s)
      BY <1>1, <2>2, <3>1 DEF Goes, IsStart, Typed
    <3>3. \A x \in Sessions : Begins(x)' => Begins(x)
      BY <1>1, <2>2, <2>4, <2>7 DEF Begins, IsStart, Refuses, Parks, Typed
    <3> QED BY <1>2, <2>2, <2>5, <3>1, <3>2, <3>3 DEF NoMore
  <2> QED BY <2>1, <2>6, <2>7 DEF IssueStep
<1>4. ASSUME NEW s \in Sessions, QueueDelayed(s)
      PROVE  /\ SameSent /\ \A x \in Sessions : Goes(x)' => Goes(x) /\ NoMore(x)
             /\ \A x \in Sessions : Begins(x)' => Begins(x)
  <2>1. /\ task[s] = "timer" /\ task' = [task EXCEPT ![s] = "none"]
        /\ queue' = Append(queue, s)
        /\ UNCHANGED <<turn, wire, counter>>
    BY <1>4 DEF QueueDelayed
  <2>2. ~InQueue(s)
    BY <1>1, <2>1 DEF InQueue, Places
  <2>3. \A i \in 1..Len(queue') : queue'[i] = s \/ InQueue(queue'[i])
    BY <1>1, <2>1, <2>2, Appended DEF Places
  <2>4. \A x \in Sessions : Goes(x)' => Goes(x)
    BY <1>1, <2>1, <2>3 DEF Goes, InQueue, Typed
  <2>5. \A x \in Sessions : Begins(x)' => Begins(x)
    BY <1>1, <2>1 DEF Begins, IsStart, Typed
  <2> QED BY <1>2, <2>1, <2>4, <2>5 DEF NoMore
<1>5. ASSUME NEW s \in Sessions, CreditReturns(s)
      PROVE  /\ SameSent /\ \A x \in Sessions : Goes(x)' => Goes(x) /\ NoMore(x)
             /\ \A x \in Sessions : Begins(x)' => Begins(x)
  <2>1. PICK n \in Nat : Returns(s, n)
    BY <1>1, <1>5, ReturnSteps DEF IInv
  <2>2. /\ wire' = [wire EXCEPT ![s] = "none"] /\ wire[s] # "none" /\ SameSent
        /\ UNCHANGED <<turn, task, queue>> \/ NextTurn(s)
    BY <2>1 DEF Returns, SameSent
  <2>3. task[s] = "none" /\ ~InQueue(s) /\ Goes(s)
    BY <1>1, <2>2 DEF Places, InQueue, Goes
  <2>4. wire'[s] = "none" /\ \A x \in Sessions \ {s} : wire'[x] = wire[x]
    BY <1>1, <2>2 DEF TypeOK
  <2>5. CASE UNCHANGED <<turn, task, queue>>
    <3>1. ~Goes(s)' /\ \A x \in Sessions \ {s} : Goes(x)' => Goes(x)
      BY <2>3, <2>4, <2>5 DEF Goes, InQueue
    <3> QED BY <2>2, <2>4, <2>5, <3>1 DEF NoMore, Begins, IsStart
  <2>6. CASE NextTurn(s)
    <3>1. /\ turn'[s] = turn[s] + 1
          /\ \A x \in Sessions \ {s} : task'[x] = task[x] /\ turn'[x] = turn[x]
      BY <1>1, <2>6 DEF NextTurn, Typed
    <3>2. \A x \in Sessions \ {s} : InQueue(x)' => InQueue(x)
      <4>1. CASE queue' = queue
        BY <4>1 DEF InQueue
      <4>2. CASE queue' = Append(queue, s)
        <5>1. \A i \in 1..Len(queue') : queue'[i] = s \/ InQueue(queue'[i])
          BY <1>1, <2>3, <4>2, Appended DEF Places
        <5> QED BY <5>1 DEF InQueue
      <4> QED BY <2>6, <4>1, <4>2 DEF NextTurn
    <3>3. \A x \in Sessions \ {s} : Goes(x)' => Goes(x)
      BY <2>4, <3>1, <3>2 DEF Goes
    <3>4. \A x \in Sessions : Begins(x)' => Begins(x)
      <4>1. turn[s] \in Nat
        BY <1>1 DEF Typed
      <4> QED BY <3>1, <4>1 DEF Begins, IsStart
    <3> QED BY <2>2, <2>3, <2>4, <3>1, <3>3, <3>4 DEF NoMore
  <2> QED BY <2>2, <2>5, <2>6
<1>6. ASSUME NEW s \in Sessions, LateReturn(s)
      PROVE  /\ SameSent /\ \A x \in Sessions : Goes(x)' => Goes(x) /\ NoMore(x)
             /\ \A x \in Sessions : Begins(x)' => Begins(x)
  <2>1. /\ UNCHANGED <<turn, task, queue, counter>>
        /\ wire' = [wire EXCEPT ![s] = "none"] /\ wire[s] # "none"
    BY <1>6 DEF LateReturn
  <2>2. task[s] = "none" /\ ~InQueue(s)
    BY <1>1, <2>1 DEF Places, InQueue
  <2>3. wire'[s] = "none" /\ \A x \in Sessions \ {s} : wire'[x] = wire[x]
    BY <1>1, <2>1 DEF TypeOK
  <2>4. ~Goes(s)' /\ \A x \in Sessions \ {s} : Goes(x)' => Goes(x)
    BY <2>1, <2>2, <2>3 DEF Goes, InQueue
  <2> QED BY <1>2, <2>1, <2>3, <2>4 DEF NoMore, Begins, IsStart
<1>7. ASSUME UNCHANGED <<turn, queue>>, SameSent,
             \A x \in Sessions : Ends(x) /\ (wire'[x] = "none" <=> wire[x] = "none")
      PROVE  /\ SameSent /\ \A x \in Sessions : Goes(x)' => Goes(x) /\ NoMore(x)
             /\ \A x \in Sessions : Begins(x)' => Begins(x)
  BY <1>7 DEF Goes, InQueue, NoMore, Begins, IsStart, Ends
<1>8. ASSUME NEW s \in Sessions, FirstToken(s)
      PROVE  /\ SameSent /\ \A x \in Sessions : Goes(x)' => Goes(x) /\ NoMore(x)
             /\ \A x \in Sessions : Begins(x)' => Begins(x)
  <2>1. /\ UNCHANGED <<turn, queue, task>>
        /\ counter' = [counter EXCEPT !.prefills = counter.prefills + 1]
    BY <1>1, <1>8, ReturnedCounters DEF FirstToken
  <2>2. SameSent
    BY <1>1, <2>1 DEF CounterType, SameSent
  <2>3. \A x \in Sessions : wire'[x] = "none" <=> wire[x] = "none"
    BY <1>1, <1>8 DEF FirstToken, TypeOK
  <2> QED BY <1>7, <2>1, <2>2, <2>3 DEF Ends
<1>9. CASE \/ LeaveLoop \/ WorkersCrash \/ AfterSending \/ AllCreditsBack
           \/ CancelInFlight \/ ForceCompletion \/ TimePasses \/ UNCHANGED vars
  <2>1. /\ UNCHANGED <<turn, queue, task, counter>>
        /\ \A x \in Sessions : wire'[x] = "none" <=> wire[x] = "none"
    BY <1>9 DEF LeaveLoop, WorkersCrash, AfterSending, AllCreditsBack, CancelInFlight,
         ForceCompletion, TimePasses, vars, issueVars
  <2> QED BY <1>2, <1>7, <2>1 DEF Ends
<1>10. CASE StopSending
  <2>1. \A x \in Sessions : Ends(x)
    BY <1>10, StopSendingTasks DEF IInv
  <2>2. /\ UNCHANGED <<turn, queue, wire>>
        /\ counter' = [counter EXCEPT !.finalSent = counter.sent]
    BY <1>1, <1>10, ReturnedCounters DEF StopSending
  <2>3. SameSent
    BY <1>1, <2>2 DEF CounterType, SameSent
  <2> QED BY <1>7, <2>1, <2>2, <2>3
<1>11. CASE Close \/ Cancel
  <2>1. UNCHANGED <<turn, queue, wire, counter>>
    BY <1>11 DEF Close, Cancel
  <2>2. \A x \in Sessions : Ends(x)
    BY <1>11, ClosingTasks DEF IInv, Ends
  <2> QED BY <1>2, <1>7, <2>1, <2>2
<1> QED BY <1>3, <1>4, <1>5, <1>6, <1>8, <1>9, <1>10, <1>11, NextSteps

\* What was announced covers what was sent and what is still to send.
LEMMA KeepsPlanned ==
  ASSUME IInv, Planned, [Next]_vars
  PROVE  Planned'
<1>1. TypeOK /\ Typed /\ counter \in CounterType
  BY DEF IInv, TypeOK, Typed, CounterType
<1>2. /\ counter.sent \in Nat /\ counter.rootSent \in Nat
      /\ counter.sessions \in Nat /\ counter.turns \in Nat
      /\ NumTurns \in [Sessions -> Nat \ {0}]
  BY <1>1, NumTurnsAssumption DEF CounterType
<1>3. /\ IsFiniteSet(ToSend) /\ Cardinality(ToSend) \in Nat
      /\ IsFiniteSet(ToSend') /\ Cardinality(ToSend') \in Nat
  BY ToSendFinite
<1>4. CASE SameSent /\ \A x \in Sessions : Goes(x)' => Goes(x) /\ NoMore(x)
  <2>1. ToSend' \subseteq ToSend
    <3> SUFFICES ASSUME NEW p \in AllTurns, Goes(p[1])',
                        p[2] > turn'[p[1]] \/ (p[2] = turn'[p[1]] /\ wire'[p[1]] = "none")
                 PROVE  /\ Goes(p[1])
                        /\ p[2] > turn[p[1]] \/ (p[2] = turn[p[1]] /\ wire[p[1]] = "none")
      BY DEF ToSend
    <3>1. p[1] \in Sessions /\ p[2] \in Nat
      BY TurnFacts
    <3>2. Goes(p[1]) /\ NoMore(p[1]) /\ turn[p[1]] \in Nat
      BY <1>1, <1>4, <3>1 DEF Typed
    <3> QED BY <3>1, <3>2 DEF NoMore
  <2>2. Cardinality(ToSend') <= Cardinality(ToSend)
    BY <1>3, <2>1, FS_Subset
  <2> QED BY <1>2, <1>3, <1>4, <2>2 DEF Planned, SameSent
<1>5. ASSUME NEW s \in Sessions, Sends(s), wire[s] = "none", IsStart(s) \/ Goes(s),
             turn' = turn,
             \A x \in Sessions \ {s} : wire'[x] = wire[x] /\ (Goes(x)' => Goes(x))
      PROVE  Planned'
  <2>1. /\ counter'.sent = counter.sent + 1 /\ counter'.rootSent = counter.rootSent + 1
        /\ counter'.turns = counter.turns + (IF IsStart(s) THEN NumTurns[s] ELSE 0)
    BY <1>1, <1>5, SentCounters
  <2>2. wire'[s] # "none" /\ turn[s] \in Nat
    BY <1>1, <1>5 DEF Sends, TypeOK
  <2>3. \A p \in ToSend' : p[1] # s => p \in ToSend
    BY <1>5, TurnFacts DEF ToSend
  <2>4. \A p \in ToSend' : p[1] = s => p[2] > turn[s]
    BY <1>5, <2>2 DEF ToSend
  <2>5. CASE IsStart(s)
    <3> DEFINE L == {s} \X (1..(NumTurns[s] - 1))
    <3>1. ToSend' \subseteq ToSend \cup L
      <4> SUFFICES ASSUME NEW p \in ToSend', p[1] = s
                   PROVE  p \in L
        BY <2>3
      <4>1. p \in AllTurns /\ p[2] > 0
        BY <2>4, <2>5 DEF ToSend, IsStart
      <4>2. p[2] \in 1..(NumTurns[s] - 1) /\ p = <<s, p[2]>>
        <5>1. /\ p[2] \in 0..(NumTurns[s] - 1) /\ p = <<s, p[2]>>
              /\ NumTurns[s] \in Nat
          BY <1>2, <4>1, TurnFacts
        <5> QED BY <4>1, <5>1
      <4> QED BY <4>2
    <3>2. IsFiniteSet(L) /\ Cardinality(L) = NumTurns[s] - 1
      BY TurnsFrom
    <3> HIDE DEF L
    <3>3. Cardinality(ToSend') <= Cardinality(ToSend) + (NumTurns[s] - 1)
      <4>1. /\ IsFiniteSet(ToSend \cup L) /\ Cardinality(ToSend \cup L) \in Nat
            /\ Cardinality(ToSend \cup L) <= Cardinality(ToSend) + Cardinality(L)
        BY <1>3, <3>2, Grown
      <4>2. Cardinality(ToSend') <= Cardinality(ToSend \cup L)
        BY <3>1, <4>1, FS_Subset
      <4> QED BY <1>2, <1>3, <3>2, <4>1, <4>2
    <3> QED BY <1>2, <1>3, <2>1, <2>5, <3>3 DEF Planned
  <2>6. CASE ~IsStart(s)
    <3> DEFINE p0 == <<s, turn[s]>>
    <3>1. p0 \in ToSend
      <4>1. turn[s] \in 0..(NumTurns[s] - 1)
        BY <1>1, <1>2, <2>2 DEF Typed
      <4> QED BY <1>5, <2>6, <4>1, TurnFacts DEF ToSend
    <3>2. ToSend' \subseteq ToSend \ {p0}
      <4>1. \A p \in ToSend' : p \in ToSend
        BY <1>5, <2>3, <2>4, <2>6 DEF ToSend
      <4>2. p0 \notin ToSend'
        BY <2>2, <2>4
      <4> QED BY <4>1, <4>2
    <3> HIDE DEF p0
    <3>3. /\ IsFiniteSet(ToSend \ {p0})
          /\ Cardinality(ToSend \ {p0}) = Cardinality(ToSend) - 1
      BY <1>3, <3>1, FS_RemoveElement
    <3>4. Cardinality(ToSend') <= Cardinality(ToSend) - 1
      BY <3>2, <3>3, FS_Subset
    <3> QED BY <1>2, <1>3, <2>1, <2>6, <3>4 DEF Planned
  <2> QED BY <2>5, <2>6
<1> QED BY <1>4, <1>5, Going

\* The turns of a set of sessions are finitely many, and one session adds its own.
LEMMA TurnsAdded ==
  ASSUME NEW S \in SUBSET Sessions
  PROVE  /\ IsFiniteSet(S) /\ Cardinality(S) \in Nat
         /\ IsFiniteSet(TurnsOf(S)) /\ Cardinality(TurnsOf(S)) \in Nat
         /\ \A s \in Sessions \ S :
              /\ Cardinality(S \cup {s}) = Cardinality(S) + 1
              /\ Cardinality(TurnsOf(S \cup {s})) = Cardinality(TurnsOf(S)) + NumTurns[s]
<1>1. TurnsOf(S) \subseteq AllTurns
  BY DEF TurnsOf
<1>2. /\ IsFiniteSet(S) /\ Cardinality(S) \in Nat
      /\ IsFiniteSet(TurnsOf(S)) /\ Cardinality(TurnsOf(S)) \in Nat
  BY <1>1, SessionsAssumption, TurnsFinite, FS_Subset, FS_CardinalityType
<1>3. ASSUME NEW s \in Sessions \ S
      PROVE  /\ Cardinality(S \cup {s}) = Cardinality(S) + 1
             /\ Cardinality(TurnsOf(S \cup {s})) = Cardinality(TurnsOf(S)) + NumTurns[s]
  <2> DEFINE L == {s} \X (0..(NumTurns[s] - 1))
  <2>1. Cardinality(S \cup {s}) = Cardinality(S) + 1
    BY <1>2, FS_AddElement
  <2>2. TurnsOf(S \cup {s}) = TurnsOf(S) \cup L
    <3>1. ASSUME NEW p \in AllTurns, p[1] = s
          PROVE  p \in L
      BY <3>1, TurnFacts
    <3>2. ASSUME NEW p \in L
          PROVE  p \in AllTurns /\ p[1] = s
      BY DEF AllTurns
    <3> HIDE DEF L
    <3> QED BY <3>1, <3>2 DEF TurnsOf
  <2>3. TurnsOf(S) \cap L = {}
    BY DEF TurnsOf
  <2>4. IsFiniteSet(L) /\ Cardinality(L) = NumTurns[s]
    <3>1. IsFiniteSet(L) /\ Cardinality(L) = NumTurns[s] - 0
      BY TurnsFrom
    <3> QED BY <3>1, NumTurnsAssumption
  <2> HIDE DEF L
  <2> QED BY <1>2, <2>1, <2>2, <2>3, <2>4, Grown
<1> QED BY <1>2, <1>3

\* A session that was started is not started again.
LEMMA KeepsAnnounced ==
  ASSUME IInv, Announced, [Next]_vars
  PROVE  Announced'
<1>1. TypeOK /\ Typed /\ counter \in CounterType
  BY DEF IInv, TypeOK, Typed, CounterType
<1>2. counter.sessions \in Nat /\ counter.turns \in Nat
  BY <1>1 DEF CounterType
<1>3. PICK S \in SUBSET Sessions : /\ counter.sessions = Cardinality(S)
                                   /\ counter.turns = Cardinality(TurnsOf(S))
                                   /\ \A x \in S : ~Begins(x)
  BY DEF Announced
<1>4. ASSUME counter'.sessions = counter.sessions, counter'.turns = counter.turns,
             \A x \in Sessions : Begins(x)' => Begins(x)
      PROVE  Announced'
  BY <1>3, <1>4 DEF Announced, TurnsOf
<1>5. ASSUME NEW s \in Sessions, Sends(s), IsStart(s) => task[s] # "none",
             \A x \in Sessions : Begins(x)' => Begins(x) /\ x # s
      PROVE  Announced'
  <2>1. /\ counter'.sessions = counter.sessions + (IF IsStart(s) THEN 1 ELSE 0)
        /\ counter'.turns = counter.turns + (IF IsStart(s) THEN NumTurns[s] ELSE 0)
    BY <1>1, <1>5, SentCounters
  <2>2. CASE IsStart(s)
    <3> DEFINE R == S \cup {s}
    <3>1. s \notin S
      BY <1>3, <1>5, <2>2 DEF Begins
    <3>2. /\ counter'.sessions = Cardinality(R)
          /\ counter'.turns = Cardinality(TurnsOf(R))
      BY <1>3, <2>1, <2>2, <3>1, TurnsAdded
    <3>3. \A x \in R : ~Begins(x)'
      BY <1>3, <1>5
    <3>4. R \in SUBSET Sessions /\ TurnsOf(R)' = TurnsOf(R)
      BY DEF TurnsOf
    <3> HIDE DEF R
    <3> QED BY <3>2, <3>3, <3>4 DEF Announced, TurnsOf
  <2>3. CASE ~IsStart(s)
    BY <1>2, <1>4, <1>5, <2>1, <2>3
  <2> QED BY <2>2, <2>3
<1> QED BY <1>4, <1>5, Going DEF SameSent

\* A phase that is to run conversations in full, so many of them or a schedule,
\* and ends by itself, has sent every turn of every one of them: it neither stops
\* early nor sends a turn twice.
THEOREM AllTurnsSent == Spec => []PlanSentInFull
<1>1. Init => Planned /\ Announced
  <2> SUFFICES ASSUME Init PROVE Planned /\ Announced
    OBVIOUS
  <2>1. counter.sent = 0 /\ counter.rootSent = 0 /\ counter.sessions = 0 /\ counter.turns = 0
    BY DEF Init, NewCounter
  <2>2. \A x \in Sessions : ~Goes(x)
    <3>1. \A x \in Sessions : ~InQueue(x)
      BY EmptySeq DEF Init, InQueue
    <3> QED BY <3>1 DEF Init, Goes
  <2>3. ToSend = {} /\ Cardinality({}) = 0
    BY <2>2, TurnFacts, FS_EmptySet DEF ToSend
  <2>4. Announced
    <3>1. TurnsOf({}) = {} /\ {} \in SUBSET Sessions
      BY DEF TurnsOf
    <3> QED BY <2>1, <2>3, <3>1 DEF Announced
  <2> QED BY <2>1, <2>3, <2>4 DEF Planned
<1>2. IInv /\ Planned /\ Announced /\ [Next]_vars => (Planned /\ Announced)'
  BY KeepsPlanned, KeepsAnnounced
<1>3. IInv /\ Planned /\ Announced /\ StopConditionsHold => PlanSentInFull
  <2> SUFFICES ASSUME IInv, Planned, Announced, StopConditionsHold, runner = "done",
                      ~lifecycle.cancelled, ~plan.timed,
                      plan.cap = NoLimit \/ plan.strategy = "schedule"
               PROVE  counter.sessions = plan.target /\ counter.sent = counter.turns
    BY DEF PlanSentInFull
  <2>1. TypeOK /\ Counted /\ Stages /\ Signals
    BY DEF IInv
  <2>2. NothingLeft
    BY <2>1 DEF Stages, Signals
  <2>3. /\ counter.sent \in Nat /\ counter.rootSent \in Nat /\ counter.turns \in Nat
        /\ counter.sessions \in Nat /\ Cardinality(ToSend) \in Nat
        /\ counter.cap = plan.cap /\ counter.target = plan.target
        /\ counter.target \in Nat \cup {NoLimit}
        /\ counter.rootSent = counter.sent /\ counter.sent <= counter.turns
    BY <2>1, ToSendFinite DEF TypeOK, Counted, Planned
  <2>4. CASE CrossesSessionTarget(counter)
    <3>1. counter.target \in Nat /\ counter.sessions <= plan.target
      BY <2>3, <2>4 DEF StopConditionsHold, CrossesSessionTarget
    <3> QED BY <2>3, <2>4, <3>1 DEF CrossesSessionTarget
  <2>5. CASE CrossesRequestCap(counter)
    <3>1. /\ plan.cap = Cardinality(AllTurns) /\ plan.target = Cardinality(Sessions)
      BY <2>1, <2>3, <2>5, PlansAssumption DEF CrossesRequestCap, TypeOK
    <3>2. PICK S \in SUBSET Sessions : /\ counter.sessions = Cardinality(S)
                                       /\ counter.turns = Cardinality(TurnsOf(S))
      BY DEF Announced
    <3>3. /\ TurnsOf(S) \subseteq AllTurns
          /\ Cardinality(TurnsOf(S)) <= Cardinality(AllTurns)
          /\ Cardinality(AllTurns) = Cardinality(TurnsOf(S)) => AllTurns = TurnsOf(S)
          /\ Cardinality(AllTurns) \in Nat
      <4>1. TurnsOf(S) \in SUBSET AllTurns
        BY DEF TurnsOf
      <4> QED BY <4>1, TurnsFinite, FS_Subset, FS_CardinalityType
    <3>4. counter.sent = counter.turns /\ AllTurns = TurnsOf(S)
      BY <2>3, <2>5, <3>1, <3>2, <3>3 DEF CrossesRequestCap
    <3>5. S = Sessions
      <4> SUFFICES ASSUME NEW s \in Sessions PROVE s \in S
        OBVIOUS
      <4>1. 0 \in 0..(NumTurns[s] - 1)
        BY NumTurnsAssumption
      <4>2. <<s, 0>> \in TurnsOf(S)
        BY <3>4, <4>1, TurnFacts
      <4> QED BY <4>2 DEF TurnsOf
    <3> QED BY <3>1, <3>2, <3>4, <3>5
  <2> QED BY <2>2, <2>4, <2>5 DEF NothingLeft
<1> QED BY Invariance, StopConditionsKept, <1>1, <1>2, <1>3, PTL DEF Spec

-------------------------------------------------------------------------------
\* What the contract sees, and the two parts of it that are Boolean facts.
Excused == lifecycle.cancelled \/ forced

\* A phase that is declared complete has all its requests back, or is excused.
LEMMA CompleteWhenBack ==
  ASSUME IInv, doneEvent \/ AllReturned(counter), lifecycle.state = "sending_complete"
  PROVE  Excused \/ counter.returned = counter.sent
<1>1. TypeOK /\ Counted /\ Stages /\ Signals
  BY DEF IInv
<1>2. counter.finalSent = counter.sent
  BY <1>1 DEF Signals, IsFrozen
<1>3. AllReturned(counter) \/ Excused
  BY <1>1 DEF Signals, Excused
<1>4. AllReturned(counter) => counter.returned >= counter.sent
  BY <1>2 DEF AllReturned
<1>5. /\ counter.returned \in Nat /\ counter.sent \in Nat /\ Cardinality(Wired) \in Nat
      /\ counter.returned + Cardinality(Wired) <= counter.sent
  BY <1>1, FiniteSets DEF TypeOK, Counted
<1> QED BY <1>3, <1>4, <1>5

\* Every step of the phase is a step of the contract, or invisible in it.
LEMMA StepKeepsContract ==
  ASSUME IInv, [Next]_vars
  PROVE  [Contract!Next]_(Contract!contractVars)
<1>1. TypeOK /\ Counted /\ Stages /\ Signals /\ counter \in CounterType
  BY DEF IInv, TypeOK, CounterType
<1>2. ASSUME UNCHANGED <<lifecycle, forced>>, counter'.cap = counter.cap,
             counter'.sent = counter.sent, counter'.returned = counter.returned
      PROVE  UNCHANGED Contract!contractVars
  BY <1>2 DEF Contract!contractVars
<1>3. CASE Issues
  <2>1. UNCHANGED <<lifecycle, forced>>
    <3>1. PICK s \in Sessions : IssueStep(s)
      BY <1>1, <1>3, IssueSteps DEF IInv, Issues
    <3> QED BY <3>1 DEF IssueStep, issuerUnchanged
  <2>2. CASE /\ \E s \in Sessions : Sends(s)
             /\ counter'.sent = counter.sent + 1 /\ counter'.returned = counter.returned
    <3>1. lifecycle.state = "started" /\ RequestsLeft(counter)
      BY <1>1, <2>2, SendsInTime
    <3>2. Contract!Send
      BY <2>1, <2>2, <3>1, PublishedNumbers DEF Contract!Send, RequestsLeft
    <3> QED BY <3>2 DEF Contract!Next
  <2>3. CASE counter'.sent = counter.sent /\ counter'.returned = counter.returned
    BY <1>2, <2>1, <2>3, PublishedNumbers
  <2>4. ASSUME NEW s \in Sessions, CreditReturns(s), counter'.sent = counter.sent,
               counter'.returned = counter.returned + 1
        PROVE  Contract!CountBack
    <3>1. ~PhaseComplete /\ wire[s] # "none"
      BY <2>4 DEF CreditReturns
    <3>2. counter.returned < counter.sent
      <4>1. counter.returned \in Nat /\ counter.sent \in Nat
        BY <1>1 DEF TypeOK
      <4> QED BY <1>1, <3>1, <4>1, WiredInFlight
    <3> QED BY <2>1, <2>4, <3>1, <3>2, PublishedNumbers DEF Contract!CountBack, PhaseComplete
  <2> QED BY <2>2, <2>3, <2>4, PublishedNumbers DEF Contract!Next
<1>4. ASSUME NEW s \in Sessions, CreditReturns(s)
      PROVE  Contract!CountBack
  <2>1. ~PhaseComplete /\ wire[s] # "none" /\ UNCHANGED <<lifecycle, forced>>
    BY <1>4 DEF CreditReturns
  <2>2. /\ counter.returned \in Nat /\ counter.sent \in Nat
        /\ counter.returned < counter.sent
    <3>1. counter.returned \in Nat /\ counter.sent \in Nat
      BY <1>1 DEF TypeOK
    <3> QED BY <1>1, <2>1, <3>1, WiredInFlight
  <2>3. /\ counter'.cap = counter.cap /\ counter'.sent = counter.sent
        /\ counter'.returned = counter.returned + 1
    BY <1>1, <1>4, ReturnSteps DEF Returns
  <2> QED BY <2>1, <2>2, <2>3 DEF Contract!CountBack, PhaseComplete
<1>5. ASSUME NEW s \in Sessions, FirstToken(s)
      PROVE  UNCHANGED Contract!contractVars
  <2>1. counter' = [counter EXCEPT !.prefills = counter.prefills + 1]
    BY <1>1, <1>5, ReturnedCounters DEF FirstToken
  <2>2. /\ counter'.cap = counter.cap /\ counter'.sent = counter.sent
        /\ counter'.returned = counter.returned
    BY <1>1, <2>1 DEF CounterType
  <2> QED BY <1>2, <1>5, <2>2 DEF FirstToken, runVars
<1>6. CASE StopSending
  <2>1. counter' = [counter EXCEPT !.finalSent = counter.sent]
    BY <1>1, <1>6, ReturnedCounters DEF StopSending
  <2>2. /\ counter'.cap = counter.cap /\ counter'.sent = counter.sent
        /\ counter'.returned = counter.returned
    BY <1>1, <2>1 DEF CounterType
  <2>3. /\ lifecycle.state = "started" /\ lifecycle'.state = "sending_complete"
        /\ lifecycle'.cancelled = lifecycle.cancelled /\ forced' = forced
    BY <1>1, <1>6 DEF StopSending, Stages, TypeOK
  <2>4. Contract!StopSending
    BY <2>2, <2>3 DEF Contract!StopSending
  <2> QED BY <2>4 DEF Contract!Next
<1>7. ASSUME lifecycle' = [lifecycle EXCEPT !.state = "complete"],
             counter' = counter, forced' \in {forced, TRUE},
             lifecycle.state = "sending_complete",
             forced' \/ doneEvent \/ AllReturned(counter)
      PROVE  Contract!Complete
  <2>1. lifecycle'.state = "complete" /\ lifecycle'.cancelled = lifecycle.cancelled
    BY <1>1, <1>7 DEF TypeOK
  <2>2. Excused' = Excused \/ Excused' = TRUE
    <3>1. CASE forced' = forced
      BY <2>1, <3>1, Zenon DEF Excused
    <3>2. CASE forced' = TRUE
      BY <3>2, Zenon DEF Excused
    <3> QED BY <1>7, <3>1, <3>2
  <2>3. ~Excused' => counter.returned = counter.sent
    <3>1. ~Excused' => ~Excused /\ ~forced'
      <4>1. forced => forced'
        BY <1>7
      <4> QED BY <2>1, <4>1, Zenon DEF Excused
    <3> QED BY <1>7, <3>1, CompleteWhenBack
  <2> QED BY <1>7, <2>1, <2>2, <2>3, Zenon DEF Contract!Complete, Excused
<1>8. CASE AfterSending
  <2>1. lifecycle.state = "sending_complete" /\ counter' = counter /\ forced' = forced
    BY <1>1, <1>8 DEF AfterSending, Stages, TypeOK, PhaseComplete
  <2>2. CASE lifecycle.cancelled
    <3>1. doneEvent
      BY <1>1, <2>2 DEF Stages
    <3> QED BY <1>7, <1>8, <2>1, <2>2, <3>1 DEF AfterSending, MarkComplete, Contract!Next
  <2>3. CASE ~lifecycle.cancelled /\ AllReturned(counter)
    BY <1>7, <1>8, <2>1, <2>3 DEF AfterSending, MarkComplete, Contract!Next
  <2>4. CASE ~lifecycle.cancelled /\ ~AllReturned(counter)
    BY <1>2, <1>8, <2>1, <2>4 DEF AfterSending
  <2> QED BY <2>2, <2>3, <2>4
<1>9. CASE AllCreditsBack
  <2>1. lifecycle.state = "sending_complete"
    BY <1>1, <1>9 DEF AllCreditsBack, Stages, TypeOK, PhaseComplete
  <2> QED BY <1>7, <1>9, <2>1 DEF AllCreditsBack, MarkComplete, Contract!Next
<1>10. CASE ForceCompletion
  <2>1. lifecycle.state = "sending_complete"
    BY <1>1, <1>10 DEF ForceCompletion, Stages, TypeOK, PhaseComplete
  <2> QED BY <1>7, <1>10, <2>1 DEF ForceCompletion, MarkComplete, Contract!Next
<1>11. CASE Cancel
  <2>1. /\ lifecycle'.state = lifecycle.state /\ lifecycle'.cancelled = TRUE
        /\ counter' = counter /\ forced' = forced /\ ~lifecycle.cancelled
    BY <1>1, <1>11 DEF Cancel, TypeOK
  <2>2. CASE forced
    <3>1. UNCHANGED (lifecycle.cancelled \/ forced)
      BY <2>1, <2>2, Zenon
    <3> QED BY <2>1, <3>1, Zenon DEF Contract!contractVars
  <2>3. CASE ~forced
    <3>1. Contract!Excuse
      BY <2>1, <2>3, Zenon DEF Contract!Excuse
    <3> QED BY <3>1 DEF Contract!Next
  <2> QED BY <2>2, <2>3
<1>12. ASSUME NEW s \in Sessions, QueueDelayed(s) \/ LateReturn(s)
       PROVE  UNCHANGED Contract!contractVars
  BY <1>2, <1>12 DEF QueueDelayed, LateReturn, runVars
<1>13. CASE \/ LeaveLoop \/ WorkersCrash \/ CancelInFlight \/ Close \/ TimePasses
            \/ UNCHANGED vars
  <2>1. UNCHANGED <<lifecycle, forced, counter>>
    BY <1>13 DEF LeaveLoop, WorkersCrash, CancelInFlight, Close, TimePasses, vars, runVars
  <2> QED BY <1>2, <2>1
<1> QED BY <1>3, <1>4, <1>5, <1>6, <1>8, <1>9, <1>10, <1>11, <1>12, <1>13, NextSteps
       DEF Contract!Next

\* The published statistics keep the contract of PhaseContract.
THEOREM ContractImplemented == Spec => ImplementsContract
<1>1. Init => Contract!Init
  <2> SUFFICES ASSUME Init PROVE Contract!Init
    OBVIOUS
  <2>1. plan \in PlanType
    BY PlansAssumption DEF Init
  <2>2. /\ counter.cap = plan.cap /\ counter.sent = 0 /\ counter.returned = 0
        /\ lifecycle.state = "started" /\ lifecycle.cancelled = FALSE /\ forced = FALSE
    BY DEF Init, NewCounter
  <2> QED BY <2>1, <2>2 DEF PlanType, Contract!Init
<1>2. IInv /\ [Next]_vars => [Contract!Next]_(Contract!contractVars)
  BY StepKeepsContract
<1> QED BY Invariance, <1>1, <1>2, PTL DEF Spec, ImplementsContract, Contract!Spec
===============================================================================
