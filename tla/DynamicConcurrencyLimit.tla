------------------------ MODULE DynamicConcurrencyLimit ------------------------
(***************************************************************************)
(* The concurrency limit as a state machine: tasks that acquire, wait,     *)
(* are cancelled and release, while a ramp or a new phase moves the limit. *)
(***************************************************************************)
EXTENDS ConcurrencyLimit, FiniteSets

CONSTANTS Tasks,      \* the asyncio tasks that compete for slots
          MaxLimit    \* the largest limit a ramp or a phase may set

ASSUME TasksAssumption == IsFiniteSet(Tasks)
ASSUME MaxLimitAssumption == MaxLimit \in Nat

VARIABLES sem,        \* the limit, as a record of ConcurrencyLimit
          holding     \* the tasks that acquired a slot and have not released it

vars == <<sem, holding>>

InSeq(s, t) == \E i \in 1..Len(s) : s[i] = t
Parked == {t \in Tasks : InSeq(sem.waiting, t)}
Woken == {t \in Tasks : InSeq(sem.woken, t)}
Idle(t) == t \notin holding /\ t \notin Parked /\ t \notin Woken

Init ==
  /\ \E n \in 0..MaxLimit : sem = NewLimit(n)
  /\ holding = {}

\* acquire() on an unlocked limit, and try_acquire() that succeeds.
AcquireNow(t) ==
  /\ Idle(t)
  /\ ~Locked(sem)
  /\ sem' = TakeSlot(sem)
  /\ holding' = holding \cup {t}

\* acquire() on a locked limit.
AcquireWaits(t) ==
  /\ Idle(t)
  /\ Locked(sem)
  /\ sem' = Park(sem, t)
  /\ UNCHANGED holding

\* The event loop runs the oldest woken task: its acquire() returns.
AcquireReturns ==
  /\ sem.woken # <<>>
  /\ holding' = holding \cup {Head(sem.woken)}
  /\ sem' = Resume(sem)

\* A task is cancelled inside acquire().
CancelAcquire(t) ==
  /\ \/ \E i \in 1..Len(sem.waiting) :
          sem.waiting[i] = t /\ sem' = CancelWaiting(sem, i)
     \/ \E i \in 1..Len(sem.woken) :
          sem.woken[i] = t /\ sem' = CancelWoken(sem, i)
  /\ UNCHANGED holding

ReleaseSlot(t) ==
  /\ t \in holding
  /\ sem' = Release(sem)
  /\ holding' = holding \ {t}

ChangeLimit(n) ==
  /\ n # sem.limit
  /\ sem' = SetLimit(sem, n)
  /\ UNCHANGED holding

Next ==
  \/ \E t \in Tasks : \/ AcquireNow(t)
                      \/ AcquireWaits(t)
                      \/ CancelAcquire(t)
                      \/ ReleaseSlot(t)
  \/ AcquireReturns
  \/ \E n \in 0..MaxLimit : ChangeLimit(n)

\* Tasks that hold a slot give it back, and the event loop runs what it woke.
\* Nothing obliges a limit to change or a task to be cancelled.
Fairness ==
  /\ WF_vars(AcquireReturns)
  /\ \A t \in Tasks : WF_vars(ReleaseSlot(t))

Spec == Init /\ [][Next]_vars /\ Fairness

-------------------------------------------------------------------------------
\* Types; in particular the semaphore's value, which set_limit decrements by
\* hand, never goes below zero.
TypeOK ==
  /\ sem \in [value : Nat, waiting : Seq(Tasks), woken : Seq(Tasks),
              limit : 0..MaxLimit, debt : Nat]
  /\ holding \subseteq Tasks

\* Slots are neither created nor lost: what is free, held or handed over is
\* exactly the limit plus the debt still to be absorbed, whatever the order of
\* ramps, releases and cancellations.
SlotConservation ==
  sem.value + Len(sem.woken) + Cardinality(holding) = sem.limit + sem.debt

\* A free slot is never overlooked: while a task is parked next to a free slot,
\* some woken task is still to run and will hand the slot on.
NoLostWakeup ==
  (sem.value > 0 /\ sem.waiting # <<>>) => sem.woken # <<>>

\* No starvation: if the limit is eventually positive for good, a parked task
\* does not wait for ever.
EveryWaiterServed ==
  (<>[](sem.limit > 0)) => \A t \in Tasks : (t \in Parked) ~> (t \notin Parked)
===============================================================================
