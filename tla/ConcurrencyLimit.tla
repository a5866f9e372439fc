--------------------------- MODULE ConcurrencyLimit ---------------------------
(***************************************************************************)
(* One DynamicConcurrencyLimit as a value, and what each of its methods    *)
(* does to it (aiperf/timing/concurrency.py).                              *)
(*                                                                         *)
(* The class wraps an asyncio.Semaphore.  What the semaphore does is the   *)
(* standard library's (CPython 3.11 and later) and decides everything      *)
(* interesting here: it is first-in first-out, a release hands its slot to *)
(* the first waiter's future, and the waiter only runs in a later turn of  *)
(* the event loop.  Between the two the waiter is "woken": it owns the     *)
(* slot but has not run, and the semaphore still reports itself locked.    *)
(***************************************************************************)
EXTENDS Integers, Sequences

(***************************************************************************)
(* value    the semaphore's _value                                         *)
(* waiting  tasks parked on an unresolved future, oldest first             *)
(* woken    tasks whose future is resolved but that have not run yet, in   *)
(*          the order the event loop will run them                         *)
(* limit    _current_limit                                                 *)
(* debt     _debt, releases still to be absorbed after a decrease          *)
(***************************************************************************)
NewLimit(n) ==
  [value |-> n, waiting |-> <<>>, woken |-> <<>>, limit |-> n, debt |-> 0]

Smaller(m, n) == IF m < n THEN m ELSE n

\* asyncio.Semaphore.locked(): no slot, or somebody is still in the queue.
Locked(l) == l.value = 0 \/ l.waiting # <<>> \/ l.woken # <<>>

\* asyncio.Semaphore._wake_up_next(), up to n times while slots remain.
Wake(l, n) ==
  LET k == Smaller(n, Smaller(l.value, Len(l.waiting)))
  IN  [l EXCEPT !.value   = @ - k,
                !.waiting = SubSeq(@, k + 1, Len(@)),
                !.woken   = @ \o SubSeq(l.waiting, 1, k)]

\* n calls of asyncio.Semaphore.release().
SemaphoreRelease(l, n) == Wake([l EXCEPT !.value = @ + n], n)

\* asyncio.Semaphore.acquire() that finds the semaphore unlocked.
TakeSlot(l) == [l EXCEPT !.value = @ - 1]

\* asyncio.Semaphore.acquire() that finds it locked: park on a new future.
Park(l, t) == [l EXCEPT !.waiting = Append(@, t)]

\* The oldest woken task runs: it leaves the queue and, like every exit from
\* acquire(), wakes as many of the others as there are slots for.
Resume(l) == Wake([l EXCEPT !.woken = Tail(@)], l.value)

DropAt(s, i) == SubSeq(s, 1, i - 1) \o SubSeq(s, i + 1, Len(s))

\* A parked task is cancelled: its future is, and it leaves the queue.
CancelWaiting(l, i) == Wake([l EXCEPT !.waiting = DropAt(@, i)], l.value)

\* A woken task is cancelled before it runs: it passes its slot on.
CancelWoken(l, i) ==
  LET gone == [l EXCEPT !.woken = DropAt(@, i)]
  IN  Wake([gone EXCEPT !.value = @ + 1], l.value + 1)

\* Every task in acquire() is cancelled at once: parked ones leave, woken ones
\* give their slots back, and nobody is left to pass them to.
CancelAll(l) ==
  LET returned == [l EXCEPT !.value = @ + Len(l.woken)]
      nobody   == [returned EXCEPT !.waiting = <<>>]
  IN  [nobody EXCEPT !.woken = <<>>]

\* The task t is cancelled where it waits, parked or woken, if it does.
PlacesOf(t, q) == {i \in 1..Len(q) : q[i] = t}

CancelTask(l, t) ==
  IF PlacesOf(t, l.waiting) # {}
    THEN CancelWaiting(l, CHOOSE i \in PlacesOf(t, l.waiting) : TRUE)
    ELSE IF PlacesOf(t, l.woken) # {}
           THEN CancelWoken(l, CHOOSE i \in PlacesOf(t, l.woken) : TRUE)
           ELSE l

\* Every task but t is cancelled.
Kept(q, t) == IF PlacesOf(t, q) # {} THEN <<t>> ELSE <<>>

CancelAllBut(l, t) ==
  LET free     == l.value + Len(l.woken) - Len(Kept(l.woken, t))
      returned == [l EXCEPT !.value = free]
      parked   == [returned EXCEPT !.waiting = Kept(@, t)]
  IN  Wake([parked EXCEPT !.woken = Kept(@, t)], free)

\* DynamicConcurrencyLimit.release(): debt absorbs the slot.
Release(l) ==
  IF l.debt > 0 THEN [l EXCEPT !.debt = @ - 1] ELSE SemaphoreRelease(l, 1)

\* DynamicConcurrencyLimit.set_limit(): an increase pays debt first, a decrease
\* drains free slots first when the semaphore is not locked.
\* Slips of one definition each are kept beside it: the runs' properties must
\* tell the code from the slip.
RaiseLimitFreeingPaidSlots(l, n) ==      \* paid debt is freed again
  LET diff == n - l.limit
      paid == [l EXCEPT !.debt = @ - Smaller(diff, l.debt)]
  IN  SemaphoreRelease([paid EXCEPT !.limit = n], diff)

RaiseLimitSilently(l, n) ==              \* the counter is raised by hand
  LET diff   == n - l.limit
      cancel == Smaller(diff, l.debt)
      paid   == [l EXCEPT !.debt = @ - cancel]
      added  == [paid EXCEPT !.value = @ + (diff - cancel)]
  IN  [added EXCEPT !.limit = n]

LowerLimitUnclamped(l, n) ==             \* min(diff, _value) forgotten
  LET diff    == l.limit - n
      drain   == IF Locked(l) THEN 0 ELSE diff
      drained == [l EXCEPT !.value = @ - drain]
      owing   == [drained EXCEPT !.debt = @ + (diff - drain)]
  IN  [owing EXCEPT !.limit = n]

RaiseLimit(l, n) ==
  LET diff   == n - l.limit
      cancel == Smaller(diff, l.debt)
      paid   == [l EXCEPT !.debt = @ - cancel]
  IN  SemaphoreRelease([paid EXCEPT !.limit = n], diff - cancel)

LowerLimit(l, n) ==
  LET diff    == l.limit - n
      drain   == IF Locked(l) THEN 0 ELSE Smaller(diff, l.value)
      drained == [l EXCEPT !.value = @ - drain]
      owing   == [drained EXCEPT !.debt = @ + (diff - drain)]
  IN  [owing EXCEPT !.limit = n]

SetLimit(l, n) == IF n > l.limit THEN RaiseLimit(l, n) ELSE LowerLimit(l, n)

\* n calls of release().
ReleaseMany(l, n) ==
  LET paid == Smaller(n, l.debt)
  IN  SemaphoreRelease([l EXCEPT !.debt = @ - paid], n - paid)

\* effective_slots, and the held count the stuck-slot sweep computes from it.
EffectiveSlots(l) == IF l.value > l.debt THEN l.value - l.debt ELSE 0
HeldSlots(l) == IF l.limit > EffectiveSlots(l) THEN l.limit - EffectiveSlots(l) ELSE 0
===============================================================================
