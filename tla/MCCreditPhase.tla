---------------------------- MODULE MCCreditPhase ----------------------------
EXTENDS CreditPhase, TLC

CONSTANTS s1, s2, s3

MCSessions == {s1, s2, s3}
MCNumTurns == s1 :> 1 @@ s2 :> 2 @@ s3 :> 3

\* Request rate, as a warmup or a profiling phase runs it.
Rate(cap, target) ==
  [strategy |-> "rate", cap |-> cap, target |-> target, initial |-> {},
   timed |-> FALSE, graceEnds |-> TRUE]

\* The fixed schedule of the three conversations.
Schedule ==
  [strategy |-> "schedule", cap |-> 6, target |-> 3, initial |-> MCSessions,
   timed |-> FALSE, graceEnds |-> TRUE]

\* User-centric with two users: one has virtually sent all but its last turn, the
\* other has just begun.
Users(cap, target) ==
  [strategy |-> "users", cap |-> cap, target |-> target, initial |-> {s1, s2},
   timed |-> FALSE, graceEnds |-> TRUE]

Timed(p, graceEnds) == [p EXCEPT !.timed = TRUE, !.graceEnds = graceEnds]

\* Phases that counting ends, phases that time ends whatever happens, and
\* phases that either may end first.
AllPlans == {Rate(5, NoLimit), Rate(NoLimit, 2), Schedule,
             Users(4, NoLimit), Users(NoLimit, 2),
             Timed(Rate(4, NoLimit), TRUE), Timed(Rate(NoLimit, NoLimit), FALSE),
             Timed(Schedule, TRUE), Timed(Users(NoLimit, NoLimit), FALSE),
             Timed(Users(4, NoLimit), TRUE)}

TwoSessions == {s1, s2}
TwoTurnsEach == s1 :> 2 @@ s2 :> 2

DurationPlans == {Timed(Rate(NoLimit, NoLimit), TRUE)}
===============================================================================
