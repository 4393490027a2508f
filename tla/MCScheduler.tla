---------------------------- MODULE MCScheduler ----------------------------
(* Scheduler on small instances: days of six minutes and, in one zone each, no *)
(* change of the offset, a gap or an overlap of two minutes in the middle of   *)
(* a day, at its start and at its end.                                         *)
EXTENDS Scheduler

CONSTANT S1

SomeZones ==
  {[at |-> 0, before |-> 0, after |-> 0]}
    \cup [at : {6, 8, 10}, before : {0}, after : {2}]
    \cup [at : {6, 8, 10}, before : {2}, after : {0}]

SomeSteps == [{1} -> {1, 3, 5}] \cup {[k \in {1, 2} |-> 3 * k - 2]}
=============================================================================
