----------------------------- MODULE Scheduler -----------------------------
(***************************************************************************)
(* The triggers of scheduler.js: one self-rescheduling timer per step of   *)
(* every enabled schedule, the routes that re-arm and disarm them, and the *)
(* process that starts and stops them, over the local wall clock of a host *)
(* whose offset from UTC changes once.  What a fire does to the units is   *)
(* module Firing: here a fire takes any time, longer than a day included.  *)
(*                                                                         *)
(* Time is counted in minutes; a day of the instances has few of them.     *)
(* A timer runs late when the host was busy, suspended or its clock was    *)
(* set forward.  Step ids are distinct, as the client makes them.          *)
(***************************************************************************)
EXTENDS Integers

CONSTANTS
  Schedules,  \* schedule ids
  StepLists,  \* what a schedule may list: step id -> local time of day
  Gens,       \* bound: triggers of one step that exist at a time, cancelled
              \* ones whose fire is not over included
  Zones,      \* [at, before, after]: the offset changes at UTC time `at`
  DayLength,  \* minutes of a local day
  Horizon,    \* bound: the last minute
  Null

ASSUME TimesAssumption == DayLength \in Nat \ {0, 1} /\ Horizon \in Nat
ASSUME ZonesAssumption == Zones \subseteq [at : Int, before : Int, after : Int]
ASSUME GensAssumption == Gens # {}
ASSUME StepsAssumption ==
  \A steps \in StepLists : steps \in [DOMAIN steps -> 0..(DayLength - 1)]

\* A field without a value is no schedule and no trigger.
ASSUME NullAssumption ==
  /\ Null \notin [enabled : BOOLEAN, steps : StepLists]
  /\ Null \notin [time : Int, firing : BOOLEAN, cancelled : BOOLEAN, target : Int, served : Int]

VARIABLES
  now,      \* UTC minute
  zone,     \* the host's zone
  run,      \* the process: up, stopping, down
  store,    \* s -> [enabled, steps], or Null
  armed,    \* s -> handles of its live triggers
  trigger   \* handle -> trigger object, or Null

vars == <<now, zone, run, store, armed, trigger>>

StepIds == UNION {DOMAIN steps : steps \in StepLists}
Times == 0..(DayLength - 1)

\* A trigger object: its s, its step, and how often that was built over.
Handles == Schedules \X StepIds \X Gens

\* served is history: the occurrence the trigger fired last, or the moment it
\* was built.
Trigger == [time : Times, firing : BOOLEAN, cancelled : BOOLEAN,
            target : Int, served : Int]

-----------------------------------------------------------------------------
(* Local time, as JavaScript's Date has it. *)

Local(t) == t + (IF t < zone.at THEN zone.before ELSE zone.after)

DayOf(t) == Local(t) \div DayLength
TimeOf(t) == Local(t) % DayLength

\* The moment of a local time: the first of two, and across a gap by the offset
\* before it, which shows the time rolled forward by the gap.
Utc(local) ==
  IF local - zone.before >= zone.at /\ local - zone.after >= zone.at
  THEN local - zone.after
  ELSE local - zone.before

SetHours(t, time) == Utc(DayOf(t) * DayLength + time)
NextDate(t) == Utc((DayOf(t) + 1) * DayLength + TimeOf(t))

\* Variant: tomorrow is 24 hours from today.
NextByInterval(time, from) ==
  LET today == SetHours(from, time)
  IN  IF today > from THEN today ELSE today + DayLength

NextOccurrence(time, from) ==
  LET today == SetHours(from, time)
  IN  IF today > from THEN today ELSE SetHours(NextDate(today), time)

-----------------------------------------------------------------------------
(* Triggers. *)

Init ==
  /\ now = 0
  /\ zone \in Zones
  /\ run = "up"
  /\ store = [s \in Schedules |-> Null]
  /\ armed = [s \in Schedules |-> {}]
  /\ trigger = [h \in Handles |-> Null]

\* Variant: a new trigger has no target yet.
NewTriggerUnset(time) ==
  [time |-> time, firing |-> FALSE, cancelled |-> FALSE, target |-> Null, served |-> now]

\* Variant: an occurrence that is due now counts as to come.
NewTriggerFromDue(time) ==
  [time |-> time, firing |-> FALSE, cancelled |-> FALSE,
   target |-> NextOccurrence(time, now - 1), served |-> now]

\* makeTrigger, scheduleNext: a trigger built now.
NewTrigger(time) ==
  [time |-> time, firing |-> FALSE, cancelled |-> FALSE,
   target |-> NextOccurrence(time, now), served |-> now]

\* Variant: only timers are cleared; a fire that has begun is not told.
DisarmedTimers(A) ==
  [h \in Handles |->
     IF h \in A /\ trigger[h] # Null /\ ~trigger[h].firing THEN Null ELSE trigger[h]]

\* The trigger objects after those of A are cancelled: a timer that is cleared
\* is gone, a fire that has begun goes on (and its history ends).
Disarmed(A) ==
  [h \in Handles |->
     IF h \notin A THEN trigger[h]
     ELSE IF ~trigger[h].firing THEN Null
     ELSE [trigger[h] EXCEPT !.cancelled = TRUE, !.served = trigger[h].target]]

Enabled(sched) == sched # Null /\ sched.enabled

StepsOf(sched) == IF Enabled(sched) THEN DOMAIN sched.steps ELSE {}

Room(T, s, k) == {g \in Gens : T[<<s, k, g>>] = Null}

\* Handles for the triggers of s, one per step, that T has not given out.
Fresh(T, s, sched) ==
  {<<s, k, CHOOSE g \in Room(T, s, k) : TRUE>> : k \in StepsOf(sched)}

\* armSchedule after the old triggers are gone from T. An enabled schedule gets
\* a trigger per step, a disabled one none.
Arm(T, fresh, stored) ==
  [h \in Handles |-> IF h \in fresh THEN NewTrigger(stored[h[1]].steps[h[2]]) ELSE T[h]]

PutSchedule(s, sched) ==
  LET cleared == Disarmed(armed[s])
  IN  /\ run = "up"
      /\ \A k \in StepsOf(sched) : Room(cleared, s, k) # {}
      /\ store' = [store EXCEPT ![s] = sched]
      /\ armed' = [armed EXCEPT ![s] = Fresh(cleared, s, sched)]
      /\ trigger' = Arm(cleared, armed'[s], store')
      /\ UNCHANGED <<now, zone, run>>

DeleteSchedule(s) ==
  /\ run = "up"
  /\ store' = [store EXCEPT ![s] = Null]
  /\ armed' = [armed EXCEPT ![s] = {}]
  /\ trigger' = Disarmed(armed[s])
  /\ UNCHANGED <<now, zone, run>>

-----------------------------------------------------------------------------
(* Fires. *)

\* Variant: a timer that comes late is dropped, and its trigger never armed again.
FireOnTime(h) ==
  /\ run # "down"
  /\ trigger[h] # Null
  /\ ~trigger[h].firing
  /\ trigger[h].target = now
  /\ trigger' = [trigger EXCEPT ![h].firing = TRUE]
  /\ UNCHANGED <<now, zone, run, store, armed>>

FireBegins(h) ==
  /\ run # "down"
  /\ trigger[h] # Null
  /\ ~trigger[h].firing /\ ~trigger[h].cancelled
  /\ trigger[h].target <= now
  /\ trigger' = [trigger EXCEPT ![h].firing = TRUE]
  /\ UNCHANGED <<now, zone, run, store, armed>>

\* Variant: the next occurrence is counted from the end of the fire.
RearmedFromNow(t) ==
  [t EXCEPT !.firing = FALSE, !.served = t.target,
            !.target = NextOccurrence(t.time, now)]

\* scheduleNext from one minute past the target.
Rearmed(t) ==
  [t EXCEPT !.firing = FALSE, !.served = t.target,
            !.target = NextOccurrence(t.time, t.target + 1)]

\* The trigger arms for the next occurrence past its target, unless it was
\* cancelled while it fired.
FireEnds(h) ==
  /\ run # "down"
  /\ trigger[h] # Null
  /\ trigger[h].firing
  /\ trigger' = [trigger EXCEPT ![h] =
                   IF trigger[h].cancelled THEN Null ELSE Rearmed(trigger[h])]
  /\ UNCHANGED <<now, zone, run, store, armed>>

-----------------------------------------------------------------------------
(* The process and the clock. *)

\* stopScheduler; fires that have begun go on until the process exits.
Shutdown ==
  /\ run = "up"
  /\ run' = "stopping"
  /\ armed' = [s \in Schedules |-> {}]
  /\ trigger' = Disarmed(UNION {armed[s] : s \in Schedules})
  /\ UNCHANGED <<now, zone, store>>

\* Killed, or at the end of a shutdown.
Exit ==
  /\ run # "down"
  /\ run' = "down"
  /\ armed' = [s \in Schedules |-> {}]
  /\ trigger' = [h \in Handles |-> Null]
  /\ UNCHANGED <<now, zone, store>>

\* startScheduler arms what was loaded, which Persistence is about.
StartUp ==
  /\ run = "down"
  /\ run' = "up"
  /\ armed' = [s \in Schedules |-> Fresh(trigger, s, store[s])]
  /\ trigger' = Arm(trigger, UNION {armed'[s] : s \in Schedules}, store)
  /\ UNCHANGED <<now, zone, store>>

Tick ==
  /\ now < Horizon
  /\ now' = now + 1
  /\ UNCHANGED <<zone, run, store, armed, trigger>>

Stored == [enabled : BOOLEAN, steps : StepLists]

UserStep ==
  \E s \in Schedules :
    \/ \E sched \in Stored : PutSchedule(s, sched)
    \/ DeleteSchedule(s)

FireStep == \E h \in Handles : FireBegins(h) \/ FireEnds(h)

ProcessStep == Shutdown \/ Exit \/ StartUp

Next == UserStep \/ FireStep \/ ProcessStep \/ Tick

\* A timer that is due fires while the process lives, and a fire ends: every
\* call to a unit has a timeout. Users, the process and the clock are not fair.
Fairness == \A h \in Handles : WF_vars(FireBegins(h)) /\ WF_vars(FireEnds(h))

Spec == Init /\ [][Next]_vars /\ Fairness

-----------------------------------------------------------------------------
(* Properties. *)

\* Types of the stored schedules and the triggers.
TypeOK ==
  /\ now \in 0..Horizon
  /\ zone \in Zones
  /\ run \in {"up", "stopping", "down"}
  /\ store \in [Schedules -> Stored \cup {Null}]
  /\ armed \in [Schedules -> SUBSET Handles]
  /\ trigger \in [Handles -> Trigger \cup {Null}]

Live(h) == trigger[h] # Null /\ ~trigger[h].cancelled

\* While the process is up, the triggers that may still fire or arm are the
\* armed ones, one per step of every stored and enabled schedule, for its time:
\* no edit, disable, delete, shutdown or restart leaves one behind or loses one,
\* in whatever stage of a fire it comes.
ArmedMatchesStore ==
  \A s \in Schedules :
    /\ armed[s] = {h \in Handles : h[1] = s /\ Live(h)}
    /\ \A h \in armed[s] : trigger[h].time = store[s].steps[h[2]]
    /\ {h[2] : h \in armed[s]} = IF run = "up" THEN StepsOf(store[s]) ELSE {}
    /\ \A h, o \in armed[s] : h[2] = o[2] => h = o

\* The occurrence of a local date, and whether a gap rolled it into the next.
Occurrence(date, time) == Utc(date * DayLength + time)
Rolled(date, time) == DayOf(Occurrence(date, time)) # date

\* Dates whose occurrence lies after `from` and no later than `to`: by less than
\* a day, a gap may roll it off its date.
DatesBetween(time, from, to) ==
  {d \in (DayOf(from) - 1)..(DayOf(to) + 1) :
     from < Occurrence(d, time) /\ Occurrence(d, time) <= to}

\* The offset change neither takes the date back nor makes up a day. Where an
\* overlap reaches into the day before, an occurrence in the last minute of the
\* first pass is found again, and fired again, without end: no zone in use does
\* that (St. John's did until 2011: 00:01 became 23:01).
RegularZone ==
  /\ DayOf(zone.at - 1) <= DayOf(zone.at)
  /\ zone.after - zone.before <= DayLength - 2

WaitsForNext(t) ==
  LET dates == DatesBetween(t.time, t.served, t.target)
  IN  /\ \E d \in dates : Occurrence(d, t.time) = t.target
      /\ \A d \in dates : Occurrence(d, t.time) = t.target \/ Rolled(d, t.time)

\* A waiting trigger waits for the earliest occurrence after the one it fired
\* last, or after the moment it was built, across every change of the offset
\* and however late or long its fires were: no day is skipped, none repeated.
\* Only an occurrence that a gap rolls into the next day may be passed over.
NoDaySkipped ==
  RegularZone =>
    \A h \in Handles : trigger[h] # Null /\ ~trigger[h].firing => WaitsForNext(trigger[h])

\* A fire that an edit overtook goes on beside the trigger that replaced its own,
\* which waits for a later occurrence: no edit has one fired again.
NoOccurrenceTwice ==
  RegularZone =>
    \A h, o \in Handles :
      /\ h[1] = o[1] /\ h[2] = o[2]
      /\ Live(h)
      /\ trigger[o] # Null /\ trigger[o].cancelled
      => trigger[o].target < trigger[h].target

\* README.md "Missed fires are skipped, not replayed": of the occurrences that
\* passed while the host slept or a fire lasted, at most the last one is fired.
MissedFiresAreSkipped ==
  [][ \A h \in Handles :
        /\ trigger[h] # Null /\ trigger'[h] # Null
        /\ ~trigger[h].firing /\ trigger'[h].firing
        => DatesBetween(trigger[h].time, trigger[h].target, now) = {} ]_vars

\* Whatever passes while a fire lasts or the host sleeps, a trigger does not fall
\* silent: unless its schedule is changed or the process ends, it comes to wait
\* for a time to come again.
NoTriggerIsStuck ==
  RegularZone => \A h \in Handles : []<>(Live(h) => trigger[h].target > now)
=============================================================================
