-------------------------- MODULE SchedulerProofs --------------------------
(***************************************************************************)
(* Theorems about Scheduler, for every set of schedules and step lists,    *)
(* every length of the day and every zone: the types, and that the armed   *)
(* triggers are those the stored schedules ask for.                        *)
(***************************************************************************)
EXTENDS Scheduler, TLAPS

(* A process that is down has no trigger, so a start finds room for all. *)
DownIsEmpty == run = "down" => \A h \in Handles : trigger[h] = Null

Inv == TypeOK /\ ArmedMatchesStore /\ DownIsEmpty

-----------------------------------------------------------------------------
(* Types of the parts. *)

LEMMA NullIsNothing == Null \notin Stored /\ Null \notin Trigger
BY NullAssumption DEF Stored, Trigger, Times

(* The occurrence of a time is a moment, whatever the zone. *)
LEMMA OccurrenceType ==
  ASSUME zone \in Zones, NEW time \in Times, NEW from \in Int
  PROVE  NextOccurrence(time, from) \in Int
<1> USE TimesAssumption
<1>1. zone.at \in Int /\ zone.before \in Int /\ zone.after \in Int
  BY ZonesAssumption
<1>2. \A local \in Int : Utc(local) \in Int
  BY <1>1 DEF Utc
<1>3. \A t \in Int : DayOf(t) \in Int /\ TimeOf(t) \in Int
  BY <1>1 DEF DayOf, TimeOf, Local
<1>4. \A t \in Int : DayOf(t) * DayLength + time \in Int
  BY <1>3 DEF Times
<1>5. \A t \in Int : SetHours(t, time) \in Int
  BY <1>2, <1>4 DEF SetHours
<1>6. \A t \in Int : NextDate(t) \in Int
  <2> TAKE t \in Int
  <2>1. (DayOf(t) + 1) * DayLength + TimeOf(t) \in Int
    BY <1>3
  <2> QED BY <2>1, <1>2 DEF NextDate
<1> QED BY <1>5, <1>6 DEF NextOccurrence

LEMMA NewTriggerType ==
  ASSUME TypeOK, NEW time \in Times
  PROVE  /\ NewTrigger(time) \in Trigger
         /\ NewTrigger(time).time = time
         /\ ~NewTrigger(time).cancelled
<1>1. now \in Int
  BY TimesAssumption DEF TypeOK
<1>2. NextOccurrence(time, now) \in Int
  BY <1>1, OccurrenceType DEF TypeOK
<1> QED BY <1>1, <1>2 DEF NewTrigger, Trigger

(* Each step of a stored and enabled schedule has a time of day. *)
LEMMA StepTimes ==
  ASSUME NEW sched \in Stored \cup {Null}, NEW k \in StepsOf(sched)
  PROVE  k \in StepIds /\ sched.steps[k] \in Times /\ Enabled(sched)
<1>1. Enabled(sched) /\ k \in DOMAIN sched.steps
  BY DEF StepsOf
<1>2. sched.steps \in StepLists
  BY <1>1 DEF Enabled, Stored
<1> QED BY <1>1, <1>2, StepsAssumption DEF StepIds, Times

-----------------------------------------------------------------------------
(* Cancelling and arming. *)

(* After the live triggers A are cancelled, none of A is live, and all else is *)
(* as it was.                                                                  *)
LEMMA DisarmedTriggers ==
  ASSUME TypeOK, NEW A \in SUBSET Handles, \A h \in A : Live(h)
  PROVE  /\ Disarmed(A) \in [Handles -> Trigger \cup {Null}]
         /\ \A h \in Handles \ A : Disarmed(A)[h] = trigger[h]
         /\ \A h \in A : Disarmed(A)[h] # Null => Disarmed(A)[h].cancelled
<1>1. ASSUME NEW h \in A
      PROVE  /\ Disarmed(A)[h] \in Trigger \cup {Null}
             /\ Disarmed(A)[h] # Null => Disarmed(A)[h].cancelled
  <2>1. trigger[h] \in Trigger
    BY <1>1 DEF Live, TypeOK
  <2>2. [trigger[h] EXCEPT !.cancelled = TRUE, !.served = trigger[h].target] \in Trigger
    BY <2>1 DEF Trigger
  <2>3. [trigger[h] EXCEPT !.cancelled = TRUE, !.served = trigger[h].target].cancelled
    BY <2>1 DEF Trigger
  <2> QED BY <2>2, <2>3 DEF Disarmed
<1>2. \A h \in Handles \ A : Disarmed(A)[h] = trigger[h]
  BY DEF Disarmed
<1>3. ASSUME NEW h \in Handles PROVE Disarmed(A)[h] \in Trigger \cup {Null}
  BY <1>1, <1>2 DEF TypeOK
<1>4. Disarmed(A) = [h \in Handles |-> Disarmed(A)[h]]
  BY DEF Disarmed
<1> QED BY <1>1, <1>2, <1>3, <1>4

(* The handles given out to a schedule with room for all its steps: one per    *)
(* step, and none that is in use.                                              *)
LEMMA FreshHandles ==
  ASSUME NEW T, NEW s \in Schedules, NEW sched \in Stored \cup {Null},
         \A k \in StepsOf(sched) : Room(T, s, k) # {}
  PROVE  /\ Fresh(T, s, sched) \in SUBSET Handles
         /\ \A h \in Fresh(T, s, sched) :
              h[1] = s /\ h[2] \in StepsOf(sched) /\ T[h] = Null
         /\ \A h, o \in Fresh(T, s, sched) : h[2] = o[2] => h = o
         /\ {h[2] : h \in Fresh(T, s, sched)} = StepsOf(sched)
<1> DEFINE Handle(k) == <<s, k, CHOOSE g \in Room(T, s, k) : TRUE>>
<1>1. Fresh(T, s, sched) = {Handle(k) : k \in StepsOf(sched)}
  BY DEF Fresh
<1>2. \A k \in StepsOf(sched) :
        Handle(k) \in Handles /\ T[Handle(k)] = Null
        /\ Handle(k)[1] = s /\ Handle(k)[2] = k
  <2> TAKE k \in StepsOf(sched)
  <2>1. (CHOOSE g \in Room(T, s, k) : TRUE) \in Room(T, s, k)
    OBVIOUS
  <2>2. k \in StepIds
    BY StepTimes
  <2> QED BY <2>1, <2>2 DEF Room, Handles
<1> HIDE DEF Handle
<1> QED BY <1>1, <1>2

(* Arming: the handles given out hold live triggers for their steps' times, the *)
(* others what they held.                                                       *)
LEMMA ArmedTriggers ==
  ASSUME TypeOK, NEW T \in [Handles -> Trigger \cup {Null}],
         NEW stored \in [Schedules -> Stored \cup {Null}],
         NEW fresh \in SUBSET Handles,
         \A h \in fresh : h[2] \in StepsOf(stored[h[1]])
  PROVE  /\ Arm(T, fresh, stored) \in [Handles -> Trigger \cup {Null}]
         /\ \A h \in Handles \ fresh : Arm(T, fresh, stored)[h] = T[h]
         /\ \A h \in fresh : /\ Arm(T, fresh, stored)[h] # Null
                             /\ ~Arm(T, fresh, stored)[h].cancelled
                             /\ Arm(T, fresh, stored)[h].time = stored[h[1]].steps[h[2]]
<1>1. ASSUME NEW h \in fresh
      PROVE  /\ Arm(T, fresh, stored)[h] \in Trigger
             /\ ~Arm(T, fresh, stored)[h].cancelled
             /\ Arm(T, fresh, stored)[h].time = stored[h[1]].steps[h[2]]
  <2>1. h[1] \in Schedules
    BY DEF Handles
  <2>2. stored[h[1]].steps[h[2]] \in Times
    BY <2>1, StepTimes
  <2>3. Arm(T, fresh, stored)[h] = NewTrigger(stored[h[1]].steps[h[2]])
    BY DEF Arm
  <2> QED BY <2>2, <2>3, NewTriggerType
<1>2. \A h \in Handles \ fresh : Arm(T, fresh, stored)[h] = T[h]
  BY DEF Arm
<1>3. Arm(T, fresh, stored) = [h \in Handles |-> Arm(T, fresh, stored)[h]]
  BY DEF Arm
<1> QED BY <1>1, <1>2, <1>3, NullIsNothing

-----------------------------------------------------------------------------
(* The invariant. *)

(* What ArmedMatchesStore says of one schedule in the next state follows from   *)
(* the armed handles being live and the others of the schedule not.             *)
LEMMA MatchedNext ==
  ASSUME NEW s \in Schedules,
         armed'[s] \in SUBSET Handles,
         \A h \in armed'[s] : h[1] = s /\ Live(h)' /\ trigger'[h].time = store'[s].steps[h[2]],
         \A h \in Handles \ armed'[s] : h[1] = s => ~Live(h)',
         {h[2] : h \in armed'[s]} = IF run' = "up" THEN StepsOf(store'[s]) ELSE {},
         \A h, o \in armed'[s] : h[2] = o[2] => h = o
  PROVE  /\ armed'[s] = {h \in Handles : h[1] = s /\ Live(h)'}
         /\ \A h \in armed'[s] : trigger'[h].time = store'[s].steps[h[2]]
         /\ {h[2] : h \in armed'[s]} = IF run' = "up" THEN StepsOf(store'[s]) ELSE {}
         /\ \A h, o \in armed'[s] : h[2] = o[2] => h = o
OBVIOUS

(* The invariant of one schedule stays when its handles, its triggers' liveness *)
(* and times, its stored steps and the process stay.                            *)
LEMMA MatchedStill ==
  ASSUME TypeOK, ArmedMatchesStore, NEW s \in Schedules,
         armed'[s] = armed[s], store'[s] = store[s], run' = run,
         \A h \in Handles : h[1] = s =>
           /\ Live(h)' <=> Live(h)
           /\ Live(h) => trigger'[h].time = trigger[h].time
  PROVE  /\ armed'[s] = {h \in Handles : h[1] = s /\ Live(h)'}
         /\ \A h \in armed'[s] : trigger'[h].time = store'[s].steps[h[2]]
         /\ {h[2] : h \in armed'[s]} = IF run' = "up" THEN StepsOf(store'[s]) ELSE {}
         /\ \A h, o \in armed'[s] : h[2] = o[2] => h = o
<1>1. armed[s] = {h \in Handles : h[1] = s /\ Live(h)}
  BY DEF ArmedMatchesStore
<1>2. \A h \in armed[s] : trigger'[h].time = trigger[h].time
  BY <1>1
<1>3. \A h \in armed[s] : trigger[h].time = store[s].steps[h[2]]
  BY DEF ArmedMatchesStore
<1>4. {h[2] : h \in armed[s]} = IF run = "up" THEN StepsOf(store[s]) ELSE {}
  BY DEF ArmedMatchesStore
<1>5. \A h, o \in armed[s] : h[2] = o[2] => h = o
  BY DEF ArmedMatchesStore
<1> QED BY <1>1, <1>2, <1>3, <1>4, <1>5

(* Live triggers of a schedule are its armed ones. *)
LEMMA ArmedAreLive ==
  ASSUME ArmedMatchesStore, NEW s \in Schedules, NEW h \in Handles, h[1] = s
  PROVE  h \in armed[s] <=> Live(h)
BY DEF ArmedMatchesStore

LEMMA ArmedHandles ==
  ASSUME ArmedMatchesStore, NEW s \in Schedules, NEW h \in armed[s]
  PROVE  h \in Handles /\ h[1] = s /\ Live(h)
BY DEF ArmedMatchesStore

LEMMA InitInv == Init => Inv
<1> SUFFICES ASSUME Init PROVE Inv
  OBVIOUS
<1>1. TypeOK
  BY TimesAssumption DEF Init, TypeOK
<1>2. \A h \in Handles : ~Live(h)
  BY DEF Init, Live
<1>3. \A s \in Schedules : armed[s] = {} /\ StepsOf(store[s]) = {}
  BY DEF Init, StepsOf, Enabled
<1>4. ArmedMatchesStore
  BY <1>2, <1>3 DEF ArmedMatchesStore
<1> QED BY <1>1, <1>4 DEF Inv, DownIsEmpty, Init

LEMMA PutScheduleInv ==
  ASSUME Inv, NEW s \in Schedules, NEW sched \in Stored, PutSchedule(s, sched)
  PROVE  Inv'
<1> USE DEF Inv
<1> DEFINE cleared == Disarmed(armed[s])
           fresh == Fresh(cleared, s, sched)
<1>1. /\ run = "up" /\ run' = "up" /\ now' = now /\ zone' = zone
      /\ \A k \in StepsOf(sched) : Room(cleared, s, k) # {}
      /\ store' = [store EXCEPT ![s] = sched]
      /\ armed' = [armed EXCEPT ![s] = fresh]
      /\ trigger' = Arm(cleared, armed'[s], store')
  BY DEF PutSchedule
<1>2. armed[s] \in SUBSET Handles /\ \A h \in armed[s] : Live(h)
  BY ArmedHandles
<1>3. /\ cleared \in [Handles -> Trigger \cup {Null}]
      /\ \A h \in Handles \ armed[s] : cleared[h] = trigger[h]
      /\ \A h \in armed[s] : cleared[h] # Null => cleared[h].cancelled
  BY <1>2, DisarmedTriggers
<1> HIDE DEF cleared
<1>4. /\ fresh \in SUBSET Handles
      /\ \A h \in fresh : h[1] = s /\ h[2] \in StepsOf(sched) /\ cleared[h] = Null
      /\ \A h, o \in fresh : h[2] = o[2] => h = o
      /\ {h[2] : h \in fresh} = StepsOf(sched)
  BY <1>1, FreshHandles
<1> HIDE DEF fresh
<1>5. /\ store' \in [Schedules -> Stored \cup {Null}] /\ store'[s] = sched
      /\ armed' \in [Schedules -> SUBSET Handles] /\ armed'[s] = fresh
      /\ \A o \in Schedules \ {s} : store'[o] = store[o] /\ armed'[o] = armed[o]
  BY <1>1, <1>4 DEF TypeOK
<1>6. \A h \in fresh : h[2] \in StepsOf(store'[h[1]])
  BY <1>4, <1>5
<1>7. /\ trigger' \in [Handles -> Trigger \cup {Null}]
      /\ \A h \in Handles \ fresh : trigger'[h] = cleared[h]
      /\ \A h \in fresh : /\ trigger'[h] # Null /\ ~trigger'[h].cancelled
                          /\ trigger'[h].time = store'[h[1]].steps[h[2]]
  <2>1. trigger' = Arm(cleared, fresh, store')
    BY <1>1, <1>5
  <2>2. TypeOK
    OBVIOUS
  <2> QED BY <2>1, <2>2, <1>3, <1>4, <1>5, <1>6, ArmedTriggers
<1>8. TypeOK'
  BY <1>1, <1>5, <1>7 DEF TypeOK
<1>9. ArmedMatchesStore'
  <2>1. \A h \in Handles \ fresh : h[1] = s => ~Live(h)'
    <3> TAKE h \in Handles \ fresh
    <3>1. CASE h \in armed[s]
      BY <3>1, <1>3, <1>7 DEF Live
    <3>2. CASE h \notin armed[s]
      BY <3>2, <1>3, <1>7, ArmedAreLive DEF Live
    <3> QED BY <3>1, <3>2
  <2>2. \A h \in fresh : h[1] = s /\ Live(h)' /\ trigger'[h].time = store'[s].steps[h[2]]
    BY <1>4, <1>7 DEF Live
  <2>3. {h[2] : h \in armed'[s]} = IF run' = "up" THEN StepsOf(store'[s]) ELSE {}
    BY <1>1, <1>4, <1>5
  <2>4. ASSUME NEW o \in Schedules, o # s, NEW h \in Handles, h[1] = o
        PROVE  trigger'[h] = trigger[h]
    <3>1. h \notin fresh /\ h \notin armed[s]
      BY <2>4, <1>4, ArmedHandles
    <3> QED BY <3>1, <1>3, <1>7
  <2>5. ASSUME NEW o \in Schedules
        PROVE  /\ armed'[o] = {h \in Handles : h[1] = o /\ Live(h)'}
               /\ \A h \in armed'[o] : trigger'[h].time = store'[o].steps[h[2]]
               /\ {h[2] : h \in armed'[o]} = IF run' = "up" THEN StepsOf(store'[o]) ELSE {}
               /\ \A h, i \in armed'[o] : h[2] = i[2] => h = i
    <3>1. CASE o = s
      BY <3>1, <2>1, <2>2, <2>3, <1>4, <1>5, MatchedNext
    <3>2. CASE o # s
      <4>1. \A h \in Handles : h[1] = o =>
              (Live(h)' <=> Live(h)) /\ (Live(h) => trigger'[h].time = trigger[h].time)
        BY <3>2, <2>4 DEF Live
      <4> QED BY <3>2, <4>1, <1>1, <1>5, MatchedStill
    <3> QED BY <3>1, <3>2
  <2> QED BY <2>5 DEF ArmedMatchesStore
<1> QED BY <1>1, <1>8, <1>9 DEF DownIsEmpty

LEMMA DeleteScheduleInv ==
  ASSUME Inv, NEW s \in Schedules, DeleteSchedule(s)
  PROVE  Inv'
<1> USE DEF Inv
<1>1. /\ run = "up" /\ run' = "up" /\ now' = now /\ zone' = zone
      /\ store' = [store EXCEPT ![s] = Null]
      /\ armed' = [armed EXCEPT ![s] = {}]
      /\ trigger' = Disarmed(armed[s])
  BY DEF DeleteSchedule
<1>2. armed[s] \in SUBSET Handles /\ \A h \in armed[s] : Live(h)
  BY ArmedHandles
<1>3. /\ trigger' \in [Handles -> Trigger \cup {Null}]
      /\ \A h \in Handles \ armed[s] : trigger'[h] = trigger[h]
      /\ \A h \in armed[s] : trigger'[h] # Null => trigger'[h].cancelled
  BY <1>1, <1>2, DisarmedTriggers
<1>4. /\ store' \in [Schedules -> Stored \cup {Null}] /\ store'[s] = Null
      /\ armed' \in [Schedules -> SUBSET Handles] /\ armed'[s] = {}
      /\ \A o \in Schedules \ {s} : store'[o] = store[o] /\ armed'[o] = armed[o]
  BY <1>1 DEF TypeOK
<1>5. TypeOK'
  BY <1>1, <1>3, <1>4 DEF TypeOK
<1>6. ArmedMatchesStore'
  <2>1. \A h \in Handles : h[1] = s => ~Live(h)'
    BY <1>3, ArmedAreLive DEF Live
  <2>2. StepsOf(store'[s]) = {}
    BY <1>4 DEF StepsOf, Enabled
  <2>3. ASSUME NEW o \in Schedules
        PROVE  /\ armed'[o] = {h \in Handles : h[1] = o /\ Live(h)'}
               /\ \A h \in armed'[o] : trigger'[h].time = store'[o].steps[h[2]]
               /\ {h[2] : h \in armed'[o]} = IF run' = "up" THEN StepsOf(store'[o]) ELSE {}
               /\ \A h, i \in armed'[o] : h[2] = i[2] => h = i
    <3>1. CASE o = s
      BY <3>1, <2>1, <2>2, <1>4, MatchedNext
    <3>2. CASE o # s
      <4>1. \A h \in Handles : h[1] = o => trigger'[h] = trigger[h]
        BY <3>2, <1>3, ArmedHandles
      <4>2. \A h \in Handles : h[1] = o =>
              (Live(h)' <=> Live(h)) /\ (Live(h) => trigger'[h].time = trigger[h].time)
        BY <4>1 DEF Live
      <4> QED BY <3>2, <4>2, <1>1, <1>4, MatchedStill
    <3> QED BY <3>1, <3>2
  <2> QED BY <2>3 DEF ArmedMatchesStore
<1> QED BY <1>1, <1>5, <1>6 DEF DownIsEmpty

(* A step that keeps every schedule, every handle, and of every trigger whether *)
(* it is live and when it is for.                                               *)
LEMMA AllMatchedStill ==
  ASSUME Inv, UNCHANGED <<run, store, armed>>,
         \A h \in Handles : /\ Live(h)' <=> Live(h)
                            /\ Live(h) => trigger'[h].time = trigger[h].time
  PROVE  ArmedMatchesStore'
<1>1. ASSUME NEW o \in Schedules
      PROVE  /\ armed'[o] = {h \in Handles : h[1] = o /\ Live(h)'}
             /\ \A h \in armed'[o] : trigger'[h].time = store'[o].steps[h[2]]
             /\ {h[2] : h \in armed'[o]} = IF run' = "up" THEN StepsOf(store'[o]) ELSE {}
             /\ \A h, i \in armed'[o] : h[2] = i[2] => h = i
  BY MatchedStill DEF Inv
<1> QED BY <1>1 DEF ArmedMatchesStore

LEMMA FireBeginsInv ==
  ASSUME Inv, NEW f \in Handles, FireBegins(f)
  PROVE  Inv'
<1>1. /\ run # "down" /\ trigger[f] # Null
      /\ trigger' = [trigger EXCEPT ![f].firing = TRUE]
      /\ UNCHANGED <<now, zone, run, store, armed>>
  BY DEF FireBegins
<1>2. trigger[f] \in Trigger
  BY <1>1 DEF Inv, TypeOK
<1>3. /\ trigger'[f] \in Trigger
      /\ trigger'[f].cancelled = trigger[f].cancelled /\ trigger'[f].time = trigger[f].time
  BY <1>1, <1>2 DEF Trigger, Inv, TypeOK
<1>4. \A h \in Handles \ {f} : trigger'[h] = trigger[h]
  BY <1>1 DEF Inv, TypeOK
<1>5. trigger' \in [Handles -> Trigger \cup {Null}]
  BY <1>1, <1>3 DEF Inv, TypeOK
<1>6. TypeOK'
  BY <1>1, <1>5 DEF Inv, TypeOK
<1>7. \A h \in Handles : /\ Live(h)' <=> Live(h)
                         /\ Live(h) => trigger'[h].time = trigger[h].time
  BY <1>1, <1>3, <1>4, NullIsNothing DEF Live
<1>8. ArmedMatchesStore'
  BY <1>1, <1>7, AllMatchedStill
<1> QED BY <1>1, <1>6, <1>8 DEF Inv, DownIsEmpty

(* A trigger with other values of three of its fields. *)
LEMMA TriggerUpdate ==
  ASSUME NEW t \in Trigger, NEW next \in Int
  PROVE  LET u == [t EXCEPT !.firing = FALSE, !.served = t.target, !.target = next]
         IN  u \in Trigger /\ u.cancelled = t.cancelled /\ u.time = t.time
<1> DEFINE begun == [t EXCEPT !.firing = FALSE]
           done == [begun EXCEPT !.served = t.target]
           u == [done EXCEPT !.target = next]
<1>1. begun \in Trigger /\ begun.cancelled = t.cancelled /\ begun.time = t.time
  BY DEF Trigger
<1>2. done \in Trigger /\ done.cancelled = begun.cancelled /\ done.time = begun.time
  BY <1>1 DEF Trigger
<1>3. u \in Trigger /\ u.cancelled = done.cancelled /\ u.time = done.time
  BY <1>2 DEF Trigger
<1> QED BY <1>1, <1>2, <1>3

LEMMA FireEndsInv ==
  ASSUME Inv, NEW f \in Handles, FireEnds(f)
  PROVE  Inv'
<1>1. /\ run # "down" /\ trigger[f] # Null
      /\ trigger' = [trigger EXCEPT ![f] =
                       IF trigger[f].cancelled THEN Null ELSE Rearmed(trigger[f])]
      /\ UNCHANGED <<now, zone, run, store, armed>>
  BY DEF FireEnds
<1>2. trigger[f] \in Trigger
  BY <1>1 DEF Inv, TypeOK
<1>3. /\ Rearmed(trigger[f]) \in Trigger
      /\ Rearmed(trigger[f]).cancelled = trigger[f].cancelled
      /\ Rearmed(trigger[f]).time = trigger[f].time
  <2>1. trigger[f].time \in Times /\ trigger[f].target + 1 \in Int
    BY <1>2 DEF Trigger
  <2>2. NextOccurrence(trigger[f].time, trigger[f].target + 1) \in Int
    BY <2>1, OccurrenceType DEF Inv, TypeOK
  <2> QED BY <2>2, <1>2, TriggerUpdate DEF Rearmed
<1>4. /\ trigger'[f] \in Trigger \cup {Null}
      /\ Live(f)' <=> Live(f)
      /\ Live(f) => trigger'[f].time = trigger[f].time
  <2>1. CASE trigger[f].cancelled
    BY <1>1, <2>1 DEF Live, Inv, TypeOK
  <2>2. CASE ~trigger[f].cancelled
    <3>1. trigger'[f] = Rearmed(trigger[f])
      BY <1>1, <2>2 DEF Inv, TypeOK
    <3> QED BY <1>1, <1>3, <2>2, <3>1, NullIsNothing DEF Live
  <2> QED BY <2>1, <2>2
<1>5. \A h \in Handles \ {f} : trigger'[h] = trigger[h]
  BY <1>1 DEF Inv, TypeOK
<1>6. trigger' \in [Handles -> Trigger \cup {Null}]
  BY <1>1, <1>4 DEF Inv, TypeOK
<1>7. TypeOK'
  BY <1>1, <1>6 DEF Inv, TypeOK
<1>8. \A h \in Handles : /\ Live(h)' <=> Live(h)
                         /\ Live(h) => trigger'[h].time = trigger[h].time
  BY <1>4, <1>5 DEF Live
<1>9. ArmedMatchesStore'
  BY <1>1, <1>8, AllMatchedStill
<1> QED BY <1>1, <1>7, <1>9 DEF Inv, DownIsEmpty

(* A process without armed and without live triggers matches any store, unless  *)
(* it is up.                                                                    *)
LEMMA NoneMatched ==
  ASSUME run' # "up", armed' = [s \in Schedules |-> {}], \A h \in Handles : ~Live(h)'
  PROVE  ArmedMatchesStore'
<1>1. \A s \in Schedules : armed'[s] = {}
  OBVIOUS
<1> QED BY <1>1 DEF ArmedMatchesStore

LEMMA ShutdownInv ==
  ASSUME Inv, Shutdown
  PROVE  Inv'
<1> USE DEF Inv
<1> DEFINE all == UNION {armed[s] : s \in Schedules}
<1>1. /\ run' = "stopping" /\ now' = now /\ zone' = zone /\ store' = store
      /\ armed' = [s \in Schedules |-> {}]
      /\ trigger' = Disarmed(all)
  BY DEF Shutdown
<1>2. all \in SUBSET Handles /\ \A h \in all : Live(h)
  BY ArmedHandles
<1>3. \A h \in Handles : Live(h) => h \in all
  <2> SUFFICES ASSUME NEW h \in Handles, Live(h) PROVE h \in all
    OBVIOUS
  <2>1. h[1] \in Schedules
    BY DEF Handles
  <2>2. h \in armed[h[1]]
    BY <2>1, ArmedAreLive
  <2> QED BY <2>1, <2>2
<1> HIDE DEF all
<1>4. /\ trigger' \in [Handles -> Trigger \cup {Null}]
      /\ \A h \in Handles \ all : trigger'[h] = trigger[h]
      /\ \A h \in all : trigger'[h] # Null => trigger'[h].cancelled
  BY <1>1, <1>2, DisarmedTriggers
<1>5. \A h \in Handles : ~Live(h)'
  BY <1>3, <1>4 DEF Live
<1>6. TypeOK'
  BY <1>1, <1>4 DEF TypeOK
<1>7. ArmedMatchesStore'
  BY <1>1, <1>5, NoneMatched
<1> QED BY <1>1, <1>6, <1>7 DEF DownIsEmpty

LEMMA ExitInv ==
  ASSUME Inv, Exit
  PROVE  Inv'
<1>1. /\ run' = "down" /\ now' = now /\ zone' = zone /\ store' = store
      /\ armed' = [s \in Schedules |-> {}]
      /\ trigger' = [h \in Handles |-> Null]
  BY DEF Exit
<1>2. TypeOK'
  BY <1>1 DEF Inv, TypeOK
<1>3. \A h \in Handles : trigger'[h] = Null /\ ~Live(h)'
  BY <1>1 DEF Live
<1>4. ArmedMatchesStore'
  BY <1>1, <1>3, NoneMatched
<1> QED BY <1>2, <1>3, <1>4 DEF Inv, DownIsEmpty

LEMMA StartUpInv ==
  ASSUME Inv, StartUp
  PROVE  Inv'
<1> USE DEF Inv
<1> DEFINE fresh == UNION {armed'[s] : s \in Schedules}
<1>1. /\ run = "down" /\ run' = "up" /\ now' = now /\ zone' = zone /\ store' = store
      /\ armed' = [s \in Schedules |-> Fresh(trigger, s, store[s])]
      /\ trigger' = Arm(trigger, fresh, store)
  BY DEF StartUp
<1>2. \A h \in Handles : trigger[h] = Null
  BY <1>1 DEF DownIsEmpty
<1>3. store \in [Schedules -> Stored \cup {Null}] /\ trigger \in [Handles -> Trigger \cup {Null}]
  BY DEF TypeOK
<1>4. ASSUME NEW s \in Schedules
      PROVE  /\ armed'[s] \in SUBSET Handles
             /\ \A h \in armed'[s] : h[1] = s /\ h[2] \in StepsOf(store[s])
             /\ \A h, o \in armed'[s] : h[2] = o[2] => h = o
             /\ {h[2] : h \in armed'[s]} = StepsOf(store[s])
  <2>1. \A k \in StepsOf(store[s]) : Room(trigger, s, k) # {}
    <3> SUFFICES ASSUME NEW k \in StepsOf(store[s]) PROVE Room(trigger, s, k) # {}
      OBVIOUS
    <3>1. k \in StepIds
      BY <1>3, StepTimes
    <3>2. PICK g \in Gens : TRUE
      BY GensAssumption
    <3>3. <<s, k, g>> \in Handles
      BY <3>1 DEF Handles
    <3> QED BY <1>2, <3>3 DEF Room
  <2>2. armed'[s] = Fresh(trigger, s, store[s])
    BY <1>1
  <2>3. store[s] \in Stored \cup {Null}
    BY <1>3
  <2>4. /\ Fresh(trigger, s, store[s]) \in SUBSET Handles
        /\ \A h \in Fresh(trigger, s, store[s]) : h[1] = s /\ h[2] \in StepsOf(store[s])
        /\ \A h, o \in Fresh(trigger, s, store[s]) : h[2] = o[2] => h = o
        /\ {h[2] : h \in Fresh(trigger, s, store[s])} = StepsOf(store[s])
    BY <2>1, <2>3, FreshHandles
  <2> QED BY <2>2, <2>4
<1>5. fresh \in SUBSET Handles /\ \A h \in fresh : h[2] \in StepsOf(store[h[1]])
  BY <1>4
<1>6. \A s \in Schedules : \A h \in Handles : h[1] = s => (h \in fresh <=> h \in armed'[s])
  BY <1>4
<1> HIDE DEF fresh
<1>7. /\ trigger' \in [Handles -> Trigger \cup {Null}]
      /\ \A h \in Handles \ fresh : trigger'[h] = trigger[h]
      /\ \A h \in fresh : /\ trigger'[h] # Null /\ ~trigger'[h].cancelled
                          /\ trigger'[h].time = store[h[1]].steps[h[2]]
  <2>1. TypeOK
    OBVIOUS
  <2> QED BY <2>1, <1>1, <1>3, <1>5, ArmedTriggers
<1>8. armed' \in [Schedules -> SUBSET Handles]
  BY <1>1, <1>4
<1>9. TypeOK'
  BY <1>1, <1>7, <1>8 DEF TypeOK
<1>10. ArmedMatchesStore'
  <2>1. ASSUME NEW s \in Schedules
        PROVE  /\ armed'[s] = {h \in Handles : h[1] = s /\ Live(h)'}
               /\ \A h \in armed'[s] : trigger'[h].time = store'[s].steps[h[2]]
               /\ {h[2] : h \in armed'[s]} = IF run' = "up" THEN StepsOf(store'[s]) ELSE {}
               /\ \A h, i \in armed'[s] : h[2] = i[2] => h = i
    <3>1. \A h \in Handles \ armed'[s] : h[1] = s => ~Live(h)'
      BY <1>2, <1>6, <1>7 DEF Live
    <3>2. \A h \in armed'[s] :
            h[1] = s /\ Live(h)' /\ trigger'[h].time = store'[s].steps[h[2]]
      BY <1>1, <1>4, <1>6, <1>7 DEF Live
    <3> QED BY <1>1, <1>4, <3>1, <3>2, MatchedNext
  <2> QED BY <2>1 DEF ArmedMatchesStore
<1> QED BY <1>1, <1>9, <1>10 DEF DownIsEmpty

LEMMA TickInv ==
  ASSUME Inv, Tick
  PROVE  Inv'
<1>1. /\ now' \in 0..Horizon
      /\ UNCHANGED <<zone, run, store, armed, trigger>>
  BY TimesAssumption DEF Tick, Inv, TypeOK
<1>2. TypeOK'
  BY <1>1 DEF Inv, TypeOK
<1>3. ArmedMatchesStore'
  BY <1>1, AllMatchedStill DEF Live
<1> QED BY <1>1, <1>2, <1>3 DEF Inv, DownIsEmpty

LEMMA NextInv == Inv /\ [Next]_vars => Inv'
<1> SUFFICES ASSUME Inv, [Next]_vars PROVE Inv'
  OBVIOUS
<1>1. ASSUME NEW s \in Schedules, NEW sched \in Stored, PutSchedule(s, sched) PROVE Inv'
  BY <1>1, PutScheduleInv
<1>2. ASSUME NEW s \in Schedules, DeleteSchedule(s) PROVE Inv'
  BY <1>2, DeleteScheduleInv
<1>3. ASSUME NEW h \in Handles, FireBegins(h) PROVE Inv'
  BY <1>3, FireBeginsInv
<1>4. ASSUME NEW h \in Handles, FireEnds(h) PROVE Inv'
  BY <1>4, FireEndsInv
<1>5. CASE Shutdown
  BY <1>5, ShutdownInv
<1>6. CASE Exit
  BY <1>6, ExitInv
<1>7. CASE StartUp
  BY <1>7, StartUpInv
<1>8. CASE Tick
  BY <1>8, TickInv
<1>9. CASE UNCHANGED vars
  <2>1. UNCHANGED <<now, zone, run, store, armed, trigger>>
    BY <1>9 DEF vars
  <2>2. ArmedMatchesStore'
    BY <2>1, AllMatchedStill DEF Live
  <2> QED BY <2>1, <2>2 DEF Inv, TypeOK, DownIsEmpty
<1> QED
  BY <1>1, <1>2, <1>3, <1>4, <1>5, <1>6, <1>7, <1>8, <1>9
  DEF Next, UserStep, FireStep, ProcessStep

-----------------------------------------------------------------------------
(* Every reachable state of the scheduler is well typed: among others, every    *)
(* trigger has a time of day and a moment it waits for.                         *)
THEOREM SchedulerTypes == Spec => []TypeOK
<1>1. Inv => TypeOK
  BY DEF Inv
<1> QED BY <1>1, InitInv, NextInv, PTL DEF Spec

(* The triggers that may still fire or arm are always those the stored and      *)
(* enabled schedules ask for, one per step (armSchedule, disarmSchedule and the *)
(* trigger of scheduler.js), however many edits, fires and restarts overlap.    *)
THEOREM TriggersMatchStore == Spec => []ArmedMatchesStore
<1>1. Inv => ArmedMatchesStore
  BY DEF Inv
<1> QED BY <1>1, InitInv, NextInv, PTL DEF Spec
=============================================================================
