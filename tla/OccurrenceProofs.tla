------------------------- MODULE OccurrenceProofs -------------------------
(***************************************************************************)
(* That no day is skipped or repeated by a trigger of Scheduler, for every *)
(* length of the day and every zone whose offset change is regular: first  *)
(* what Local, Utc and nextOccurrence do to dates, then the invariant.     *)
(***************************************************************************)
EXTENDS SchedulerProofs

(* The local minute a date begins at. *)
Start(date) == date * DayLength

-----------------------------------------------------------------------------
(* Dates and local time. *)

LEMMA ZoneNumbers ==
  ASSUME zone \in Zones
  PROVE  zone.at \in Int /\ zone.before \in Int /\ zone.after \in Int
BY ZonesAssumption

LEMMA DayIsLong == DayLength \in Int /\ DayLength >= 2
BY TimesAssumption

(* A date begins a day's length or more before each later one. *)
LEMMA StartsApart ==
  ASSUME NEW d \in Int, NEW e \in Int
  PROVE  /\ Start(d) \in Int
         /\ Start(d + 1) = Start(d) + DayLength
         /\ d < e => Start(d) + DayLength <= Start(e)
<1>1. \A n \in Nat, l \in Nat : n * l \in Nat
  OBVIOUS
<1>2. d < e => (e - d - 1) * DayLength >= 0
  BY <1>1, DayIsLong
<1>3. (e - d - 1) * DayLength = e * DayLength - d * DayLength - DayLength
  BY DayIsLong
<1> QED BY <1>2, <1>3, DayIsLong DEF Start

(* The date and the time of day of a local minute. *)
LEMMA DivisionByDay ==
  ASSUME NEW l \in Int
  PROVE  /\ l \div DayLength \in Int
         /\ l % DayLength \in Times
         /\ l = Start(l \div DayLength) + (l % DayLength)
BY DayIsLong DEF Start, Times

(* A minute within a day of a date's beginning is of that date. *)
LEMMA DateIsUnique ==
  ASSUME NEW d \in Int, NEW r \in Times, NEW l \in Int, l = Start(d) + r
  PROVE  l \div DayLength = d /\ l % DayLength = r
<1> DEFINE q == l \div DayLength
           m == l % DayLength
<1>1. q \in Int /\ m \in Times /\ l = Start(q) + m
  BY DivisionByDay
<1> HIDE DEF q, m
<1>2. Start(d) \in Int /\ Start(q) \in Int
  BY <1>1, StartsApart
<1>3. r \in Int /\ 0 <= r /\ r < DayLength /\ m \in Int /\ 0 <= m /\ m < DayLength
  BY <1>1, DayIsLong DEF Times
<1>4. ~(q < d)
  BY <1>1, <1>2, <1>3, StartsApart, DayIsLong
<1>5. ~(d < q)
  BY <1>1, <1>2, <1>3, StartsApart, DayIsLong
<1>6. q = d
  BY <1>1, <1>4, <1>5
<1>7. m = r
  BY <1>1, <1>2, <1>3, <1>6
<1> QED BY <1>6, <1>7 DEF q, m

(* Dates follow local time. *)
LEMMA LaterMinuteLaterDate ==
  ASSUME NEW l \in Int, NEW m \in Int, l <= m
  PROVE  l \div DayLength <= m \div DayLength
<1> DEFINE p == l \div DayLength
           q == m \div DayLength
           lr == l % DayLength
           mr == m % DayLength
<1>1. /\ p \in Int /\ lr \in Times /\ l = Start(p) + lr
      /\ q \in Int /\ mr \in Times /\ m = Start(q) + mr
  BY DivisionByDay
<1> HIDE DEF p, q, lr, mr
<1>2. lr \in Int /\ 0 <= lr /\ mr \in Int /\ mr < DayLength
  BY <1>1, DayIsLong DEF Times
<1>3. Start(p) \in Int /\ Start(q) \in Int
  BY <1>1, StartsApart
<1>4. q < p => Start(q) + DayLength <= Start(p)
  BY <1>1, StartsApart
<1>5. ~(q < p)
  BY <1>1, <1>2, <1>3, <1>4, DayIsLong
<1> QED BY <1>1, <1>5 DEF p, q

(* The local date and time of a moment. *)
LEMMA LocalParts ==
  ASSUME zone \in Zones, NEW t \in Int
  PROVE  /\ Local(t) \in Int
         /\ DayOf(t) \in Int
         /\ TimeOf(t) \in Times
         /\ Local(t) = Start(DayOf(t)) + TimeOf(t)
<1>1. Local(t) \in Int
  BY ZoneNumbers DEF Local
<1> QED BY <1>1, DivisionByDay DEF DayOf, TimeOf

(* In a regular zone the date never goes back. *)
LEMMA DatesFollowTime ==
  ASSUME zone \in Zones, RegularZone, NEW s \in Int, NEW t \in Int, s <= t
  PROVE  DayOf(s) <= DayOf(t)
<1>1. zone.at \in Int /\ zone.before \in Int /\ zone.after \in Int
  BY ZoneNumbers
<1>2. ASSUME NEW u \in Int, NEW v \in Int, u <= v, u < zone.at <=> v < zone.at
      PROVE  DayOf(u) <= DayOf(v)
  <2>1. Local(u) \in Int /\ Local(v) \in Int /\ Local(u) <= Local(v)
    BY <1>1, <1>2 DEF Local
  <2> QED BY <2>1, LaterMinuteLaterDate DEF DayOf
<1>3. CASE s < zone.at <=> t < zone.at
  BY <1>2, <1>3
<1>4. CASE s < zone.at /\ zone.at <= t
  <2>1. DayOf(s) <= DayOf(zone.at - 1)
    BY <1>1, <1>2, <1>4
  <2>2. DayOf(zone.at) <= DayOf(t)
    BY <1>1, <1>2, <1>4
  <2>3. DayOf(zone.at - 1) <= DayOf(zone.at)
    BY DEF RegularZone
  <2>4. /\ DayOf(s) \in Int /\ DayOf(zone.at - 1) \in Int
        /\ DayOf(zone.at) \in Int /\ DayOf(t) \in Int
    BY <1>1, LocalParts
  <2> QED BY <2>1, <2>2, <2>3, <2>4
<1> QED BY <1>1, <1>3, <1>4

-----------------------------------------------------------------------------
(* Occurrences. *)

(* The moment of a local minute shows that minute, or, where a gap has no such *)
(* minute, the one later by the gap.                                           *)
LEMMA UtcShows ==
  ASSUME zone \in Zones, NEW l \in Int
  PROVE  /\ Utc(l) \in Int
         /\ \/ Local(Utc(l)) = l
            \/ /\ Local(Utc(l)) = l + (zone.after - zone.before)
               /\ zone.before < zone.after
               /\ zone.at <= l - zone.before
BY ZoneNumbers DEF Utc, Local

LEMMA OccurrenceLocal ==
  ASSUME NEW d \in Int, NEW time \in Times
  PROVE  Start(d) + time \in Int /\ Occurrence(d, time) = Utc(Start(d) + time)
BY StartsApart, DayIsLong DEF Occurrence, Times, Start

(* An occurrence is at its time of its date, or rolled into the next date. *)
LEMMA OccurrenceDate ==
  ASSUME zone \in Zones, RegularZone, NEW d \in Int, NEW time \in Times
  PROVE  /\ Occurrence(d, time) \in Int
         /\ DayOf(Occurrence(d, time)) \in {d, d + 1}
         /\ Local(Occurrence(d, time)) = Start(d) + time =>
              DayOf(Occurrence(d, time)) = d /\ TimeOf(Occurrence(d, time)) = time
<1> DEFINE l == Start(d) + time
           o == Occurrence(d, time)
<1>1. l \in Int /\ o = Utc(l)
  BY OccurrenceLocal
<1>2. /\ o \in Int
      /\ \/ Local(o) = l
         \/ Local(o) = l + (zone.after - zone.before) /\ zone.before < zone.after
  BY <1>1, UtcShows
<1>3. Local(o) = l => DayOf(o) = d /\ TimeOf(o) = time
  BY <1>1, DateIsUnique DEF DayOf, TimeOf
<1>4. Start(d) \in Int /\ time \in Int /\ 0 <= time /\ time < DayLength
  BY StartsApart, DayIsLong DEF Times
<1>5. /\ DayOf(o) \in Int /\ TimeOf(o) \in Int /\ 0 <= TimeOf(o) /\ TimeOf(o) < DayLength
      /\ Local(o) = Start(DayOf(o)) + TimeOf(o)
  BY <1>2, LocalParts, DayIsLong DEF Times
<1> HIDE DEF o
<1>6. ASSUME Local(o) = l + (zone.after - zone.before), zone.before < zone.after
      PROVE  DayOf(o) \in {d, d + 1}
  <2>1. /\ zone.before \in Int /\ zone.after \in Int
        /\ zone.after - zone.before <= DayLength - 2
    BY ZoneNumbers DEF RegularZone
  <2>2. Start(DayOf(o)) \in Int /\ Start(d + 1) = Start(d) + DayLength
    BY <1>5, StartsApart
  <2>3. DayOf(o) < d => Start(DayOf(o)) + DayLength <= Start(d)
    BY <1>5, StartsApart
  <2>4. d + 1 < DayOf(o) => Start(d + 1) + DayLength <= Start(DayOf(o))
    BY <1>5, StartsApart
  <2>5. ~(DayOf(o) < d)
    BY <1>4, <1>5, <1>6, <2>1, <2>2, <2>3, DayIsLong
  <2>6. ~(d + 1 < DayOf(o))
    BY <1>4, <1>5, <1>6, <2>1, <2>2, <2>4, DayIsLong
  <2> QED BY <1>5, <2>5, <2>6
<1>7. DayOf(o) \in {d, d + 1}
  BY <1>2, <1>3, <1>6
<1> QED BY <1>2, <1>3, <1>7 DEF o

(* There is one gap: the day after one that a gap rolled within its date, the   *)
(* time it was rolled to is there.                                              *)
LEMMA OneGap ==
  ASSUME zone \in Zones, RegularZone, NEW d \in Int, NEW time \in Times,
         DayOf(Occurrence(d, time)) = d,
         Local(Occurrence(d, time)) # Start(d) + time
  PROVE  DayOf(Occurrence(d + 1, TimeOf(Occurrence(d, time)))) = d + 1
<1> DEFINE l == Start(d) + time
           o == Occurrence(d, time)
           m == Start(d + 1) + TimeOf(o)
<1>1. l \in Int /\ o = Utc(l)
  BY OccurrenceLocal
<1>2. /\ o \in Int
      /\ Local(o) = l + (zone.after - zone.before)
      /\ zone.before < zone.after
      /\ zone.at <= l - zone.before
  BY <1>1, UtcShows
<1>3. TimeOf(o) \in Times /\ Local(o) = Start(d) + TimeOf(o)
  BY <1>2, LocalParts
<1>4. Start(d) \in Int /\ Start(d + 1) = Start(d) + DayLength
  BY StartsApart
<1>5. m \in Int /\ Occurrence(d + 1, TimeOf(o)) = Utc(m)
  BY <1>3, OccurrenceLocal
<1>6. TimeOf(o) \in Int
  BY <1>3, DayIsLong DEF Times
<1> HIDE DEF o
<1>7. m = l + (zone.after - zone.before) + DayLength
  BY <1>1, <1>2, <1>3, <1>4, <1>6, ZoneNumbers, DayIsLong
<1> HIDE DEF l, m
<1>8. Utc(m) = m - zone.after
  BY <1>1, <1>2, <1>5, <1>7, ZoneNumbers, DayIsLong DEF Utc
<1>9. Local(Utc(m)) = m
  BY <1>1, <1>2, <1>5, <1>7, <1>8, ZoneNumbers, DayIsLong DEF Local
<1> QED BY <1>3, <1>5, <1>9, OccurrenceDate DEF m, o

(* Occurrences of a time of day come in the order of their dates, and never two *)
(* within a minute.                                                             *)
LEMMA OccurrencesApart ==
  ASSUME zone \in Zones, RegularZone, NEW d \in Int, NEW e \in Int, NEW time \in Times, d < e
  PROVE  Occurrence(d, time) + 1 < Occurrence(e, time)
<1> DEFINE l == Start(d) + time
           m == Start(e) + time
<1>1. l \in Int /\ m \in Int /\ Occurrence(d, time) = Utc(l) /\ Occurrence(e, time) = Utc(m)
  BY OccurrenceLocal
<1>2. l + DayLength <= m
  BY StartsApart, DayIsLong DEF Times
<1> HIDE DEF l, m
<1>3. zone.after - zone.before <= DayLength - 2
  BY DEF RegularZone
<1> QED BY <1>1, <1>2, <1>3, ZoneNumbers, DayIsLong DEF Utc

-----------------------------------------------------------------------------
(* nextOccurrence. *)

LEMMA SetHoursIsOccurrence ==
  ASSUME zone \in Zones, NEW x \in Int, NEW time
  PROVE  SetHours(x, time) = Occurrence(DayOf(x), time)
BY DEF SetHours, Occurrence

LEMMA NextDateIsOccurrence ==
  ASSUME zone \in Zones, NEW x \in Int
  PROVE  NextDate(x) = Occurrence(DayOf(x) + 1, TimeOf(x))
BY DEF NextDate, Occurrence

(* `next` is the occurrence of date `date`, the earliest after x but for such   *)
(* as a gap rolls off their date.                                               *)
Earliest(next, date, time, x) ==
  /\ next = Occurrence(date, time)
  /\ x < next
  /\ \A d \in Int : x < Occurrence(d, time) /\ Occurrence(d, time) <= next =>
       d = date \/ Rolled(d, time)

(* Today's, when it is still to come. *)
LEMMA TodayIsEarliest ==
  ASSUME zone \in Zones, RegularZone, NEW x \in Int, NEW time \in Times,
         SetHours(x, time) > x
  PROVE  Earliest(NextOccurrence(time, x), DayOf(x), time, x)
<1> DEFINE D == DayOf(x)
<1>1. D \in Int /\ SetHours(x, time) = Occurrence(D, time)
  BY LocalParts, SetHoursIsOccurrence
<1>2. NextOccurrence(time, x) = Occurrence(D, time) /\ x < Occurrence(D, time)
  BY <1>1, OccurrenceDate DEF NextOccurrence
<1> HIDE DEF D
<1>3. ASSUME NEW d \in Int, x < Occurrence(d, time),
             Occurrence(d, time) <= Occurrence(D, time), d # D
      PROVE  Rolled(d, time)
  <2>1. Occurrence(d, time) \in Int /\ Occurrence(D, time) \in Int
        /\ DayOf(Occurrence(d, time)) \in Int
    BY <1>1, OccurrenceDate, LocalParts
  <2>2. ~(D < d)
    BY <1>1, <1>3, <2>1, OccurrencesApart
  <2>3. DayOf(x) <= DayOf(Occurrence(d, time))
    BY <1>3, <2>1, DatesFollowTime
  <2> QED BY <1>1, <1>3, <2>1, <2>2, <2>3 DEF Rolled, D
<1> QED BY <1>1, <1>2, <1>3 DEF Earliest, D

(* Tomorrow's, when today's is over; the one of the date after it where a gap   *)
(* takes tomorrow's time of day off its date.                                   *)
LEMMA LaterIsEarliest ==
  ASSUME zone \in Zones, RegularZone, NEW x \in Int, NEW time \in Times,
         ~(SetHours(x, time) > x)
  PROVE  \E date \in Int : Earliest(NextOccurrence(time, x), date, time, x)
<1> DEFINE D == DayOf(x)
           today == Occurrence(D, time)
           shown == TimeOf(today)
           rolled == Occurrence(D + 1, shown)
           date == DayOf(rolled)
           next == Occurrence(date, time)
<1>1. D \in Int /\ today \in Int /\ today <= x /\ SetHours(x, time) = today
  BY LocalParts, SetHoursIsOccurrence, OccurrenceDate
<1>2. DayOf(today) = D
  <2>1. DayOf(today) \in {D, D + 1}
    BY <1>1, OccurrenceDate
  <2>2. DayOf(today) <= DayOf(x)
    BY <1>1, DatesFollowTime
  <2> QED BY <1>1, <2>1, <2>2
<1>3. shown \in Times /\ rolled \in Int /\ date \in {D + 1, D + 2}
  BY <1>1, LocalParts, OccurrenceDate
<1>4. NextDate(today) = rolled
  BY <1>1, <1>2, NextDateIsOccurrence
<1>5. NextOccurrence(time, x) = next
  BY <1>1, <1>3, <1>4, SetHoursIsOccurrence DEF NextOccurrence
<1>6. next \in Int /\ date \in Int
  BY <1>1, <1>3, OccurrenceDate
<1> HIDE DEF today, shown, rolled, date, next
<1>7. ASSUME NEW d \in Int, D < d PROVE x < Occurrence(d, time)
  <2>1. /\ Occurrence(d, time) \in Int
        /\ DayOf(Occurrence(d, time)) \in Int
        /\ d <= DayOf(Occurrence(d, time))
    BY OccurrenceDate
  <2>2. ~(Occurrence(d, time) <= x)
    BY <1>1, <1>7, <2>1, DatesFollowTime
  <2> QED BY <2>1, <2>2
<1>8. x < next
  BY <1>1, <1>3, <1>6, <1>7 DEF next
<1>9. date = D + 2 => Rolled(D + 1, time)
  <2> SUFFICES ASSUME date = D + 2 PROVE Rolled(D + 1, time)
    OBVIOUS
  <2>1. DayOf(rolled) # D + 1
    BY <1>1 DEF date
  <2>2. Local(today) = Start(D) + time
    BY <1>1, <1>2, <2>1, OneGap DEF rolled, shown, today
  <2>3. shown = time
    BY <1>1, <2>2, OccurrenceDate DEF shown, today
  <2> QED BY <2>1, <2>3 DEF rolled, Rolled
<1>10. ASSUME NEW d \in Int, x < Occurrence(d, time), Occurrence(d, time) <= next, d # date
       PROVE  Rolled(d, time)
  <2>1. Occurrence(d, time) \in Int
    BY OccurrenceDate
  <2>2. ~(date < d)
    BY <1>6, <1>10, <2>1, OccurrencesApart DEF next
  <2>3. ~(d < D)
    BY <1>1, <1>10, <2>1, OccurrencesApart DEF today
  <2>4. d # D
    BY <1>1, <1>10 DEF today
  <2>5. date = D + 2 /\ d = D + 1
    BY <1>1, <1>3, <1>6, <1>10, <2>2, <2>3, <2>4
  <2> QED BY <1>9, <2>5
<1>11. Earliest(next, date, time, x)
  BY <1>8, <1>10 DEF Earliest, next
<1> QED BY <1>5, <1>6, <1>11

(* nextOccurrence of scheduler.js, from whatever moment, in every regular zone: *)
(* the earliest moment strictly later at which the local clock shows the time,  *)
(* the occurrences apart that a gap rolls into the next day.                    *)
THEOREM NextIsEarliest ==
  ASSUME zone \in Zones, RegularZone, NEW x \in Int, NEW time \in Times
  PROVE  \E date \in Int : Earliest(NextOccurrence(time, x), date, time, x)
<1>1. DayOf(x) \in Int
  BY LocalParts
<1>2. CASE SetHours(x, time) > x
  BY <1>1, <1>2, TodayIsEarliest
<1>3. CASE ~(SetHours(x, time) > x)
  BY <1>3, LaterIsEarliest
<1> QED BY <1>2, <1>3

(* Counting from a minute after an occurrence misses none. *)
LEMMA NextAfterOccurrence ==
  ASSUME zone \in Zones, RegularZone, NEW last \in Int, NEW time \in Times
  PROVE  LET x == Occurrence(last, time)
         IN  \E date \in Int : Earliest(NextOccurrence(time, x + 1), date, time, x)
<1> DEFINE x == Occurrence(last, time)
           next == NextOccurrence(time, x + 1)
<1>1. x \in Int
  BY OccurrenceDate
<1>2. PICK date \in Int : Earliest(next, date, time, x + 1)
  BY <1>1, NextIsEarliest
<1>3. next \in Int
  BY <1>1, OccurrenceType
<1> HIDE DEF next
<1>4. next = Occurrence(date, time) /\ x < next
  BY <1>1, <1>2, <1>3 DEF Earliest
<1>5. ASSUME NEW d \in Int, x < Occurrence(d, time) PROVE x + 1 < Occurrence(d, time)
  <2>1. Occurrence(d, time) \in Int
    BY OccurrenceDate
  <2>2. ~(d < last)
    BY <1>1, <1>5, <2>1, OccurrencesApart
  <2>3. d # last
    BY <1>1, <1>5
  <2>4. last < d
    BY <2>2, <2>3
  <2> QED BY <2>4, OccurrencesApart
<1>6. Earliest(next, date, time, x)
  BY <1>2, <1>4, <1>5 DEF Earliest
<1> QED BY <1>6 DEF next

(* The dates that DatesBetween looks at are all there are. *)
LEMMA AllDatesBetween ==
  ASSUME zone \in Zones, RegularZone, NEW time \in Times,
         NEW from \in Int, NEW to \in Int, NEW d \in Int
  PROVE  d \in DatesBetween(time, from, to) <=>
           from < Occurrence(d, time) /\ Occurrence(d, time) <= to
<1> DEFINE o == Occurrence(d, time)
<1>1. o \in Int /\ DayOf(o) \in {d, d + 1}
  BY OccurrenceDate
<1>2. DayOf(from) \in Int /\ DayOf(to) \in Int
  BY LocalParts
<1> HIDE DEF o
<1>3. from < o /\ o <= to => DayOf(from) <= DayOf(o) /\ DayOf(o) <= DayOf(to)
  BY <1>1, DatesFollowTime
<1>4. from < o /\ o <= to => d \in (DayOf(from) - 1)..(DayOf(to) + 1)
  BY <1>1, <1>2, <1>3
<1> QED BY <1>4 DEF DatesBetween, o

(* A trigger that waits for the earliest occurrence waits for the next one. *)
LEMMA EarliestIsNext ==
  ASSUME zone \in Zones, RegularZone, NEW t \in Trigger, NEW date \in Int,
         Earliest(t.target, date, t.time, t.served)
  PROVE  WaitsForNext(t)
<1> DEFINE dates == DatesBetween(t.time, t.served, t.target)
<1>1. t.time \in Times /\ t.served \in Int /\ t.target \in Int
  BY DEF Trigger
<1>2. \A d \in Int : d \in dates <=>
        t.served < Occurrence(d, t.time) /\ Occurrence(d, t.time) <= t.target
  BY <1>1, AllDatesBetween
<1>3. dates \subseteq Int
  <2>1. DayOf(t.served) \in Int /\ DayOf(t.target) \in Int
    BY <1>1, LocalParts
  <2> QED BY <2>1 DEF DatesBetween
<1> HIDE DEF dates
<1>4. date \in dates /\ Occurrence(date, t.time) = t.target
  BY <1>1, <1>2 DEF Earliest
<1>5. \A d \in dates : Occurrence(d, t.time) = t.target \/ Rolled(d, t.time)
  BY <1>2, <1>3, <1>4 DEF Earliest
<1> QED BY <1>4, <1>5 DEF WaitsForNext, dates

-----------------------------------------------------------------------------
(* The invariant: every trigger, firing or waiting, is for an occurrence, as    *)
(* the next one is counted from it, and a waiting one for the next.             *)

OnTime(t) ==
  /\ \E date \in Int : t.target = Occurrence(date, t.time)
  /\ ~t.firing => WaitsForNext(t)

AllOnTime == RegularZone => \A h \in Handles : \A t \in Trigger : trigger[h] = t => OnTime(t)

TimedInv == Inv /\ AllOnTime

LEMMA EarliestIsOnTime ==
  ASSUME zone \in Zones, RegularZone, NEW t \in Trigger, NEW date \in Int,
         Earliest(t.target, date, t.time, t.served)
  PROVE  OnTime(t)
BY EarliestIsNext DEF OnTime, Earliest

(* A trigger built now, and one that arms again. *)
LEMMA NewIsOnTime ==
  ASSUME TypeOK, RegularZone, NEW time \in Times
  PROVE  OnTime(NewTrigger(time))
<1>1. zone \in Zones /\ now \in Int
  BY TimesAssumption DEF TypeOK
<1>2. PICK date \in Int : Earliest(NextOccurrence(time, now), date, time, now)
  BY <1>1, NextIsEarliest
<1>3. NewTrigger(time) \in Trigger
  BY NewTriggerType
<1>4. /\ NewTrigger(time).time = time
      /\ NewTrigger(time).served = now
      /\ NewTrigger(time).target = NextOccurrence(time, now)
  BY DEF NewTrigger
<1> QED BY <1>1, <1>2, <1>3, <1>4, EarliestIsOnTime

LEMMA RearmedIsOnTime ==
  ASSUME TypeOK, RegularZone, NEW t \in Trigger, OnTime(t)
  PROVE  OnTime(Rearmed(t))
<1> DEFINE next == NextOccurrence(t.time, t.target + 1)
           u == Rearmed(t)
<1>1. zone \in Zones /\ t.time \in Times /\ t.target + 1 \in Int
  BY DEF TypeOK, Trigger
<1>2. next \in Int
  BY <1>1, OccurrenceType
<1>3. u \in Trigger /\ u.time = t.time
  BY <1>2, TriggerUpdate DEF Rearmed
<1>4. u.target = next /\ u.served = t.target
  BY DEF Rearmed, Trigger
<1>5. PICK last \in Int : t.target = Occurrence(last, t.time)
  BY DEF OnTime
<1> HIDE DEF next, u
<1>6. PICK date \in Int : Earliest(next, date, t.time, t.target)
  BY <1>1, <1>5, NextAfterOccurrence DEF next
<1>7. OnTime(u)
  BY <1>1, <1>3, <1>4, <1>6, EarliestIsOnTime
<1> QED BY <1>7 DEF u

(* A trigger that fires is for an occurrence, however it was brought to fire. *)
LEMMA FiringIsOnTime ==
  ASSUME NEW t \in Trigger, OnTime(t), NEW u \in Trigger,
         u.target = t.target, u.time = t.time, u.firing
  PROVE  OnTime(u)
BY DEF OnTime

LEMMA DisarmedAreOnTime ==
  ASSUME TypeOK, RegularZone, AllOnTime, NEW A \in SUBSET Handles, \A h \in A : Live(h),
         NEW h \in Handles, NEW t \in Trigger, Disarmed(A)[h] = t
  PROVE  OnTime(t)
<1>1. CASE h \notin A
  BY <1>1 DEF Disarmed, AllOnTime
<1>2. CASE h \in A
  <2>1. t # Null
    BY NullIsNothing
  <2>2. trigger[h] \in Trigger
    BY <1>2 DEF Live, TypeOK
  <2>3. /\ trigger[h].firing
        /\ t = [trigger[h] EXCEPT !.cancelled = TRUE, !.served = trigger[h].target]
    BY <1>2, <2>1 DEF Disarmed
  <2>4. t.target = trigger[h].target /\ t.time = trigger[h].time /\ t.firing
    BY <2>2, <2>3 DEF Trigger
  <2>5. OnTime(trigger[h])
    BY <2>2 DEF AllOnTime
  <2> QED BY <2>2, <2>4, <2>5, FiringIsOnTime
<1> QED BY <1>1, <1>2

-----------------------------------------------------------------------------
(* No action changes the zone, so what is said of it stays. *)

LEMMA ZoneStays ==
  ASSUME zone' = zone
  PROVE  /\ RegularZone' <=> RegularZone
         /\ \A t \in Trigger : OnTime(t)' <=> OnTime(t)
<1>1. RegularZone' <=> RegularZone
  BY DEF RegularZone, DayOf, Local
<1>2. ASSUME NEW t \in Trigger PROVE OnTime(t)' <=> OnTime(t)
  <2>1. WaitsForNext(t)' <=> WaitsForNext(t)
    BY DEF WaitsForNext, DatesBetween, Rolled, Occurrence, DayOf, Local, Utc
  <2> QED BY <2>1 DEF OnTime, Occurrence, Utc
<1> QED BY <1>1, <1>2

LEMMA StaysOnTime ==
  ASSUME zone' = zone,
         ASSUME RegularZone, NEW h \in Handles, NEW t \in Trigger, trigger'[h] = t
         PROVE  OnTime(t)
  PROVE  AllOnTime'
<1> SUFFICES ASSUME RegularZone', NEW h \in Handles, NEW t \in Trigger, trigger'[h] = t
             PROVE  OnTime(t)'
  BY DEF AllOnTime
<1>1. RegularZone
  BY ZoneStays
<1>2. OnTime(t)
  BY <1>1
<1> QED BY <1>2, ZoneStays

LEMMA PutScheduleOnTime ==
  ASSUME TimedInv, NEW s \in Schedules, NEW sched \in Stored, PutSchedule(s, sched)
  PROVE  AllOnTime'
<1> DEFINE cleared == Disarmed(armed[s])
           fresh == Fresh(cleared, s, sched)
<1>1. /\ zone' = zone
      /\ \A k \in StepsOf(sched) : Room(cleared, s, k) # {}
      /\ store' = [store EXCEPT ![s] = sched]
      /\ armed' = [armed EXCEPT ![s] = fresh]
      /\ trigger' = Arm(cleared, armed'[s], store')
  BY DEF PutSchedule
<1>2. TypeOK /\ ArmedMatchesStore /\ AllOnTime
  BY DEF TimedInv, Inv
<1>3. armed[s] \in SUBSET Handles /\ \A h \in armed[s] : Live(h)
  BY <1>2, ArmedHandles
<1>4. armed'[s] = fresh /\ store'[s] = sched
  BY <1>1, <1>2 DEF TypeOK
<1>5. \A h \in fresh : h[1] = s /\ h[2] \in StepsOf(sched)
  BY <1>1, FreshHandles
<1> HIDE DEF fresh, cleared
<1>6. ASSUME RegularZone, NEW h \in Handles, NEW t \in Trigger, trigger'[h] = t
      PROVE  OnTime(t)
  <2>1. CASE h \in fresh
    <3>1. sched.steps[h[2]] \in Times
      BY <2>1, <1>5, StepTimes
    <3>2. t = NewTrigger(sched.steps[h[2]])
      BY <1>1, <1>4, <1>5, <1>6, <2>1 DEF Arm
    <3> QED BY <1>2, <1>6, <3>1, <3>2, NewIsOnTime
  <2>2. CASE h \notin fresh
    <3>1. Disarmed(armed[s])[h] = t
      BY <1>1, <1>4, <1>6, <2>2 DEF Arm, cleared
    <3> QED BY <1>2, <1>3, <1>6, <3>1, DisarmedAreOnTime
  <2> QED BY <2>1, <2>2
<1> QED BY <1>1, <1>6, StaysOnTime

LEMMA DeleteScheduleOnTime ==
  ASSUME TimedInv, NEW s \in Schedules, DeleteSchedule(s)
  PROVE  AllOnTime'
<1>1. zone' = zone /\ trigger' = Disarmed(armed[s])
  BY DEF DeleteSchedule
<1>2. TypeOK /\ ArmedMatchesStore /\ AllOnTime
  BY DEF TimedInv, Inv
<1>3. armed[s] \in SUBSET Handles /\ \A h \in armed[s] : Live(h)
  BY <1>2, ArmedHandles
<1>4. ASSUME RegularZone, NEW h \in Handles, NEW t \in Trigger, trigger'[h] = t
      PROVE  OnTime(t)
  <2>1. Disarmed(armed[s])[h] = t
    BY <1>1, <1>4
  <2> QED BY <1>2, <1>3, <1>4, <2>1, DisarmedAreOnTime
<1> QED BY <1>1, <1>4, StaysOnTime

LEMMA FireBeginsOnTime ==
  ASSUME TimedInv, NEW f \in Handles, FireBegins(f)
  PROVE  AllOnTime'
<1>1. /\ trigger[f] # Null
      /\ trigger' = [trigger EXCEPT ![f].firing = TRUE]
      /\ zone' = zone
  BY DEF FireBegins
<1>2. TypeOK /\ AllOnTime
  BY DEF TimedInv, Inv
<1>3. trigger[f] \in Trigger
  BY <1>1, <1>2 DEF TypeOK
<1>4. ASSUME RegularZone, NEW h \in Handles, NEW t \in Trigger, trigger'[h] = t
      PROVE  OnTime(t)
  <2>1. CASE h # f
    BY <1>1, <1>2, <1>4, <2>1 DEF AllOnTime, TypeOK
  <2>2. CASE h = f
    <3>1. t = [trigger[f] EXCEPT !.firing = TRUE]
      BY <1>1, <1>2, <1>4, <2>2 DEF TypeOK
    <3>2. t.target = trigger[f].target /\ t.time = trigger[f].time /\ t.firing
      BY <1>3, <3>1 DEF Trigger
    <3>3. OnTime(trigger[f])
      BY <1>2, <1>3, <1>4 DEF AllOnTime
    <3> QED BY <1>3, <3>2, <3>3, FiringIsOnTime
  <2> QED BY <2>1, <2>2
<1> QED BY <1>1, <1>4, StaysOnTime

LEMMA FireEndsOnTime ==
  ASSUME TimedInv, NEW f \in Handles, FireEnds(f)
  PROVE  AllOnTime'
<1>1. /\ trigger[f] # Null
      /\ trigger' = [trigger EXCEPT ![f] =
                       IF trigger[f].cancelled THEN Null ELSE Rearmed(trigger[f])]
      /\ zone' = zone
  BY DEF FireEnds
<1>2. TypeOK /\ AllOnTime
  BY DEF TimedInv, Inv
<1>3. trigger[f] \in Trigger
  BY <1>1, <1>2 DEF TypeOK
<1>4. ASSUME RegularZone, NEW h \in Handles, NEW t \in Trigger, trigger'[h] = t
      PROVE  OnTime(t)
  <2>1. CASE h # f
    BY <1>1, <1>2, <1>4, <2>1 DEF AllOnTime, TypeOK
  <2>2. CASE h = f
    <3>1. t = Rearmed(trigger[f])
      BY <1>1, <1>2, <1>4, <2>2, NullIsNothing DEF TypeOK
    <3>2. OnTime(trigger[f])
      BY <1>2, <1>3, <1>4 DEF AllOnTime
    <3> QED BY <1>2, <1>3, <1>4, <3>1, <3>2, RearmedIsOnTime
  <2> QED BY <2>1, <2>2
<1> QED BY <1>1, <1>4, StaysOnTime

LEMMA ShutdownOnTime ==
  ASSUME TimedInv, Shutdown
  PROVE  AllOnTime'
<1> DEFINE all == UNION {armed[s] : s \in Schedules}
<1>1. zone' = zone /\ trigger' = Disarmed(all)
  BY DEF Shutdown
<1>2. TypeOK /\ ArmedMatchesStore /\ AllOnTime
  BY DEF TimedInv, Inv
<1>3. all \in SUBSET Handles /\ \A h \in all : Live(h)
  BY <1>2, ArmedHandles
<1> HIDE DEF all
<1>4. ASSUME RegularZone, NEW h \in Handles, NEW t \in Trigger, trigger'[h] = t
      PROVE  OnTime(t)
  <2>1. Disarmed(all)[h] = t
    BY <1>1, <1>4
  <2> QED BY <1>2, <1>3, <1>4, <2>1, DisarmedAreOnTime
<1> QED BY <1>1, <1>4, StaysOnTime

LEMMA ExitOnTime ==
  ASSUME TimedInv, Exit
  PROVE  AllOnTime'
<1>1. zone' = zone /\ trigger' = [h \in Handles |-> Null]
  BY DEF Exit
<1>2. ASSUME RegularZone, NEW h \in Handles, NEW t \in Trigger, trigger'[h] = t
      PROVE  OnTime(t)
  BY <1>1, <1>2, NullIsNothing
<1> QED BY <1>1, <1>2, StaysOnTime

LEMMA StartUpOnTime ==
  ASSUME TimedInv, StartUp
  PROVE  AllOnTime'
<1> DEFINE fresh == UNION {armed'[s] : s \in Schedules}
<1>1. /\ run = "down" /\ zone' = zone
      /\ armed' = [s \in Schedules |-> Fresh(trigger, s, store[s])]
      /\ trigger' = Arm(trigger, fresh, store)
  BY DEF StartUp
<1>2. TypeOK /\ AllOnTime /\ DownIsEmpty
  BY DEF TimedInv, Inv
<1>3. \A h \in Handles : trigger[h] = Null
  BY <1>1, <1>2 DEF DownIsEmpty
<1>4. ASSUME NEW s \in Schedules, NEW h \in armed'[s]
      PROVE  h[1] = s /\ h[2] \in StepsOf(store[s])
  <2>1. store[s] \in Stored \cup {Null} /\ armed'[s] = Fresh(trigger, s, store[s])
    BY <1>1, <1>2 DEF TypeOK
  <2>2. \A k \in StepsOf(store[s]) : Room(trigger, s, k) # {}
    <3> SUFFICES ASSUME NEW k \in StepsOf(store[s]) PROVE Room(trigger, s, k) # {}
      OBVIOUS
    <3>1. k \in StepIds
      BY <2>1, StepTimes
    <3>2. PICK g \in Gens : TRUE
      BY GensAssumption
    <3>3. <<s, k, g>> \in Handles
      BY <3>1 DEF Handles
    <3> QED BY <1>3, <3>3 DEF Room
  <2>3. \A o \in Fresh(trigger, s, store[s]) : o[1] = s /\ o[2] \in StepsOf(store[s])
    BY <2>1, <2>2, FreshHandles
  <2> QED BY <1>4, <2>1, <2>3
<1>5. \A h \in fresh : h[1] \in Schedules /\ h[2] \in StepsOf(store[h[1]])
  BY <1>4
<1> HIDE DEF fresh
<1>6. ASSUME RegularZone, NEW h \in Handles, NEW t \in Trigger, trigger'[h] = t
      PROVE  OnTime(t)
  <2>1. h \in fresh
    BY <1>1, <1>3, <1>6, NullIsNothing DEF Arm
  <2>2. store[h[1]] \in Stored \cup {Null}
    BY <1>2, <1>5, <2>1 DEF TypeOK
  <2>3. store[h[1]].steps[h[2]] \in Times
    BY <1>5, <2>1, <2>2, StepTimes
  <2>4. t = NewTrigger(store[h[1]].steps[h[2]])
    BY <1>1, <1>6, <2>1 DEF Arm
  <2> QED BY <1>2, <1>6, <2>3, <2>4, NewIsOnTime
<1> QED BY <1>1, <1>6, StaysOnTime

LEMMA StillOnTime ==
  ASSUME AllOnTime, UNCHANGED <<zone, trigger>>
  PROVE  AllOnTime'
<1>1. ASSUME RegularZone, NEW h \in Handles, NEW t \in Trigger, trigger'[h] = t
      PROVE  OnTime(t)
  BY <1>1 DEF AllOnTime
<1> QED BY <1>1, StaysOnTime

LEMMA NextOnTime == TimedInv /\ [Next]_vars => TimedInv'
<1> SUFFICES ASSUME TimedInv, [Next]_vars PROVE AllOnTime'
  BY NextInv DEF TimedInv
<1>1. ASSUME NEW s \in Schedules, NEW sched \in Stored, PutSchedule(s, sched)
      PROVE  AllOnTime'
  BY <1>1, PutScheduleOnTime
<1>2. ASSUME NEW s \in Schedules, DeleteSchedule(s) PROVE AllOnTime'
  BY <1>2, DeleteScheduleOnTime
<1>3. ASSUME NEW h \in Handles, FireBegins(h) PROVE AllOnTime'
  BY <1>3, FireBeginsOnTime
<1>4. ASSUME NEW h \in Handles, FireEnds(h) PROVE AllOnTime'
  BY <1>4, FireEndsOnTime
<1>5. CASE Shutdown
  BY <1>5, ShutdownOnTime
<1>6. CASE Exit
  BY <1>6, ExitOnTime
<1>7. CASE StartUp
  BY <1>7, StartUpOnTime
<1>8. CASE Tick
  BY <1>8, StillOnTime DEF Tick, TimedInv
<1>9. CASE UNCHANGED vars
  BY <1>9, StillOnTime DEF vars, TimedInv
<1> QED
  BY <1>1, <1>2, <1>3, <1>4, <1>5, <1>6, <1>7, <1>8, <1>9
  DEF Next, UserStep, FireStep, ProcessStep

LEMMA InitOnTime == Init => TimedInv
<1> SUFFICES ASSUME Init PROVE AllOnTime
  BY InitInv DEF TimedInv
<1> QED BY NullIsNothing DEF Init, AllOnTime

LEMMA OnTimeSkipsNone == TimedInv => NoDaySkipped
<1> SUFFICES ASSUME TimedInv, RegularZone, NEW h \in Handles,
                    trigger[h] # Null, ~trigger[h].firing
             PROVE  WaitsForNext(trigger[h])
  BY DEF NoDaySkipped
<1>1. trigger[h] \in Trigger
  BY DEF TimedInv, Inv, TypeOK
<1>2. OnTime(trigger[h])
  BY <1>1 DEF TimedInv, AllOnTime
<1> QED BY <1>2 DEF OnTime

-----------------------------------------------------------------------------
(* A waiting trigger (nextOccurrence and scheduleNext of scheduler.js) waits    *)
(* for the earliest occurrence of its time after the one it fired last, or      *)
(* after it was built, in every regular zone, however late its timers and       *)
(* however long its fires: no day is skipped and none repeated.                 *)
THEOREM TriggersSkipNoDay == Spec => []NoDaySkipped
BY InitOnTime, NextOnTime, OnTimeSkipsNone, PTL DEF Spec

-----------------------------------------------------------------------------
(* No occurrence twice: a fire that has begun was due, so a trigger built after *)
(* it, which waits for something to come, is for a later one.                   *)

Due ==
  \A h \in Handles :
    trigger[h] # Null /\ (trigger[h].firing \/ trigger[h].cancelled) => trigger[h].target <= now

OrderedInv == TimedInv /\ Due /\ NoOccurrenceTwice

(* A new trigger waits for something to come, an armed one for something later. *)
LEMMA NewIsLater ==
  ASSUME TypeOK, RegularZone, NEW time \in Times
  PROVE  now < NewTrigger(time).target
<1>1. zone \in Zones /\ now \in Int
  BY TimesAssumption DEF TypeOK
<1>2. PICK date \in Int : Earliest(NextOccurrence(time, now), date, time, now)
  BY <1>1, NextIsEarliest
<1> QED BY <1>2 DEF Earliest, NewTrigger

LEMMA RearmedIsLater ==
  ASSUME TypeOK, RegularZone, NEW t \in Trigger, OnTime(t)
  PROVE  t.target < Rearmed(t).target
<1>1. zone \in Zones /\ t.time \in Times
  BY DEF TypeOK, Trigger
<1>2. PICK last \in Int : t.target = Occurrence(last, t.time)
  BY DEF OnTime
<1>3. PICK date \in Int : Earliest(NextOccurrence(t.time, t.target + 1), date, t.time, t.target)
  BY <1>1, <1>2, NextAfterOccurrence
<1>4. Rearmed(t).target = NextOccurrence(t.time, t.target + 1)
  BY DEF Rearmed, Trigger
<1> QED BY <1>3, <1>4 DEF Earliest

(* Cancelling keeps what a trigger is for. *)
LEMMA DisarmedTargets ==
  ASSUME TypeOK, NEW A \in SUBSET Handles, \A h \in A : Live(h),
         NEW h \in Handles, Disarmed(A)[h] # Null
  PROVE  /\ trigger[h] # Null
         /\ Disarmed(A)[h].target = trigger[h].target
         /\ Disarmed(A)[h].firing = trigger[h].firing
         /\ Disarmed(A)[h].cancelled => trigger[h].cancelled \/ trigger[h].firing
<1>1. CASE h \notin A
  BY <1>1 DEF Disarmed
<1>2. CASE h \in A
  <2>1. trigger[h] \in Trigger /\ trigger[h] # Null
    BY <1>2 DEF Live, TypeOK
  <2>2. /\ trigger[h].firing
        /\ Disarmed(A)[h] = [trigger[h] EXCEPT !.cancelled = TRUE, !.served = trigger[h].target]
    BY <1>2 DEF Disarmed
  <2> QED BY <2>1, <2>2 DEF Trigger
<1> QED BY <1>1, <1>2

LEMMA DisarmedAreDue ==
  ASSUME TypeOK, Due, NEW A \in SUBSET Handles, \A h \in A : Live(h),
         NEW h \in Handles, Disarmed(A)[h] # Null,
         Disarmed(A)[h].firing \/ Disarmed(A)[h].cancelled
  PROVE  Disarmed(A)[h].target <= now
BY DisarmedTargets DEF Due

(* A step after which no trigger is live that was not, and nothing is cancelled *)
(* that was not.                                                                *)
LEMMA OrderStays ==
  ASSUME NoOccurrenceTwice, zone' = zone,
         \A h \in Handles : Live(h)' => Live(h) /\ trigger'[h].target = trigger[h].target,
         \A h \in Handles : trigger'[h] # Null /\ trigger'[h].cancelled =>
           /\ trigger[h] # Null /\ trigger'[h].target = trigger[h].target
           /\ trigger[h].cancelled \/ \A o \in Handles : o[1] = h[1] => ~Live(o)'
  PROVE  NoOccurrenceTwice'
<1> SUFFICES ASSUME RegularZone', NEW h \in Handles, NEW o \in Handles,
                    h[1] = o[1], h[2] = o[2], Live(h)',
                    trigger'[o] # Null, trigger'[o].cancelled
             PROVE  trigger'[o].target < trigger'[h].target
  BY DEF NoOccurrenceTwice
<1>1. RegularZone
  BY ZoneStays
<1>2. Live(h) /\ trigger'[h].target = trigger[h].target
  OBVIOUS
<1>3. trigger[o] # Null /\ trigger[o].cancelled /\ trigger'[o].target = trigger[o].target
  OBVIOUS
<1> QED BY <1>1, <1>2, <1>3 DEF NoOccurrenceTwice

LEMMA PutScheduleOrdered ==
  ASSUME OrderedInv, NEW s \in Schedules, NEW sched \in Stored, PutSchedule(s, sched)
  PROVE  Due' /\ NoOccurrenceTwice'
<1> DEFINE cleared == Disarmed(armed[s])
           fresh == Fresh(cleared, s, sched)
<1>1. /\ zone' = zone /\ now' = now
      /\ \A k \in StepsOf(sched) : Room(cleared, s, k) # {}
      /\ store' = [store EXCEPT ![s] = sched]
      /\ armed' = [armed EXCEPT ![s] = fresh]
      /\ trigger' = Arm(cleared, armed'[s], store')
  BY DEF PutSchedule
<1>2. TypeOK /\ ArmedMatchesStore /\ Due /\ NoOccurrenceTwice
  BY DEF OrderedInv, TimedInv, Inv
<1>3. armed[s] \in SUBSET Handles /\ \A h \in armed[s] : Live(h) /\ h[1] = s
  BY <1>2, ArmedHandles
<1>4. armed'[s] = fresh /\ store'[s] = sched
  BY <1>1, <1>2 DEF TypeOK
<1>5. fresh \in SUBSET Handles /\ \A h \in fresh : h[1] = s /\ h[2] \in StepsOf(sched)
  BY <1>1, FreshHandles
<1>6. now \in Int
  BY <1>2, TimesAssumption DEF TypeOK
<1>7. \A h \in Handles : cleared[h] # Null /\ (cleared[h].firing \/ cleared[h].cancelled) =>
        cleared[h].target <= now
  BY <1>2, <1>3, DisarmedAreDue
<1>8. \A h \in Handles : cleared[h] # Null =>
        trigger[h] # Null /\ cleared[h].target = trigger[h].target
  BY <1>2, <1>3, DisarmedTargets
<1>9. \A h \in Handles \ armed[s] : cleared[h] = trigger[h]
  BY DEF Disarmed
<1>10. \A h \in armed[s] : cleared[h] # Null => cleared[h].cancelled
  BY <1>2, <1>3, DisarmedTriggers
<1>11. cleared \in [Handles -> Trigger \cup {Null}]
  BY <1>2, <1>3, DisarmedTriggers
<1> HIDE DEF fresh, cleared
<1>12. \A h \in Handles \ fresh : trigger'[h] = cleared[h]
  BY <1>1, <1>4 DEF Arm
<1>13. ASSUME NEW h \in fresh
       PROVE  /\ ~trigger'[h].firing /\ ~trigger'[h].cancelled
              /\ RegularZone => now < trigger'[h].target
              /\ trigger'[h].target \in Int
  <2>1. sched.steps[h[2]] \in Times
    BY <1>5, StepTimes
  <2>2. trigger'[h] = NewTrigger(sched.steps[h[2]])
    BY <1>1, <1>4, <1>5 DEF Arm
  <2>3. NewTrigger(sched.steps[h[2]]) \in Trigger
    BY <1>2, <2>1, NewTriggerType
  <2>4. RegularZone => now < NewTrigger(sched.steps[h[2]]).target
    BY <1>2, <2>1, NewIsLater
  <2> QED BY <2>2, <2>3, <2>4 DEF NewTrigger, Trigger
<1>14. Due'
  <2> SUFFICES ASSUME NEW h \in Handles, trigger'[h] # Null,
                      trigger'[h].firing \/ trigger'[h].cancelled
               PROVE  trigger'[h].target <= now'
    BY DEF Due
  <2>1. h \notin fresh
    BY <1>13
  <2> QED BY <2>1, <1>1, <1>7, <1>12
<1>15. NoOccurrenceTwice'
  <2> SUFFICES ASSUME RegularZone', NEW h \in Handles, NEW o \in Handles,
                      h[1] = o[1], h[2] = o[2], Live(h)',
                      trigger'[o] # Null, trigger'[o].cancelled
               PROVE  trigger'[o].target < trigger'[h].target
    BY DEF NoOccurrenceTwice
  <2>1. RegularZone
    BY <1>1, ZoneStays
  <2>2. o \notin fresh /\ trigger'[o] = cleared[o]
    BY <1>12, <1>13
  <2>3. CASE h \in fresh
    <3>1. trigger'[o].target <= now /\ now < trigger'[h].target
      BY <1>7, <1>13, <2>1, <2>2, <2>3
    <3>2. trigger'[o].target \in Int /\ trigger'[h].target \in Int
      BY <1>11, <1>13, <2>2, <2>3 DEF Trigger
    <3> QED BY <1>6, <3>1, <3>2
  <2>4. CASE h \notin fresh
    <3>1. trigger'[h] = cleared[h] /\ trigger'[h] # Null /\ ~trigger'[h].cancelled
      BY <1>12, <2>4 DEF Live
    <3>2. h \notin armed[s] /\ trigger'[h] = trigger[h]
      BY <1>9, <1>10, <3>1
    <3>3. Live(h)
      BY <3>1, <3>2 DEF Live
    <3>4. h[1] # s
      BY <1>2, <3>2, <3>3, ArmedAreLive
    <3>5. trigger'[o] = trigger[o]
      BY <1>3, <1>9, <2>2, <3>4
    <3> QED BY <1>2, <2>1, <3>2, <3>3, <3>5 DEF NoOccurrenceTwice
  <2> QED BY <2>3, <2>4
<1> QED BY <1>14, <1>15

(* Live triggers are cancelled, among them all of a schedule whose live ones     *)
(* are any.                                                                      *)
LEMMA CancelOrdered ==
  ASSUME OrderedInv, NEW A \in SUBSET Handles, \A h \in A : Live(h),
         \A h \in A, o \in Handles : o[1] = h[1] /\ Live(o) => o \in A,
         trigger' = Disarmed(A), UNCHANGED <<now, zone>>
  PROVE  Due' /\ NoOccurrenceTwice'
<1>1. TypeOK /\ Due /\ NoOccurrenceTwice
  BY DEF OrderedInv, TimedInv, Inv
<1>2. Due'
  BY <1>1, DisarmedAreDue DEF Due
<1>3. \A h \in Handles \ A : trigger'[h] = trigger[h]
  BY DEF Disarmed
<1>4. \A h \in A : trigger'[h] # Null => trigger'[h].cancelled
  BY <1>1, DisarmedTriggers
<1>5. \A h \in Handles : trigger'[h] # Null =>
        trigger[h] # Null /\ trigger'[h].target = trigger[h].target
  BY <1>1, DisarmedTargets
<1>6. \A h \in Handles : Live(h)' => h \notin A /\ Live(h)
  BY <1>3, <1>4 DEF Live
<1>7. \A h \in Handles : Live(h)' => Live(h) /\ trigger'[h].target = trigger[h].target
  BY <1>3, <1>6
<1>8. ASSUME NEW h \in Handles, trigger'[h] # Null, trigger'[h].cancelled
      PROVE  /\ trigger[h] # Null /\ trigger'[h].target = trigger[h].target
             /\ trigger[h].cancelled \/ \A o \in Handles : o[1] = h[1] => ~Live(o)'
  BY <1>3, <1>5, <1>6, <1>8
<1>9. NoOccurrenceTwice'
  BY <1>1, <1>7, <1>8, OrderStays
<1> QED BY <1>2, <1>9

LEMMA DeleteScheduleOrdered ==
  ASSUME OrderedInv, NEW s \in Schedules, DeleteSchedule(s)
  PROVE  Due' /\ NoOccurrenceTwice'
<1>1. UNCHANGED <<now, zone>> /\ trigger' = Disarmed(armed[s])
  BY DEF DeleteSchedule
<1>2. ArmedMatchesStore
  BY DEF OrderedInv, TimedInv, Inv
<1>3. /\ armed[s] \in SUBSET Handles /\ \A h \in armed[s] : Live(h)
      /\ \A h \in armed[s], o \in Handles : o[1] = h[1] /\ Live(o) => o \in armed[s]
  BY <1>2, ArmedHandles, ArmedAreLive
<1> QED BY <1>1, <1>3, CancelOrdered

LEMMA ShutdownOrdered ==
  ASSUME OrderedInv, Shutdown
  PROVE  Due' /\ NoOccurrenceTwice'
<1> DEFINE all == UNION {armed[s] : s \in Schedules}
<1>1. UNCHANGED <<now, zone>> /\ trigger' = Disarmed(all)
  BY DEF Shutdown
<1>2. ArmedMatchesStore
  BY DEF OrderedInv, TimedInv, Inv
<1>3. all \in SUBSET Handles /\ \A h \in all : Live(h)
  BY <1>2, ArmedHandles
<1>4. ASSUME NEW o \in Handles, Live(o) PROVE o \in all
  <2>1. o[1] \in Schedules
    BY DEF Handles
  <2>2. o \in armed[o[1]]
    BY <1>2, <1>4, <2>1, ArmedAreLive
  <2> QED BY <2>1, <2>2
<1> HIDE DEF all
<1> QED BY <1>1, <1>3, <1>4, CancelOrdered

LEMMA FireBeginsOrdered ==
  ASSUME OrderedInv, NEW f \in Handles, FireBegins(f)
  PROVE  Due' /\ NoOccurrenceTwice'
<1>1. /\ trigger[f] # Null /\ trigger[f].target <= now
      /\ trigger' = [trigger EXCEPT ![f].firing = TRUE]
      /\ now' = now /\ zone' = zone
  BY DEF FireBegins
<1>2. TypeOK /\ Due /\ NoOccurrenceTwice
  BY DEF OrderedInv, TimedInv, Inv
<1>3. trigger[f] \in Trigger
  BY <1>1, <1>2 DEF TypeOK
<1>4. /\ trigger'[f] # Null /\ trigger'[f].target = trigger[f].target
      /\ trigger'[f].cancelled = trigger[f].cancelled
  <2>1. trigger'[f] = [trigger[f] EXCEPT !.firing = TRUE]
    BY <1>1, <1>2 DEF TypeOK
  <2>2. trigger'[f] \in Trigger
    BY <1>3, <2>1 DEF Trigger
  <2> QED BY <1>3, <2>1, <2>2, NullIsNothing DEF Trigger
<1>5. \A h \in Handles \ {f} : trigger'[h] = trigger[h]
  BY <1>1, <1>2 DEF TypeOK
<1>6. Due'
  BY <1>1, <1>2, <1>4, <1>5 DEF Due
<1>7. \A h \in Handles : Live(h)' => Live(h) /\ trigger'[h].target = trigger[h].target
  BY <1>1, <1>4, <1>5 DEF Live
<1>8. \A h \in Handles : trigger'[h] # Null /\ trigger'[h].cancelled =>
        trigger[h] # Null /\ trigger'[h].target = trigger[h].target /\ trigger[h].cancelled
  BY <1>1, <1>4, <1>5
<1>9. NoOccurrenceTwice'
  BY <1>1, <1>2, <1>7, <1>8, OrderStays
<1> QED BY <1>6, <1>9

LEMMA FireEndsOrdered ==
  ASSUME OrderedInv, NEW f \in Handles, FireEnds(f)
  PROVE  Due' /\ NoOccurrenceTwice'
<1>1. /\ trigger[f] # Null
      /\ trigger' = [trigger EXCEPT ![f] =
                       IF trigger[f].cancelled THEN Null ELSE Rearmed(trigger[f])]
      /\ now' = now /\ zone' = zone
  BY DEF FireEnds
<1>2. TypeOK /\ AllOnTime /\ Due /\ NoOccurrenceTwice
  BY DEF OrderedInv, TimedInv, Inv
<1>3. trigger[f] \in Trigger
  BY <1>1, <1>2 DEF TypeOK
<1>4. \A h \in Handles \ {f} : trigger'[h] = trigger[h]
  BY <1>1, <1>2 DEF TypeOK
<1>5. CASE trigger[f].cancelled
  <2>1. trigger'[f] = Null
    BY <1>1, <1>2, <1>5 DEF TypeOK
  <2>2. Due'
    BY <1>1, <1>2, <1>4, <2>1 DEF Due
  <2>3. \A h \in Handles : Live(h)' => Live(h) /\ trigger'[h].target = trigger[h].target
    BY <1>4, <2>1 DEF Live
  <2>4. \A h \in Handles : trigger'[h] # Null /\ trigger'[h].cancelled =>
          trigger[h] # Null /\ trigger'[h].target = trigger[h].target /\ trigger[h].cancelled
    BY <1>4, <2>1
  <2>5. NoOccurrenceTwice'
    BY <1>1, <1>2, <2>3, <2>4, OrderStays
  <2> QED BY <2>2, <2>5
<1>6. CASE ~trigger[f].cancelled
  <2> DEFINE t == trigger[f]
             u == Rearmed(t)
  <2>1. trigger'[f] = u
    BY <1>1, <1>2, <1>6 DEF TypeOK
  <2>2. /\ u \in Trigger /\ ~u.cancelled /\ ~u.firing
    <3>1. t.time \in Times /\ t.target + 1 \in Int
      BY <1>3 DEF Trigger
    <3>2. NextOccurrence(t.time, t.target + 1) \in Int
      BY <1>2, <3>1, OccurrenceType DEF TypeOK
    <3>3. u \in Trigger /\ u.cancelled = t.cancelled
      BY <1>3, <3>2, TriggerUpdate DEF Rearmed
    <3>4. ~u.firing
      BY <1>3 DEF Rearmed, Trigger
    <3> QED BY <1>6, <3>3, <3>4
  <2>3. RegularZone => t.target < u.target
    BY <1>2, <1>3, RearmedIsLater DEF AllOnTime
  <2> HIDE DEF u
  <2>4. Due'
    BY <1>1, <1>2, <1>4, <2>1, <2>2 DEF Due
  <2>5. NoOccurrenceTwice'
    <3> SUFFICES ASSUME RegularZone', NEW h \in Handles, NEW o \in Handles,
                        h[1] = o[1], h[2] = o[2], Live(h)',
                        trigger'[o] # Null, trigger'[o].cancelled
                 PROVE  trigger'[o].target < trigger'[h].target
      BY DEF NoOccurrenceTwice
    <3>1. RegularZone
      BY <1>1, ZoneStays
    <3>2. o # f /\ trigger'[o] = trigger[o]
      BY <1>4, <2>1, <2>2
    <3>3. CASE h # f
      BY <1>2, <1>4, <3>1, <3>2, <3>3 DEF Live, NoOccurrenceTwice
    <3>4. CASE h = f
      <4>1. Live(h)
        BY <1>1, <1>6, <3>4 DEF Live
      <4>2. trigger[o].target < t.target
        BY <1>2, <3>1, <3>2, <3>4, <4>1 DEF NoOccurrenceTwice
      <4>3. trigger[o].target \in Int /\ t.target \in Int /\ u.target \in Int
        BY <1>2, <1>3, <2>2, <3>2 DEF TypeOK, Trigger
      <4> QED BY <2>1, <2>3, <3>1, <3>2, <3>4, <4>2, <4>3
    <3> QED BY <3>3, <3>4
  <2> QED BY <2>4, <2>5
<1> QED BY <1>5, <1>6

LEMMA ExitOrdered ==
  ASSUME Exit
  PROVE  Due' /\ NoOccurrenceTwice'
<1>1. \A h \in Handles : trigger'[h] = Null
  BY DEF Exit
<1> QED BY <1>1 DEF Due, NoOccurrenceTwice

LEMMA StartUpOrdered ==
  ASSUME OrderedInv, StartUp
  PROVE  Due' /\ NoOccurrenceTwice'
<1> DEFINE fresh == UNION {armed'[s] : s \in Schedules}
<1>1. run = "down" /\ trigger' = Arm(trigger, fresh, store)
  BY DEF StartUp
<1>2. \A h \in Handles : trigger[h] = Null
  BY <1>1 DEF OrderedInv, TimedInv, Inv, DownIsEmpty
<1> HIDE DEF fresh
<1>3. ASSUME NEW h \in Handles, trigger'[h] # Null
      PROVE  ~trigger'[h].firing /\ ~trigger'[h].cancelled
  BY <1>1, <1>2, <1>3 DEF Arm, NewTrigger
<1> QED BY <1>3 DEF Due, NoOccurrenceTwice

LEMMA StillOrdered ==
  ASSUME OrderedInv, UNCHANGED <<zone, trigger>>, now' \in Int, now <= now'
  PROVE  Due' /\ NoOccurrenceTwice'
<1>1. TypeOK /\ Due /\ NoOccurrenceTwice
  BY DEF OrderedInv, TimedInv, Inv
<1>2. ASSUME NEW h \in Handles, trigger[h] # Null, trigger[h].firing \/ trigger[h].cancelled
      PROVE  trigger[h].target <= now'
  <2>1. trigger[h].target <= now
    BY <1>1, <1>2 DEF Due
  <2>2. trigger[h].target \in Int /\ now \in Int
    BY <1>1, <1>2, TimesAssumption DEF TypeOK, Trigger
  <2> QED BY <2>1, <2>2
<1>3. NoOccurrenceTwice'
  <2>1. RegularZone' => RegularZone
    BY ZoneStays
  <2> QED BY <1>1, <2>1 DEF NoOccurrenceTwice, Live
<1> QED BY <1>2, <1>3 DEF Due

LEMMA NextOrdered == OrderedInv /\ [Next]_vars => OrderedInv'
<1> SUFFICES ASSUME OrderedInv, [Next]_vars PROVE Due' /\ NoOccurrenceTwice'
  BY NextOnTime DEF OrderedInv
<1>1. ASSUME NEW s \in Schedules, NEW sched \in Stored, PutSchedule(s, sched)
      PROVE  Due' /\ NoOccurrenceTwice'
  BY <1>1, PutScheduleOrdered
<1>2. ASSUME NEW s \in Schedules, DeleteSchedule(s) PROVE Due' /\ NoOccurrenceTwice'
  BY <1>2, DeleteScheduleOrdered
<1>3. ASSUME NEW h \in Handles, FireBegins(h) PROVE Due' /\ NoOccurrenceTwice'
  BY <1>3, FireBeginsOrdered
<1>4. ASSUME NEW h \in Handles, FireEnds(h) PROVE Due' /\ NoOccurrenceTwice'
  BY <1>4, FireEndsOrdered
<1>5. CASE Shutdown
  BY <1>5, ShutdownOrdered
<1>6. CASE Exit
  BY <1>6, ExitOrdered
<1>7. CASE StartUp
  BY <1>7, StartUpOrdered
<1>8. CASE Tick \/ UNCHANGED vars
  <2>1. now \in Int
    BY TimesAssumption DEF OrderedInv, TimedInv, Inv, TypeOK
  <2>2. UNCHANGED <<zone, trigger>> /\ now' \in Int /\ now <= now'
    BY <1>8, <2>1 DEF Tick, vars
  <2> QED BY <2>2, StillOrdered
<1> QED
  BY <1>1, <1>2, <1>3, <1>4, <1>5, <1>6, <1>7, <1>8
  DEF Next, UserStep, FireStep, ProcessStep

LEMMA InitOrdered == Init => OrderedInv
<1> SUFFICES ASSUME Init PROVE Due /\ NoOccurrenceTwice
  BY InitOnTime DEF OrderedInv
<1> QED BY DEF Init, Due, NoOccurrenceTwice

(* However the edits of a schedule fall on its fires: the trigger that an edit   *)
(* puts in the place of one that fires (armSchedule, makeTrigger) waits for a    *)
(* later occurrence than that one, and so do those it arms for afterwards.       *)
THEOREM EditsFireNothingTwice == Spec => []NoOccurrenceTwice
<1>1. OrderedInv => NoOccurrenceTwice
  BY DEF OrderedInv
<1> QED BY <1>1, InitOrdered, NextOrdered, PTL DEF Spec
=============================================================================
