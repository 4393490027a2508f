--------------------------- MODULE FiringProofs ---------------------------
(***************************************************************************)
(* Theorems about Firing for any devices, outdoor units, schedules and     *)
(* number of fires: its types, that no device of a list is passed over,    *)
(* that a device on the fire's own side is turned off only by mistake      *)
(* about what it runs, and that an undisturbed fire has its way.           *)
(***************************************************************************)
EXTENDS Firing, FiniteSetTheorems, TLAPS

\* A list of devices by its positions.
Lists == UNION {[D -> Devices] : D \in SUBSET Nat}

Plan == [devices : Lists, config : Configs]

FireRecord ==
  [schedule : Schedules, config : Configs, scope : SUBSET Devices, attached : BOOLEAN,
   list : Lists, next : Nat, at : Devices \cup {Null}, siblings : SUBSET Devices,
   off : Devices \cup {Null}, held : [Devices -> Entry \cup {Null}],
   owed : SUBSET Devices, calm : BOOLEAN]

OverRecord == [at : {Null}, off : {Null}, calm : BOOLEAN]

\* Whom the fire r owes a turn is among K and comes later in its list.
OwedLater(r, K) ==
  \A d \in r.owed : d \in K /\ \E i \in DOMAIN r.list : i >= r.next /\ r.list[i] = d

\* A fire in progress when the devices of K are known.
InProgress(r, K) ==
  /\ r \in FireRecord
  /\ r.at \in Devices
  /\ r.at \notin r.siblings /\ r.off \notin r.siblings
  /\ OwedLater(r, K)

IsRegistry(r) == DOMAIN r \subseteq Devices /\ r \in [DOMAIN r -> Entry]

Inv ==
  /\ IsRegistry(registry)
  /\ unit \in [Devices -> Configs]
  /\ store \in [Schedules -> Plan \cup {Null}]
  /\ events \in 0..MaxEvents
  /\ DOMAIN fire \subseteq Fires
  /\ fire \in [DOMAIN fire -> FireRecord \cup OverRecord]
  /\ \A f \in DOMAIN fire : fire[f].at # Null => InProgress(fire[f], known)

LEMMA InvImpliesTypeOK == Inv => TypeOK
BY DEF Inv, IsRegistry, known, TypeOK, Running, Started, InProgress, FireRecord, OverRecord

-----------------------------------------------------------------------------
(* Lists and entries. *)

LEMMA Smallest ==
  ASSUME NEW T, T \subseteq Nat, T # {}
  PROVE  \E i \in T : \A j \in T : i <= j
<1>1. PICK t \in T : TRUE
  OBVIOUS
<1> DEFINE S == 0..t
           F == {0..i : i \in {j \in T : j <= t}}
           R == StrictSubsetOrdering(S)
<1>2. IsWellFoundedOn(R, FiniteSubsetsOf(S))
  BY FS_StrictSubsetOrderingWellFounded
<1>3. F \subseteq FiniteSubsetsOf(S) /\ F # {}
  <2>1. ASSUME NEW i \in T, i <= t
        PROVE  0..i \in FiniteSubsetsOf(S)
    <3>1. IsFiniteSet(0..i)
      BY FS_Interval
    <3> QED BY <2>1, <3>1 DEF FiniteSubsetsOf
  <2>2. 0..t \in F
    OBVIOUS
  <2> QED BY <2>1, <2>2
<1>4. PICK x \in F : \A y \in F : <<y, x>> \notin R
  <2> HIDE DEF F, R, S
  <2> QED BY <1>2, <1>3, WFMin
<1>5. PICK i \in T : i <= t /\ x = 0..i
  BY <1>4
<1>6. ASSUME NEW j \in T, j < i
      PROVE  FALSE
  <2>1. 0..j \in F
    BY <1>5, <1>6
  <2>2. <<0..j, 0..i>> \in R
    BY <1>5, <1>6 DEF StrictSubsetOrdering
  <2> HIDE DEF F, R, S
  <2>3. <<0..j, x>> \in R
    BY <1>5, <2>2
  <2> QED BY <1>4, <2>1, <2>3
<1> HIDE DEF F, R, S
<1>7. \A j \in T : i <= j
  <2>1. i \in Nat /\ \A j \in T : j \in Nat /\ ~(j < i)
    BY <1>6
  <2> QED BY <2>1
<1> QED BY <1>7

LEMMA ListFacts ==
  ASSUME NEW list \in Lists
  PROVE  /\ DOMAIN list \subseteq Nat
         /\ \A i \in DOMAIN list : list[i] \in Devices
         /\ Listed(list) \subseteq Devices
         /\ \A d : Without(list, d) \in Lists
<1>1. PICK D \in SUBSET Nat : list \in [D -> Devices]
  BY DEF Lists
<1>2. \A d : Without(list, d) \in [{j \in D : list[j] # d} -> Devices]
  BY <1>1 DEF Without
<1> QED BY <1>1, <1>2 DEF Listed, Lists

LEMMA PlanTypes == Plans \subseteq Plan
<1> SUFFICES ASSUME NEW p \in Plans PROVE p \in Plan
  OBVIOUS
<1>1. /\ p \in [devices : {p.devices}, config : Configs]
      /\ p.devices \in [DOMAIN p.devices -> Devices]
      /\ DOMAIN p.devices \subseteq Nat
  BY PlansAssumption
<1>2. p.devices \in Lists
  BY <1>1 DEF Lists
<1> QED BY <1>1, <1>2 DEF Plan

\* What upserts do to a registry.
LEMMA EnsureTypes ==
  ASSUME NEW r, IsRegistry(r), NEW d \in Devices
  PROVE  DOMAIN Ensure(r, d) = DOMAIN r \cup {d} /\ IsRegistry(Ensure(r, d))
<1> DEFINE e == EntryOf(r, d)
<1>1. e \in Entry
  BY DEF IsRegistry, EntryOf, Blank, Entry
<1> HIDE DEF e
<1>2. DOMAIN Put(r, d, e) = DOMAIN r \cup {d} /\ IsRegistry(Put(r, d, e))
  BY <1>1 DEF IsRegistry, Put
<1> QED BY <1>2 DEF Ensure, e

LEMMA DesireTypes ==
  ASSUME NEW r, IsRegistry(r), NEW d \in Devices, NEW c \in Configs
  PROVE  /\ DOMAIN Desire(r, d, c) = DOMAIN r \cup {d} /\ IsRegistry(Desire(r, d, c))
         /\ \A x \in DOMAIN r \ {d} : Desire(r, d, c)[x] = r[x]
<1> DEFINE e == [EntryOf(r, d) EXCEPT !.desired = c]
<1>1. e \in Entry
  BY DEF IsRegistry, EntryOf, Blank, Entry
<1> HIDE DEF e
<1>2. /\ DOMAIN Put(r, d, e) = DOMAIN r \cup {d} /\ IsRegistry(Put(r, d, e))
      /\ \A x \in DOMAIN r \ {d} : Put(r, d, e)[x] = r[x]
  BY <1>1 DEF IsRegistry, Put
<1> QED BY <1>2 DEF Desire, e

-----------------------------------------------------------------------------
(* How a fire goes on. *)

\* q is how a fire r goes on when the devices of K are known.
GoesOn(r, q, K) ==
  /\ q \in FireRecord \cup OverRecord
  /\ q.at # Null => InProgress(q, K)
  /\ q.at = Null => r.owed = {} /\ q.off = Null

LEMMA NextTurnGoesOn ==
  ASSUME NEW r \in FireRecord, NEW reg, DOMAIN reg \subseteq Devices,
         OwedLater(r, DOMAIN reg)
  PROVE  /\ GoesOn(r, NextTurn(r, reg), DOMAIN reg)
         /\ NextTurn(r, reg).off = Null
<1> DEFINE turns == {i \in DOMAIN r.list : i >= r.next /\ r.list[i] \in DOMAIN reg}
           i == CHOOSE i \in turns : \A j \in turns : i <= j
           q == [r EXCEPT !.at = r.list[i], !.next = i + 1,
                          !.siblings = {}, !.off = Null, !.owed = @ \ {r.list[i]},
                          !.held = [d \in Devices |-> Null]]
<1>1. /\ r.list \in Lists /\ r.next \in Nat /\ DOMAIN r.list \subseteq Nat
      /\ r.owed \subseteq Devices /\ r.calm \in BOOLEAN
  BY ListFacts DEF FireRecord
<1>2. NextTurn(r, reg) = IF turns = {} THEN Over(r) ELSE q
  BY DEF NextTurn
<1>3. CASE turns = {}
  <2>1. r.owed = {}
    BY <1>3 DEF OwedLater
  <2>2. Over(r) \in OverRecord /\ Over(r).at = Null /\ Over(r).off = Null
    BY <1>1 DEF Over, OverRecord
  <2> QED BY <1>2, <1>3, <2>1, <2>2 DEF GoesOn
<1>4. CASE turns # {}
  <2>1. i \in turns /\ \A j \in turns : i <= j
    BY <1>1, <1>4, Smallest
  <2> HIDE DEF i
  <2>2. /\ i \in Nat /\ i \in DOMAIN r.list /\ i >= r.next
        /\ r.list[i] \in DOMAIN reg /\ r.list[i] \in Devices
    BY <1>1, <2>1
  <2>3. [d \in Devices |-> Null] \in [Devices -> Entry \cup {Null}]
    OBVIOUS
  <2> DEFINE a == r.list[i]
             none == [x \in Devices |-> Null]
  <2>4. q \in FireRecord
    <3>1. a \in Devices \cup {Null} /\ r.owed \ {a} \in SUBSET Devices /\ i + 1 \in Nat
      BY <1>1, <2>2
    <3>2. q = [r EXCEPT !.at = a, !.next = i + 1, !.siblings = {}, !.off = Null,
                        !.owed = r.owed \ {a}, !.held = none]
      BY DEF FireRecord
    <3> HIDE DEF a, none, q
    <3> QED BY <2>3, <3>1, <3>2 DEF FireRecord, none
  <2>5. /\ q.at = r.list[i] /\ q.next = i + 1 /\ q.siblings = {} /\ q.off = Null
        /\ q.owed = r.owed \ {r.list[i]} /\ q.list = r.list
    BY DEF FireRecord
  <2> HIDE DEF q
  <2>6. OwedLater(q, DOMAIN reg)
    <3> SUFFICES ASSUME NEW d \in r.owed, d # r.list[i]
                 PROVE  d \in DOMAIN reg /\ \E j \in DOMAIN r.list : j >= i + 1 /\ r.list[j] = d
      BY <2>5 DEF OwedLater
    <3>1. PICK j \in DOMAIN r.list : j >= r.next /\ r.list[j] = d
      BY DEF OwedLater
    <3>2. d \in DOMAIN reg
      BY DEF OwedLater
    <3>3. j \in turns /\ j # i
      BY <3>1, <3>2
    <3> QED BY <1>1, <2>1, <2>2, <3>1, <3>2, <3>3
  <2>7. InProgress(q, DOMAIN reg)
    BY <2>2, <2>4, <2>5, <2>6, NullAssumption DEF InProgress
  <2>8. q.at # Null
    BY <2>2, <2>5, NullAssumption
  <2> QED BY <1>2, <1>4, <2>4, <2>5, <2>7, <2>8 DEF GoesOn
<1> QED BY <1>3, <1>4

\* A device that NextOff turns off is one of the siblings that conflict.
LEMMA NextOffGoesOn ==
  ASSUME NEW r \in FireRecord, NEW reg, DOMAIN reg \subseteq Devices,
         r.at \in Devices, r.at \notin r.siblings, OwedLater(r, DOMAIN reg),
         NEW q \in NextOff(r, reg)
  PROVE  /\ GoesOn(r, q, DOMAIN reg)
         /\ q.off # Null => /\ q.off \in r.siblings
                            /\ Opposite(r.config, CurrentSide(Held(r, reg, q.off)))
<1> DEFINE conflicting == {d \in r.siblings : Opposite(r.config, CurrentSide(Held(r, reg, d)))}
<1>1. CASE q = NextTurn(r, reg)
  BY <1>1, NextTurnGoesOn
<1>2. CASE \E d \in conflicting, passed \in SUBSET (r.siblings \ conflicting) :
             q = [r EXCEPT !.siblings = @ \ (passed \cup {d}), !.off = d]
  <2>1. PICK d \in conflicting, passed \in SUBSET (r.siblings \ conflicting) :
               q = [r EXCEPT !.siblings = @ \ (passed \cup {d}), !.off = d]
    BY <1>2
  <2>2. d \in r.siblings /\ Opposite(r.config, CurrentSide(Held(r, reg, d)))
    OBVIOUS
  <2> HIDE DEF conflicting
  <2>3. r.siblings \subseteq Devices
    BY DEF FireRecord
  <2>4. q \in FireRecord
    BY <2>1, <2>2, <2>3 DEF FireRecord
  <2>5. /\ q.off = d /\ q.at = r.at /\ q.owed = r.owed /\ q.list = r.list
        /\ q.next = r.next /\ q.siblings = r.siblings \ (passed \cup {d})
    BY <2>1 DEF FireRecord
  <2>6. InProgress(q, DOMAIN reg)
    BY <2>4, <2>5 DEF InProgress, OwedLater
  <2>7. q.at # Null
    BY <2>5, NullAssumption
  <2>8. GoesOn(r, q, DOMAIN reg)
    BY <2>4, <2>6, <2>7 DEF GoesOn
  <2>9. q.off \in r.siblings /\ Opposite(r.config, CurrentSide(Held(r, reg, q.off)))
    BY <2>2, <2>5
  <2> QED BY <2>8, <2>9
<1>3. CASE conflicting = {}
  BY <1>1, <1>3 DEF NextOff
<1>4. CASE conflicting # {}
  <2>1. \E d \in conflicting : q \in {[r EXCEPT !.siblings = @ \ (passed \cup {d}), !.off = d] :
                                      passed \in SUBSET (r.siblings \ conflicting)}
    BY <1>4 DEF NextOff
  <2> HIDE DEF conflicting
  <2> QED BY <1>2, <2>1
<1> QED BY <1>3, <1>4

LEMMA ResolveGoesOn ==
  ASSUME NEW r \in FireRecord, NEW reg, DOMAIN reg \subseteq Devices,
         r.at \in Devices, OwedLater(r, DOMAIN reg), NEW q \in Resolve(r, reg)
  PROVE  /\ GoesOn(r, q, DOMAIN reg)
         /\ q.off # Null => /\ q.off \in DOMAIN reg \ {r.at}
                            /\ Opposite(r.config, CurrentSide(Held(r, reg, q.off)))
<1> DEFINE entry == Held(r, reg, r.at)
           siblings == {d \in DOMAIN reg \ {r.at} : SameGroup(reg[d], entry) /\ d \notin r.scope}
           s == [r EXCEPT !.siblings = siblings]
<1>1. CASE q = NextTurn(r, reg)
  BY <1>1, NextTurnGoesOn
<1>2. CASE q \in NextOff(s, reg)
  <2>1. siblings \subseteq DOMAIN reg \ {r.at}
    OBVIOUS
  <2> HIDE DEF siblings
  <2>2. /\ s \in FireRecord /\ s.at = r.at /\ s.siblings = siblings /\ s.owed = r.owed
        /\ s.list = r.list /\ s.next = r.next /\ s.config = r.config /\ s.held = r.held
    BY <2>1 DEF FireRecord
  <2> HIDE DEF s
  <2>3. OwedLater(s, DOMAIN reg)
    BY <2>2 DEF OwedLater
  <2>4. /\ GoesOn(s, q, DOMAIN reg)
        /\ q.off # Null => /\ q.off \in s.siblings
                           /\ Opposite(s.config, CurrentSide(Held(s, reg, q.off)))
    BY <1>2, <2>1, <2>2, <2>3, NextOffGoesOn
  <2> QED BY <2>1, <2>2, <2>4 DEF GoesOn, Held
<1> QED BY <1>1, <1>2 DEF Resolve

-----------------------------------------------------------------------------
(* What the end of a push does. *)

\* The fire f may go on as q, the registry becoming reg: a device it begins to
\* turn off conflicts according to the entry the fire has.
WellMoved(f, q, reg) ==
  /\ known \subseteq DOMAIN reg /\ IsRegistry(reg)
  /\ GoesOn(fire[f], q, DOMAIN reg)
  /\ q.off # Null =>
       \/ q.off = fire[f].off \/ fire[f].held[q.off] # Null \/ q.off \notin known
       \/ Opposite(fire[f].config, CurrentSide(registry[q.off]))

\* A flag the history keeps changes nothing else.
LEMMA CalmFacts ==
  ASSUME NEW r \in FireRecord
  PROVE  LET c == [r EXCEPT !.calm = FALSE]
         IN  /\ c \in FireRecord
             /\ c.at = r.at /\ c.off = r.off /\ c.siblings = r.siblings /\ c.owed = r.owed
             /\ c.list = r.list /\ c.next = r.next /\ c.config = r.config /\ c.held = r.held
BY DEF FireRecord

LEMMA LaterFacts ==
  ASSUME NEW r, NEW c, NEW K, NEW L, K \subseteq L, OwedLater(r, K),
         c.owed = r.owed, c.list = r.list, c.next = r.next
  PROVE  OwedLater(c, L)
BY DEF OwedLater

\* The record of a running fire.
LEMMA RunningFacts ==
  ASSUME Inv, NEW f, Running(f)
  PROVE  /\ f \in DOMAIN fire /\ f \in Fires
         /\ fire[f] \in FireRecord /\ InProgress(fire[f], known)
         /\ fire[f].at \in Devices /\ fire[f].off \in Devices \cup {Null}
         /\ fire[f].config \in Configs /\ fire[f].held \in [Devices -> Entry \cup {Null}]
BY DEF Inv, Running, Started, InProgress, FireRecord

LEMMA StepPushedMoves ==
  ASSUME Inv, NEW f, StepPushed(f)
  PROVE  \E q, reg : GoOn(f, q, reg) /\ WellMoved(f, q, reg)
<1> DEFINE r == fire[f]
           reg == Desire(registry, r.at, r.config)
<1>1. Running(f) /\ \E q \in Resolve(r, reg) : GoOn(f, q, reg)
  BY DEF StepPushed, Pushing
<1>2. PICK q \in Resolve(r, reg) : GoOn(f, q, reg)
  BY <1>1
<1>3. /\ r \in FireRecord /\ InProgress(r, known) /\ r.at \in Devices /\ r.config \in Configs
      /\ OwedLater(r, known)
  BY <1>1, RunningFacts DEF InProgress
<1>4. IsRegistry(registry)
  BY DEF Inv
<1> HIDE DEF r
<1>5. /\ DOMAIN reg = known \cup {r.at} /\ IsRegistry(reg)
      /\ \A x \in known \ {r.at} : reg[x] = registry[x]
  BY <1>3, <1>4, DesireTypes DEF known
<1> HIDE DEF reg
<1>6. DOMAIN reg \subseteq Devices /\ OwedLater(r, DOMAIN reg)
  BY <1>3, <1>5 DEF OwedLater, IsRegistry
<1>7. /\ GoesOn(r, q, DOMAIN reg)
      /\ q.off # Null => /\ q.off \in DOMAIN reg \ {r.at}
                         /\ Opposite(r.config, CurrentSide(Held(r, reg, q.off)))
  BY <1>3, <1>6, ResolveGoesOn
<1>8. q.off # Null /\ r.held[q.off] = Null /\ q.off \in known =>
        Opposite(r.config, CurrentSide(registry[q.off]))
  BY <1>5, <1>7 DEF Held
<1> QED BY <1>2, <1>5, <1>6, <1>7, <1>8 DEF WellMoved, r

LEMMA StepFailedMoves ==
  ASSUME Inv, NEW f, StepFailed(f)
  PROVE  \E q, reg : GoOn(f, q, reg) /\ WellMoved(f, q, reg)
<1> DEFINE r == fire[f]
           c == [r EXCEPT !.calm = FALSE]
           q == NextTurn(c, registry)
<1>1. Running(f) /\ GoOn(f, q, registry)
  BY DEF StepFailed, Pushing
<1>2. r \in FireRecord /\ OwedLater(r, known)
  BY <1>1, RunningFacts DEF InProgress
<1> HIDE DEF r
<1>3. /\ c \in FireRecord /\ c.owed = r.owed /\ c.list = r.list /\ c.next = r.next
  BY <1>2, CalmFacts
<1> HIDE DEF c
<1>4. OwedLater(c, known) /\ known \subseteq Devices /\ IsRegistry(registry)
  BY <1>2, <1>3 DEF OwedLater, Inv, IsRegistry, known
<1>5. GoesOn(c, q, known) /\ q.off = Null
  BY <1>3, <1>4, NextTurnGoesOn DEF known
<1>6. GoesOn(r, q, known)
  BY <1>3, <1>5 DEF GoesOn
<1> QED BY <1>1, <1>4, <1>5, <1>6 DEF WellMoved, known, r

LEMMA TurnedOffMoves ==
  ASSUME Inv, NEW f, TurnedOff(f)
  PROVE  \E q, reg : GoOn(f, q, reg) /\ WellMoved(f, q, reg)
<1> DEFINE r == fire[f]
           c == [r EXCEPT !.off = Null]
           reg == Desire(registry, r.off, "off")
<1>1. /\ Running(f) /\ r.off # Null
      /\ \E q \in NextOff(c, reg) : GoOn(f, q, reg)
  BY DEF TurnedOff, TurningOff
<1>2. PICK q \in NextOff(c, reg) : GoOn(f, q, reg)
  BY <1>1
<1>3. /\ r \in FireRecord /\ r.at \in Devices /\ OwedLater(r, known) /\ r.off \in Devices
      /\ r.at \notin r.siblings /\ r.off \notin r.siblings
  BY <1>1, RunningFacts DEF InProgress
<1>4. IsRegistry(registry)
  BY DEF Inv
<1> HIDE DEF r
<1>5. /\ DOMAIN reg = known \cup {r.off} /\ IsRegistry(reg)
      /\ \A x \in known \ {r.off} : reg[x] = registry[x]
  BY <1>3, <1>4, DesireTypes, ConfigsAssumption DEF known
<1> HIDE DEF reg
<1>6. /\ c \in FireRecord /\ c.owed = r.owed /\ c.list = r.list /\ c.next = r.next
      /\ c.at = r.at /\ c.siblings = r.siblings /\ c.config = r.config /\ c.held = r.held
  BY <1>3 DEF FireRecord
<1> HIDE DEF c
<1>7. OwedLater(c, DOMAIN reg) /\ DOMAIN reg \subseteq Devices
  BY <1>3, <1>5, <1>6 DEF OwedLater, IsRegistry
<1>8. /\ GoesOn(c, q, DOMAIN reg)
      /\ q.off # Null => /\ q.off \in c.siblings
                         /\ Opposite(c.config, CurrentSide(Held(c, reg, q.off)))
  BY <1>2, <1>3, <1>6, <1>7, NextOffGoesOn
<1>9. GoesOn(r, q, DOMAIN reg)
  BY <1>6, <1>8 DEF GoesOn
<1>10. q.off # Null /\ r.held[q.off] = Null /\ q.off \in known =>
         Opposite(r.config, CurrentSide(registry[q.off]))
  BY <1>3, <1>5, <1>6, <1>8 DEF Held
<1> QED BY <1>2, <1>5, <1>9, <1>10 DEF WellMoved, r

LEMMA TurnOffFailedMoves ==
  ASSUME Inv, NEW f, TurnOffFailed(f)
  PROVE  \E q, reg : GoOn(f, q, reg) /\ WellMoved(f, q, reg)
<1> DEFINE r == fire[f]
           b == [r EXCEPT !.calm = FALSE]
           c == [b EXCEPT !.off = Null]
<1>1. /\ Running(f) /\ r.off # Null
      /\ \E q \in NextOff(c, registry) : GoOn(f, q, registry)
  BY DEF TurnOffFailed, TurningOff
<1>2. PICK q \in NextOff(c, registry) : GoOn(f, q, registry)
  BY <1>1
<1>3. /\ r \in FireRecord /\ r.at \in Devices /\ OwedLater(r, known)
      /\ r.at \notin r.siblings
  BY <1>1, RunningFacts DEF InProgress
<1>4. IsRegistry(registry)
  BY DEF Inv
<1> HIDE DEF r
<1>5. /\ b \in FireRecord /\ b.owed = r.owed /\ b.list = r.list /\ b.next = r.next
      /\ b.at = r.at /\ b.siblings = r.siblings /\ b.config = r.config /\ b.held = r.held
  BY <1>3, CalmFacts
<1> HIDE DEF b
<1>6. /\ c \in FireRecord /\ c.owed = r.owed /\ c.list = r.list /\ c.next = r.next
      /\ c.at = r.at /\ c.siblings = r.siblings /\ c.config = r.config /\ c.held = r.held
  BY <1>5 DEF FireRecord
<1> HIDE DEF c
<1>7. OwedLater(c, DOMAIN registry) /\ DOMAIN registry \subseteq Devices
  BY <1>3, <1>4, <1>6 DEF OwedLater, IsRegistry, known
<1>8. /\ GoesOn(c, q, DOMAIN registry)
      /\ q.off # Null => /\ q.off \in c.siblings
                         /\ Opposite(c.config, CurrentSide(Held(c, registry, q.off)))
  BY <1>2, <1>3, <1>6, <1>7, NextOffGoesOn
<1>9. GoesOn(r, q, DOMAIN registry)
  BY <1>6, <1>8 DEF GoesOn
<1>10. q.off # Null /\ r.held[q.off] = Null =>
         Opposite(r.config, CurrentSide(registry[q.off]))
  BY <1>6, <1>8 DEF Held
<1> QED BY <1>2, <1>4, <1>9, <1>10 DEF WellMoved, r, known

LEMMA PushMoves ==
  ASSUME Inv, NEW f, PushEnds(f)
  PROVE  Running(f) /\ \E q, reg : GoOn(f, q, reg) /\ WellMoved(f, q, reg)
<1>1. Running(f)
  BY DEF PushEnds, StepPushed, StepFailed, TurnedOff, TurnOffFailed, Pushing, TurningOff
<1> QED BY <1>1, StepPushedMoves, StepFailedMoves, TurnedOffMoves, TurnOffFailedMoves
        DEF PushEnds

-----------------------------------------------------------------------------
(* Steps. *)

\* What the steps of the action properties below may do.
Claims ==
  /\ \A f \in Fires : Ends(f) => fire[f].owed = {}
  /\ \A f \in Fires, x \in known :
       TurnsOffKnown(f, x) => ThermalSide(unit[x]) # ThermalSide(fire[f].config)

\* The fires in progress stay where they are.
Steady ==
  \A f \in Fires : Running(f) => /\ f \in DOMAIN fire' /\ fire'[f].at = fire[f].at
                                /\ fire'[f].off = fire[f].off

LEMMA SteadyClaims == Steady => Claims
BY DEF Steady, Claims, Ends, TurnsOffKnown, Running, Started

LEMMA MoreKnown ==
  ASSUME NEW K, NEW L, K \subseteq L, NEW r, InProgress(r, K)
  PROVE  InProgress(r, L)
BY DEF InProgress, OwedLater

LEMMA CalmInProgress ==
  ASSUME NEW K, NEW r, InProgress(r, K)
  PROVE  InProgress([r EXCEPT !.calm = FALSE], K)
<1> DEFINE c == [r EXCEPT !.calm = FALSE]
<1>1. r \in FireRecord
  BY DEF InProgress
<1>2. /\ c \in FireRecord /\ c.at = r.at /\ c.off = r.off /\ c.siblings = r.siblings
      /\ c.owed = r.owed /\ c.list = r.list /\ c.next = r.next
  BY <1>1, CalmFacts
<1> HIDE DEF c
<1>3. InProgress(c, K)
  BY <1>2 DEF InProgress, OwedLater
<1> QED BY <1>3 DEF c

\* One fire goes on as r, or none; the devices of K are known from now on.
LEMMA DisturbedKeeps ==
  ASSUME Inv, NEW f, NEW r, NEW K, known \subseteq K, fire' = Disturbed(f, r),
         f \in DOMAIN fire => /\ r \in FireRecord \cup OverRecord
                              /\ r.at # Null => InProgress(r, K)
  PROVE  /\ DOMAIN fire' = DOMAIN fire
         /\ fire' \in [DOMAIN fire' -> FireRecord \cup OverRecord]
         /\ \A g \in DOMAIN fire' : fire'[g].at # Null => InProgress(fire'[g], K)
         /\ \A g \in DOMAIN fire \ {f} : /\ fire'[g].at = fire[g].at
                                       /\ fire'[g].off = fire[g].off
         /\ f \in DOMAIN fire => fire'[f] = r
<1>1. DOMAIN fire' = DOMAIN fire /\ fire' = [g \in DOMAIN fire |-> fire'[g]]
  BY DEF Disturbed
<1>2. f \in DOMAIN fire => fire'[f] = r
  BY DEF Disturbed
<1>3. ASSUME NEW g \in DOMAIN fire, g # f
      PROVE  /\ fire'[g] \in FireRecord \cup OverRecord
             /\ fire'[g].at # Null => InProgress(fire'[g], K)
             /\ fire'[g].at = fire[g].at /\ fire'[g].off = fire[g].off
  <2>1. CASE Running(g)
    <3> DEFINE b == fire[g]
               c == [b EXCEPT !.calm = FALSE]
    <3>1. fire'[g] = c
      BY <1>3, <2>1 DEF Disturbed
    <3>2. b \in FireRecord /\ InProgress(b, known)
      BY <2>1, RunningFacts
    <3>3. InProgress(c, K)
      BY <3>2, CalmInProgress, MoreKnown
    <3> HIDE DEF b
    <3>4. c \in FireRecord /\ c.at = b.at /\ c.off = b.off
      BY <3>2, CalmFacts
    <3> HIDE DEF c
    <3> QED BY <3>1, <3>3, <3>4 DEF b
  <2>2. CASE ~Running(g)
    <3>1. fire'[g] = fire[g]
      BY <1>3, <2>2 DEF Disturbed
    <3>2. fire[g].at = Null /\ fire[g] \in FireRecord \cup OverRecord
      BY <2>2 DEF Running, Started, Inv
    <3> QED BY <3>1, <3>2
  <2> QED BY <2>1, <2>2
<1>4. \A g \in DOMAIN fire : /\ fire'[g] \in FireRecord \cup OverRecord
                             /\ fire'[g].at # Null => InProgress(fire'[g], K)
  BY <1>2, <1>3
<1> QED BY <1>1, <1>2, <1>3, <1>4

LEMMA PushKeeps ==
  ASSUME Inv, NEW f, PushEnds(f)
  PROVE  Inv' /\ Claims
<1>1. PICK q, reg : Running(f) /\ GoOn(f, q, reg) /\ WellMoved(f, q, reg)
  BY PushMoves
<1>2. /\ f \in DOMAIN fire /\ f \in Fires /\ fire[f] \in FireRecord
      /\ fire[f].at \in Devices /\ fire[f].off \in Devices \cup {Null}
      /\ fire[f].config \in Configs
  BY <1>1, RunningFacts
<1>3. /\ known \subseteq DOMAIN reg /\ IsRegistry(reg)
      /\ q \in FireRecord \cup OverRecord
      /\ q.at # Null => InProgress(q, DOMAIN reg)
      /\ q.at = Null => fire[f].owed = {} /\ q.off = Null
  BY <1>1 DEF WellMoved, GoesOn
<1>4. DOMAIN reg \subseteq known' /\ IsRegistry(registry')
  <2>1. CASE q.off = Null
    BY <1>1, <1>3, <2>1 DEF GoOn, known
  <2>2. CASE q.off # Null
    <3>1. q.off \in Devices
      BY <1>3, <2>2 DEF FireRecord, OverRecord
    <3>2. registry' = Ensure(reg, q.off)
      BY <1>1, <2>2 DEF GoOn
    <3>3. DOMAIN Ensure(reg, q.off) = DOMAIN reg \cup {q.off} /\ IsRegistry(Ensure(reg, q.off))
      BY <1>3, <3>1, EnsureTypes
    <3> QED BY <3>2, <3>3 DEF known
  <2> QED BY <2>1, <2>2
<1>5. /\ DOMAIN fire' = DOMAIN fire
      /\ fire' \in [DOMAIN fire' -> FireRecord \cup OverRecord]
      /\ \A g \in DOMAIN fire' : fire'[g].at # Null => InProgress(fire'[g], known')
      /\ \A g \in DOMAIN fire \ {f} : /\ fire'[g].at = fire[g].at
                                    /\ fire'[g].off = fire[g].off
      /\ fire'[f] = q
  <2>1. q.at # Null => InProgress(q, known')
    BY <1>3, <1>4, MoreKnown
  <2>2. fire' = Disturbed(f, q) /\ known \subseteq known'
    BY <1>1, <1>3, <1>4 DEF GoOn
  <2> QED BY <1>2, <1>3, <2>1, <2>2, DisturbedKeeps
<1>6. /\ unit' \in [Devices -> Configs] /\ store' = store /\ events' = events
  <2>1. unit \in [Devices -> Configs] /\ "off" \in Configs
    BY ConfigsAssumption DEF Inv
  <2> QED BY <1>2, <2>1 DEF PushEnds, StepPushed, StepFailed, TurnedOff, TurnOffFailed
<1>7. Inv'
  BY <1>2, <1>4, <1>5, <1>6 DEF Inv
<1>8. ASSUME NEW g \in Fires, Ends(g)
      PROVE  fire[g].owed = {}
  BY <1>3, <1>5, <1>8 DEF Ends, Running, Started
<1>9. ASSUME NEW g \in Fires, NEW x \in known, TurnsOffKnown(g, x)
      PROVE  ThermalSide(unit[x]) # ThermalSide(fire[g].config)
  <2>1. x # Null
    BY NullAssumption DEF Inv, IsRegistry, known
  <2>2. g = f /\ q.off = x
    BY <1>5, <1>9 DEF TurnsOffKnown, Running, Started
  <2>3. Opposite(fire[g].config, CurrentSide(registry[x]))
    BY <1>1, <1>9, <2>1, <2>2 DEF WellMoved, TurnsOffKnown
  <2> QED BY <1>9, <2>3 DEF TurnsOffKnown, Opposite, CurrentSide
<1> QED BY <1>7, <1>8, <1>9 DEF Claims

\* A fire that is about to have its first turn.
LEMMA NewFire ==
  ASSUME Inv, NEW s \in Schedules, NEW plan \in Plan
  PROVE  /\ Fire(s, plan) \in FireRecord /\ OwedLater(Fire(s, plan), known)
         /\ Fire(s, plan).owed = Listed(plan.devices) \cap known
         /\ Fire(s, plan).scope = Listed(plan.devices)
         /\ Fire(s, plan).list = plan.devices
         /\ Fire(s, plan).calm = (\A d \in known : registry[d].reported = unit[d])
<1> DEFINE r == Fire(s, plan)
           scope == Listed(plan.devices)
           owed == Listed(plan.devices) \cap known
           calm == \A d \in known : registry[d].reported = unit[d]
           none == [d \in Devices |-> Null]
<1>1. plan.devices \in Lists /\ plan.config \in Configs
  BY DEF Plan
<1>2. scope \subseteq Devices /\ DOMAIN plan.devices \subseteq Nat
  BY <1>1, ListFacts
<1>3. r = [schedule |-> s, config |-> plan.config, scope |-> scope,
           attached |-> TRUE, list |-> plan.devices, next |-> 0, at |-> Null,
           siblings |-> {}, off |-> Null, held |-> none, owed |-> owed, calm |-> calm]
  BY DEF Fire
<1>4. /\ scope \in SUBSET Devices /\ owed \in SUBSET Devices /\ calm \in BOOLEAN
      /\ none \in [Devices -> Entry \cup {Null}]
  BY <1>2
<1>5. owed \subseteq known /\ owed \subseteq scope
  OBVIOUS
<1>6. r.owed = owed /\ r.scope = scope /\ r.list = plan.devices /\ r.next = 0 /\ r.calm = calm
  BY <1>3
<1> HIDE DEF owed, calm, none, r
<1>7. r \in FireRecord
  BY <1>1, <1>3, <1>4 DEF FireRecord
<1>8. OwedLater(r, known)
  BY <1>2, <1>5, <1>6 DEF OwedLater, Listed
<1> QED BY <1>6, <1>7, <1>8 DEF owed, calm, r

LEMMA StartKeeps ==
  ASSUME Inv, NEW f \in Fires, NEW s \in Schedules, StartFire(f, s)
  PROVE  Inv' /\ Claims
<1> DEFINE plan == store[s]
           r == Fire(s, plan)
           q == NextTurn(r, registry)
<1>1. /\ f \notin DOMAIN fire /\ plan # Null /\ fire' = Put(fire, f, q)
      /\ registry' = registry /\ unit' = unit /\ store' = store /\ events' = events
  BY DEF StartFire, Started
<1>2. plan \in Plan
  BY <1>1 DEF Inv
<1> HIDE DEF plan
<1>3. r \in FireRecord /\ OwedLater(r, known)
  BY <1>2, NewFire
<1> HIDE DEF r
<1>4. GoesOn(r, q, known)
  <2>1. DOMAIN registry \subseteq Devices
    BY DEF Inv, IsRegistry
  <2> QED BY <1>3, <2>1, NextTurnGoesOn DEF known
<1>5. q \in FireRecord \cup OverRecord /\ (q.at # Null => InProgress(q, known))
  BY <1>4 DEF GoesOn
<1> HIDE DEF q
<1>6. /\ DOMAIN fire' = DOMAIN fire \cup {f} /\ fire'[f] = q
      /\ fire' = [g \in DOMAIN fire' |-> fire'[g]]
      /\ \A g \in DOMAIN fire : fire'[g] = fire[g]
  BY <1>1 DEF Put
<1>7. /\ fire' \in [DOMAIN fire' -> FireRecord \cup OverRecord]
      /\ DOMAIN fire' \subseteq Fires
      /\ \A g \in DOMAIN fire' : fire'[g].at # Null => InProgress(fire'[g], known)
  BY <1>5, <1>6 DEF Inv
<1>8. Inv'
  BY <1>1, <1>7 DEF Inv, known
<1>9. Steady
  BY <1>6 DEF Steady, Running, Started
<1> QED BY <1>8, <1>9, SteadyClaims

\* A step that disturbs every fire and forgets no device.
LEMMA DisturbanceKeeps ==
  ASSUME Inv, fire' = AllDisturbed, IsRegistry(registry'), known \subseteq known',
         unit' \in [Devices -> Configs], store' = store, events' \in 0..MaxEvents
  PROVE  Inv' /\ Claims
<1>1. Null \notin DOMAIN fire
  BY NullAssumption DEF Inv
<1>2. /\ DOMAIN fire' = DOMAIN fire
      /\ fire' \in [DOMAIN fire' -> FireRecord \cup OverRecord]
      /\ \A g \in DOMAIN fire' : fire'[g].at # Null => InProgress(fire'[g], known')
      /\ \A g \in DOMAIN fire : fire'[g].at = fire[g].at /\ fire'[g].off = fire[g].off
  BY <1>1, DisturbedKeeps DEF AllDisturbed
<1>3. Inv'
  BY <1>2 DEF Inv
<1>4. Steady
  BY <1>2 DEF Steady, Running, Started
<1> QED BY <1>3, <1>4, SteadyClaims

LEMMA EventCount ==
  ASSUME Inv, Event
  PROVE  events' \in 0..MaxEvents
BY BoundAssumption DEF Inv, Event

LEMMA RemoteKeeps ==
  ASSUME Inv, NEW d \in Devices, NEW c \in Configs, RemotePressed(d, c)
  PROVE  Inv' /\ Claims
<1>1. /\ fire' = AllDisturbed /\ registry' = registry /\ store' = store
      /\ unit' \in [Devices -> Configs] /\ events' \in 0..MaxEvents
  BY EventCount DEF RemotePressed, Inv
<1>2. IsRegistry(registry') /\ known \subseteq known'
  BY <1>1 DEF Inv, known
<1> QED BY <1>1, <1>2, DisturbanceKeeps

LEMMA UserPushKeeps ==
  ASSUME Inv, NEW d \in Devices, NEW c \in Configs, UserPushed(d, c)
  PROVE  Inv' /\ Claims
<1>1. /\ fire' = AllDisturbed /\ registry' = Desire(registry, d, c) /\ store' = store
      /\ unit' \in [Devices -> Configs] /\ events' \in 0..MaxEvents
  BY EventCount DEF UserPushed, Inv
<1>2. IsRegistry(registry)
  BY DEF Inv
<1>3. IsRegistry(registry') /\ DOMAIN registry' = DOMAIN registry \cup {d}
  BY <1>1, <1>2, DesireTypes
<1>4. known \subseteq known'
  BY <1>3 DEF known
<1> QED BY <1>1, <1>3, <1>4, DisturbanceKeeps

LEMMA RegisteredKeeps ==
  ASSUME Inv, NEW d \in Devices, Registered(d)
  PROVE  Inv' /\ Claims
<1>1. /\ fire' = AllDisturbed /\ registry' = Ensure(registry, d) /\ store' = store
      /\ unit' \in [Devices -> Configs] /\ events' \in 0..MaxEvents
  BY EventCount DEF Registered, Inv
<1>2. IsRegistry(registry)
  BY DEF Inv
<1>3. IsRegistry(registry') /\ DOMAIN registry' = DOMAIN registry \cup {d}
  BY <1>1, <1>2, EnsureTypes
<1>4. known \subseteq known'
  BY <1>3 DEF known
<1> QED BY <1>1, <1>3, <1>4, DisturbanceKeeps

LEMMA GroupKeeps ==
  ASSUME Inv, NEW d \in Devices, NEW g \in Groups \cup {Null}, OutdoorUnitSet(d, g)
  PROVE  Inv' /\ Claims
<1>1. /\ fire' = AllDisturbed /\ registry' = [registry EXCEPT ![d].group = g]
      /\ store' = store /\ d \in known
      /\ unit' \in [Devices -> Configs] /\ events' \in 0..MaxEvents
  BY EventCount DEF OutdoorUnitSet, Inv
<1>2. IsRegistry(registry)
  BY DEF Inv
<1>3. IsRegistry(registry') /\ DOMAIN registry' = DOMAIN registry
  BY <1>1, <1>2 DEF IsRegistry, Entry, known
<1>4. known \subseteq known'
  BY <1>3 DEF known
<1> QED BY <1>1, <1>3, <1>4, DisturbanceKeeps

LEMMA ReportedKeeps ==
  ASSUME Inv, NEW d \in Devices, Reported(d)
  PROVE  Inv' /\ Claims
<1>1. /\ registry' = [registry EXCEPT ![d].reported = unit[d]] /\ d \in known
      /\ fire' = fire /\ unit' = unit /\ store' = store /\ events' = events
  BY DEF Reported
<1>2. IsRegistry(registry) /\ unit[d] \in Configs
  BY DEF Inv
<1>3. IsRegistry(registry') /\ DOMAIN registry' = DOMAIN registry
  BY <1>1, <1>2 DEF IsRegistry, Entry, known
<1>4. Inv'
  BY <1>1, <1>3 DEF Inv, known
<1>5. Steady
  BY <1>1 DEF Steady, Running, Started
<1> QED BY <1>4, <1>5, SteadyClaims

LEMMA DeletedKeeps ==
  ASSUME Inv, NEW d \in Devices, DeviceDeleted(d)
  PROVE  Inv' /\ Claims
<1> DEFINE Has(r) == d = r.at \/ d \in r.siblings \/ d = r.off
           Less(r) == [r EXCEPT !.calm = FALSE, !.owed = @ \ {d},
                         !.scope = IF r.attached THEN @ \ {d} ELSE @,
                         !.held[d] = IF Has(r) /\ @ = Null THEN registry[d] ELSE @]
<1>1. /\ registry' = [x \in known \ {d} |-> registry[x]] /\ d \in known
      /\ unit' = unit /\ events' \in 0..MaxEvents
  BY EventCount DEF DeviceDeleted
<1>2. fire' = [f \in DOMAIN fire |-> IF ~Running(f) THEN fire[f] ELSE Less(fire[f])]
  BY DEF DeviceDeleted
<1>3. store' = [s \in Schedules |->
                  IF store[s] = Null THEN Null
                  ELSE [store[s] EXCEPT !.devices = Without(@, d)]]
  BY DEF DeviceDeleted
<1>4. IsRegistry(registry') /\ known' = known \ {d} /\ registry[d] \in Entry
  BY <1>1 DEF Inv, IsRegistry, known
<1>5. store' \in [Schedules -> Plan \cup {Null}]
  <2>1. ASSUME NEW p \in Plan
        PROVE  [p EXCEPT !.devices = Without(@, d)] \in Plan
    <3>1. Without(p.devices, d) \in Lists
      BY ListFacts DEF Plan
    <3> QED BY <3>1 DEF Plan
  <2>2. \A s \in Schedules : store[s] \in Plan \cup {Null}
    BY DEF Inv
  <2>3. ASSUME NEW s \in Schedules
        PROVE  (IF store[s] = Null THEN Null
                ELSE [store[s] EXCEPT !.devices = Without(@, d)]) \in Plan \cup {Null}
    BY <2>1, <2>2
  <2> QED BY <1>3, <2>3
<1>6. ASSUME NEW f \in DOMAIN fire, Running(f)
      PROVE  /\ fire'[f] \in FireRecord /\ fire'[f].at = fire[f].at
             /\ fire'[f].off = fire[f].off /\ InProgress(fire'[f], known')
  <2> DEFINE r == fire[f]
             owed == r.owed \ {d}
             scope == IF r.attached THEN r.scope \ {d} ELSE r.scope
             held == [r.held EXCEPT ![d] = IF Has(r) /\ @ = Null THEN registry[d] ELSE @]
             c == [r EXCEPT !.calm = FALSE, !.owed = owed, !.scope = scope, !.held = held]
  <2>1. fire'[f] = c
    <3>1. fire'[f] = Less(r)
      BY <1>2, <1>6
    <3> QED BY <3>1
  <2>2. r \in FireRecord /\ InProgress(r, known)
    BY <1>6, RunningFacts
  <2>3. owed = r.owed \ {d}
    OBVIOUS
  <2>4. owed \in SUBSET Devices /\ scope \in SUBSET Devices
    BY <2>2 DEF FireRecord
  <2>5. held \in [Devices -> Entry \cup {Null}]
    <3>1. r.held \in [Devices -> Entry \cup {Null}]
      BY <2>2 DEF FireRecord
    <3> DEFINE e == IF Has(r) /\ r.held[d] = Null THEN registry[d] ELSE r.held[d]
    <3>2. e \in Entry \cup {Null}
      BY <1>4, <3>1
    <3>3. held = [r.held EXCEPT ![d] = e]
      OBVIOUS
    <3> HIDE DEF e, held, Has
    <3> QED BY <3>1, <3>2, <3>3
  <2> HIDE DEF r, owed, scope, held
  <2>6. /\ c \in FireRecord /\ c.at = r.at /\ c.off = r.off /\ c.siblings = r.siblings
        /\ c.owed = owed /\ c.list = r.list /\ c.next = r.next
    BY <2>2, <2>4, <2>5 DEF FireRecord
  <2> HIDE DEF c
  <2>7. InProgress(c, known')
    BY <1>4, <2>2, <2>3, <2>6 DEF InProgress, OwedLater
  <2> QED BY <2>1, <2>6, <2>7 DEF r
<1>7. ASSUME NEW f \in DOMAIN fire, ~Running(f)
      PROVE  fire'[f] = fire[f] /\ fire[f].at = Null
  BY <1>2, <1>7 DEF Running, Started
<1>8. DOMAIN fire' = DOMAIN fire /\ fire' = [f \in DOMAIN fire' |-> fire'[f]]
  <2> HIDE DEF Less
  <2> QED BY <1>2
<1> HIDE DEF Less, Has
<1>9. /\ fire' \in [DOMAIN fire' -> FireRecord \cup OverRecord]
      /\ DOMAIN fire' \subseteq Fires
      /\ \A f \in DOMAIN fire' : fire'[f].at # Null => InProgress(fire'[f], known')
  BY <1>6, <1>7, <1>8 DEF Inv
<1>10. Inv'
  BY <1>1, <1>4, <1>5, <1>9 DEF Inv
<1>11. Steady
  BY <1>6, <1>8 DEF Steady, Running, Started
<1> QED BY <1>10, <1>11, SteadyClaims

LEMMA ScheduleKeeps ==
  ASSUME Inv, NEW s \in Schedules, NEW plan \in Plans \cup {Null}, ScheduleChanged(s, plan)
  PROVE  Inv' /\ Claims
<1>1. /\ registry' = registry /\ unit' = unit /\ events' \in 0..MaxEvents
      /\ store' = [store EXCEPT ![s] = plan]
  BY EventCount DEF ScheduleChanged
<1>2. fire' = [f \in DOMAIN fire |->
                 IF Running(f) /\ fire[f].schedule = s
                 THEN [fire[f] EXCEPT !.attached = FALSE] ELSE fire[f]]
  BY DEF ScheduleChanged
<1>3. store' \in [Schedules -> Plan \cup {Null}]
  BY <1>1, PlanTypes DEF Inv
<1>4. ASSUME NEW f \in DOMAIN fire, fire[f] \in FireRecord, InProgress(fire[f], known)
      PROVE  /\ [fire[f] EXCEPT !.attached = FALSE] \in FireRecord
             /\ [fire[f] EXCEPT !.attached = FALSE].at = fire[f].at
             /\ [fire[f] EXCEPT !.attached = FALSE].off = fire[f].off
             /\ InProgress([fire[f] EXCEPT !.attached = FALSE], known)
  <2> DEFINE r == fire[f]
             c == [r EXCEPT !.attached = FALSE]
  <2> HIDE DEF r
  <2>1. r \in FireRecord /\ InProgress(r, known)
    BY <1>4 DEF r
  <2>2. /\ c \in FireRecord /\ c.at = r.at /\ c.off = r.off /\ c.siblings = r.siblings
        /\ c.owed = r.owed /\ c.list = r.list /\ c.next = r.next
    BY <2>1 DEF FireRecord
  <2> HIDE DEF c
  <2>3. InProgress(c, known)
    BY <2>1, <2>2 DEF InProgress, OwedLater
  <2> QED BY <2>2, <2>3 DEF c, r
<1>5. ASSUME NEW f \in DOMAIN fire
      PROVE  /\ fire'[f] \in FireRecord \cup OverRecord
             /\ fire'[f].at = fire[f].at /\ fire'[f].off = fire[f].off
             /\ fire'[f].at # Null => InProgress(fire'[f], known)
  <2>1. CASE Running(f) /\ fire[f].schedule = s
    <3>1. fire'[f] = [fire[f] EXCEPT !.attached = FALSE]
      BY <1>2, <2>1
    <3>2. fire[f] \in FireRecord /\ InProgress(fire[f], known)
      BY <2>1, RunningFacts
    <3> QED BY <1>4, <3>1, <3>2
  <2>2. CASE ~(Running(f) /\ fire[f].schedule = s)
    BY <1>2, <2>2 DEF Inv
  <2> QED BY <2>1, <2>2
<1>6. DOMAIN fire' = DOMAIN fire /\ fire' = [f \in DOMAIN fire' |-> fire'[f]]
  BY <1>2
<1>7. /\ fire' \in [DOMAIN fire' -> FireRecord \cup OverRecord]
      /\ DOMAIN fire' \subseteq Fires
      /\ \A f \in DOMAIN fire' : fire'[f].at # Null => InProgress(fire'[f], known)
  BY <1>5, <1>6 DEF Inv
<1>8. Inv'
  BY <1>1, <1>3, <1>7 DEF Inv, known
<1>9. Steady
  BY <1>5, <1>6 DEF Steady, Running, Started
<1> QED BY <1>8, <1>9, SteadyClaims

-----------------------------------------------------------------------------
(* Theorems. *)

LEMMA InvInit == Init => Inv
<1> SUFFICES ASSUME Init PROVE Inv
  OBVIOUS
<1>1. PICK D \in SUBSET Devices : registry \in [D -> Entries]
  BY DEF Init
<1>2. Entries \subseteq Entry
  BY EntriesAssumption DEF Entry
<1>3. IsRegistry(registry)
  BY <1>1, <1>2 DEF IsRegistry
<1>4. unit \in [Devices -> Configs]
  <2>1. \A d \in known : registry[d].reported \in Configs
    BY <1>1, EntriesAssumption DEF known
  <2>2. "off" \in Configs
    BY ConfigsAssumption
  <2> QED BY <2>1, <2>2 DEF Init
<1>5. store \in [Schedules -> Plan \cup {Null}]
  BY PlanTypes DEF Init
<1>6. events \in 0..MaxEvents /\ DOMAIN fire = {} /\ fire = [f \in {} |-> Null]
  BY BoundAssumption DEF Init
<1> QED BY <1>3, <1>4, <1>5, <1>6 DEF Inv

LEMMA InvNext == Inv /\ [Next]_vars => Inv' /\ Claims
<1> SUFFICES ASSUME Inv, [Next]_vars PROVE Inv' /\ Claims
  OBVIOUS
<1>1. CASE UNCHANGED vars
  <2>1. Inv'
    BY <1>1 DEF Inv, vars, known
  <2>2. Steady
    BY <1>1 DEF Steady, Running, Started, vars
  <2> QED BY <2>1, <2>2, SteadyClaims
<1>2. CASE FireStep
  BY <1>2, StartKeeps, PushKeeps DEF FireStep
<1>3. CASE DeviceStep
  BY <1>3, ReportedKeeps, DeletedKeeps, RegisteredKeeps, RemoteKeeps, UserPushKeeps, GroupKeeps
     DEF DeviceStep
<1>4. CASE ScheduleStep
  BY <1>4, ScheduleKeeps DEF ScheduleStep
<1> QED BY <1>1, <1>2, <1>3, <1>4 DEF Next

\* The types hold throughout: in particular the siblings a fire has left never
\* contain the device whose turn it is nor the one being turned off.
THEOREM FiringTypes == Spec => []TypeOK
<1>1. Inv => TypeOK
  BY InvImpliesTypeOK
<1> QED BY InvInit, InvNext, <1>1, PTL DEF Spec

\* A device listed when a fire starts, and known from then on, has had its turn
\* when the fire ends: fireStep goes through the list it read, and what fails or
\* is edited or deleted meanwhile ends no turn but its own.
THEOREM NoTurnIsLost == Spec => EveryDeviceHasItsTurn
<1>1. Claims => \A f \in Fires : Ends(f) => fire[f].owed = {}
  BY DEF Claims
<1>2. Inv /\ [Next]_vars => [\A f \in Fires : Ends(f) => fire[f].owed = {}]_vars
  BY InvNext, <1>1
<1> QED BY InvInit, InvNext, <1>2, PTL DEF Spec, EveryDeviceHasItsTurn

\* resolveStepConflicts turns off a device that runs the side of the step only
\* when what the bridge knows of it is not what it runs.
THEOREM TurnsOffOnStaleViewOnly == Spec => OffOnlyOnStaleView
<1>1. Claims => \A f \in Fires, x \in known :
                  TurnsOffKnown(f, x) => ThermalSide(unit[x]) # ThermalSide(fire[f].config)
  BY DEF Claims
<1>2. Inv /\ [Next]_vars =>
        [\A f \in Fires, x \in known :
           TurnsOffKnown(f, x) => ThermalSide(unit[x]) # ThermalSide(fire[f].config)]_vars
  BY InvNext, <1>1
<1> QED BY InvInit, InvNext, <1>2, PTL DEF Spec, OffOnlyOnStaleView

-----------------------------------------------------------------------------
(* Fires that nothing disturbs. S is the scope of a fire, c its config, reg the *)
(* registry and u what the units run.                                           *)

\* The bridge knows what the devices that are not of S run, those that were
\* turned off apart.
TrueReports(S, reg, u) ==
  \A x \in DOMAIN reg \ S : reg[x].reported = u[x] \/ u[x] = "off"

\* The device d has its config, and no other device of its outdoor unit runs
\* the opposite side, but perhaps those of `rest`.
Settled(c, S, reg, u, d, rest) ==
  /\ u[d] = c
  /\ \A x \in DOMAIN reg \ (S \cup rest) :
       reg[x].group = reg[d].group => ~Opposite(u[x], ThermalSide(c))

SettledAll(c, S, reg, u, D) == \A d \in D : Settled(c, S, reg, u, d, {})

\* The devices that have had their turn, that of r.at apart, are settled.
Undisturbed(r, reg, u) ==
  /\ r.scope = Listed(r.list)
  /\ \A d \in Devices : r.held[d] = Null
  /\ r.at \in r.scope \cap DOMAIN reg
  /\ r.siblings \subseteq DOMAIN reg \ r.scope
  /\ TrueReports(r.scope, reg, u)
  /\ SettledAll(r.config, r.scope, reg, u, (r.scope \cap DOMAIN reg) \ (r.owed \cup {r.at}))

\* A device that is pushed its config has its siblings to come; while one of
\* them is turned off, the rest of them are.
Promising(r, reg, u) ==
  /\ Undisturbed(r, reg, u)
  /\ r.off \in (DOMAIN reg \ r.scope) \cup {Null}
  /\ r.off # Null => Settled(r.config, r.scope, reg, u, r.at, r.siblings \cup {r.off})

\* The fire r, with the devices of its scope settled that are owed no turn.
Ready(r, reg, u) ==
  /\ r.scope = Listed(r.list)
  /\ TrueReports(r.scope, reg, u)
  /\ SettledAll(r.config, r.scope, reg, u, (r.scope \cap DOMAIN reg) \ r.owed)

\* q is how r goes on, or ends with all that its schedule promises.
KeepsPromise(r, q, reg, u) ==
  /\ q.calm = r.calm
  /\ q.off \in DOMAIN reg \cup {Null}
  /\ q.at # Null => Promising(q, reg, u)
  /\ q.at = Null => SettledAll(r.config, r.scope, reg, u, r.scope \cap DOMAIN reg)

AllPromising ==
  \A f \in DOMAIN fire :
    fire[f].at # Null /\ fire[f].calm => Promising(fire[f], registry, unit)

\* A sibling that the bridge does not take for opposite is not.
LEMMA NoConflict ==
  ASSUME NEW c, NEW e, NEW run, e.reported = run \/ run = "off",
         ~Opposite(c, CurrentSide(e))
  PROVE  ~Opposite(run, ThermalSide(c))
<1>1. ThermalSide("off") = Null
  BY DEF ThermalSide
<1>2. CASE ThermalSide(run) = Null
  BY <1>2 DEF Opposite
<1>3. CASE ThermalSide(run) # Null
  <2>1. CurrentSide(e) = ThermalSide(run)
    BY <1>1, <1>3 DEF CurrentSide
  <2> QED BY <2>1, <1>3 DEF Opposite
<1> QED BY <1>2, <1>3

LEMMA OffIsNotOpposite == ASSUME NEW side PROVE ~Opposite("off", side)
BY DEF Opposite, ThermalSide

\* A fire that has its next turn has settled whom it owes none.
LEMMA NextTurnKeepsPromise ==
  ASSUME NEW r \in FireRecord, NEW reg, DOMAIN reg \subseteq Devices,
         OwedLater(r, DOMAIN reg), NEW u, Ready(r, reg, u)
  PROVE  KeepsPromise(r, NextTurn(r, reg), reg, u)
<1> DEFINE turns == {i \in DOMAIN r.list : i >= r.next /\ r.list[i] \in DOMAIN reg}
           i == CHOOSE i \in turns : \A j \in turns : i <= j
           a == r.list[i]
           none == [d \in Devices |-> Null]
           q == [r EXCEPT !.at = a, !.next = i + 1,
                          !.siblings = {}, !.off = Null, !.owed = @ \ {a},
                          !.held = none]
<1>1. /\ r.list \in Lists /\ r.next \in Nat /\ DOMAIN r.list \subseteq Nat
      /\ r.owed \subseteq Devices /\ r.calm \in BOOLEAN
  BY ListFacts DEF FireRecord
<1>2. NextTurn(r, reg) = IF turns = {} THEN Over(r) ELSE q
  BY DEF NextTurn
<1>3. CASE turns = {}
  <2>1. r.owed = {}
    BY <1>3 DEF OwedLater
  <2>2. Over(r).calm = r.calm /\ Over(r).at = Null /\ Over(r).off = Null
    BY DEF Over
  <2>3. SettledAll(r.config, r.scope, reg, u, r.scope \cap DOMAIN reg)
    <3>1. (r.scope \cap DOMAIN reg) \ r.owed = r.scope \cap DOMAIN reg
      BY <2>1
    <3> QED BY <3>1 DEF Ready
  <2>4. KeepsPromise(r, Over(r), reg, u)
    BY <2>2, <2>3 DEF KeepsPromise
  <2> QED BY <1>2, <1>3, <2>4
<1>4. CASE turns # {}
  <2>1. i \in turns
    BY <1>1, <1>4, Smallest
  <2>2. a \in DOMAIN reg /\ a \in Listed(r.list) /\ a # Null
    BY <2>1, NullAssumption DEF Listed
  <2>3. \A d \in Devices : none[d] = Null
    OBVIOUS
  <2> HIDE DEF a, i, none, turns
  <2>4. /\ q.at = a /\ q.siblings = {} /\ q.off = Null /\ q.calm = r.calm
        /\ q.owed = r.owed \ {a} /\ q.list = r.list /\ q.scope = r.scope
        /\ q.config = r.config /\ q.held = none
    BY DEF FireRecord
  <2> HIDE DEF q
  <2>5. (r.scope \cap DOMAIN reg) \ (q.owed \cup {q.at}) = (r.scope \cap DOMAIN reg) \ (r.owed \cup {a})
    BY <2>4
  <2>6. SettledAll(r.config, r.scope, reg, u, (r.scope \cap DOMAIN reg) \ (r.owed \cup {a}))
    BY DEF Ready, SettledAll
  <2>7. Undisturbed(q, reg, u)
    BY <2>2, <2>3, <2>4, <2>5, <2>6 DEF Ready, Undisturbed
  <2>8. KeepsPromise(r, q, reg, u)
    BY <2>2, <2>4, <2>7 DEF KeepsPromise, Promising
  <2> QED BY <1>2, <1>4, <2>8
<1> QED BY <1>3, <1>4

\* A fire that has pushed a device its config, and has only r.siblings left to
\* look at, goes on to one of them or has its next turn.
LEMMA NextOffKeepsPromise ==
  ASSUME NEW r \in FireRecord, NEW reg, IsRegistry(reg), OwedLater(r, DOMAIN reg),
         NEW u, Undisturbed(r, reg, u),
         Settled(r.config, r.scope, reg, u, r.at, r.siblings),
         NEW q \in NextOff(r, reg)
  PROVE  KeepsPromise(r, q, reg, u)
<1> DEFINE conflicting == {d \in r.siblings : Opposite(r.config, CurrentSide(Held(r, reg, d)))}
<1>1. DOMAIN reg \subseteq Devices
  BY DEF IsRegistry
<1>2. \A x \in r.siblings : x \in DOMAIN reg /\ x \notin r.scope /\ Held(r, reg, x) = reg[x]
  BY <1>1 DEF Undisturbed, Held
<1>3. ASSUME NEW x \in r.siblings \ conflicting
      PROVE  ~Opposite(u[x], ThermalSide(r.config))
  <2>1. ~Opposite(r.config, CurrentSide(reg[x]))
    BY <1>2, <1>3
  <2>2. reg[x].reported = u[x] \/ u[x] = "off"
    BY <1>2, <1>3 DEF Undisturbed, TrueReports
  <2> QED BY <2>1, <2>2, NoConflict
<1>4. CASE conflicting = {}
  <2>1. Settled(r.config, r.scope, reg, u, r.at, {})
    BY <1>3, <1>4 DEF Settled
  <2>2. SettledAll(r.config, r.scope, reg, u, (r.scope \cap DOMAIN reg) \ r.owed)
    BY <2>1 DEF Undisturbed, SettledAll
  <2>3. Ready(r, reg, u)
    BY <2>2 DEF Undisturbed, Ready
  <2>4. q = NextTurn(r, reg)
    BY <1>4 DEF NextOff
  <2> QED BY <1>1, <2>3, <2>4, NextTurnKeepsPromise
<1>5. CASE conflicting # {}
  <2>1. \E d \in conflicting : q \in {[r EXCEPT !.siblings = @ \ (passed \cup {d}), !.off = d] :
                                      passed \in SUBSET (r.siblings \ conflicting)}
    BY <1>5 DEF NextOff
  <2>2. conflicting \subseteq r.siblings
    OBVIOUS
  <2> HIDE DEF conflicting
  <2>3. PICK d \in conflicting, passed \in SUBSET (r.siblings \ conflicting) :
               q = [r EXCEPT !.siblings = @ \ (passed \cup {d}), !.off = d]
    BY <2>1
  <2>4. /\ q.at = r.at /\ q.siblings = r.siblings \ (passed \cup {d}) /\ q.off = d
        /\ q.calm = r.calm /\ q.owed = r.owed /\ q.list = r.list /\ q.scope = r.scope
        /\ q.config = r.config /\ q.held = r.held
    BY <2>3 DEF FireRecord
  <2>5. d \in DOMAIN reg \ r.scope /\ d # Null
    BY <1>1, <1>2, <2>2, NullAssumption
  <2>6. Settled(r.config, r.scope, reg, u, r.at, q.siblings \cup {d})
    <3>1. u[r.at] = r.config
      BY DEF Settled
    <3>2. ASSUME NEW x \in DOMAIN reg \ (r.scope \cup (q.siblings \cup {d})),
                 reg[x].group = reg[r.at].group
          PROVE  ~Opposite(u[x], ThermalSide(r.config))
      <4>1. CASE x \notin r.siblings
        BY <3>2, <4>1 DEF Settled
      <4>2. CASE x \in r.siblings
        <5>1. x \in passed
          BY <2>4, <3>2, <4>2
        <5> QED BY <1>3, <5>1
      <4> QED BY <4>1, <4>2
    <3> QED BY <3>1, <3>2 DEF Settled
  <2>7. Undisturbed(q, reg, u)
    <3>1. q.siblings \subseteq DOMAIN reg \ r.scope
      BY <2>4 DEF Undisturbed
    <3> QED BY <2>4, <3>1 DEF Undisturbed
  <2>8. q.at # Null
    BY <1>1, <2>4, NullAssumption DEF Undisturbed
  <2> QED BY <2>4, <2>5, <2>6, <2>7, <2>8 DEF KeepsPromise, Promising
<1> QED BY <1>4, <1>5

\* resolveStepConflicts looks at every device that may conflict.
LEMMA ResolveKeepsPromise ==
  ASSUME NEW r \in FireRecord, NEW reg, IsRegistry(reg), OwedLater(r, DOMAIN reg),
         NEW u, Undisturbed(r, reg, u), u[r.at] = r.config, NEW q \in Resolve(r, reg)
  PROVE  KeepsPromise(r, q, reg, u)
<1> DEFINE entry == Held(r, reg, r.at)
           siblings == {d \in DOMAIN reg \ {r.at} : SameGroup(reg[d], entry) /\ d \notin r.scope}
           s == [r EXCEPT !.siblings = siblings]
<1>1. DOMAIN reg \subseteq Devices /\ r.at \in r.scope \cap DOMAIN reg
  BY DEF IsRegistry, Undisturbed
<1>2. CASE ThermalSide(r.config) = Null
  <2>1. Settled(r.config, r.scope, reg, u, r.at, {})
    BY <1>2 DEF Settled, Opposite
  <2>2. SettledAll(r.config, r.scope, reg, u, (r.scope \cap DOMAIN reg) \ r.owed)
    BY <2>1 DEF Undisturbed, SettledAll
  <2>3. Ready(r, reg, u)
    BY <2>2 DEF Undisturbed, Ready
  <2>4. q = NextTurn(r, reg)
    BY <1>2 DEF Resolve
  <2> QED BY <1>1, <2>3, <2>4, NextTurnKeepsPromise
<1>3. CASE ThermalSide(r.config) # Null
  <2>1. q \in NextOff(s, reg)
    BY <1>3 DEF Resolve
  <2>2. entry = reg[r.at]
    BY <1>1 DEF Undisturbed, Held
  <2>3. siblings \subseteq DOMAIN reg \ r.scope /\ siblings \subseteq Devices
    BY <1>1
  <2>4. \A x \in DOMAIN reg \ (r.scope \cup siblings) : reg[x].group # reg[r.at].group
    BY <1>1, <2>2 DEF SameGroup
  <2> HIDE DEF siblings, entry
  <2>5. /\ s \in FireRecord /\ s.at = r.at /\ s.siblings = siblings /\ s.calm = r.calm
        /\ s.owed = r.owed /\ s.list = r.list /\ s.scope = r.scope
        /\ s.config = r.config /\ s.held = r.held /\ s.next = r.next
    BY <2>3 DEF FireRecord
  <2> HIDE DEF s
  <2>6. Settled(s.config, s.scope, reg, u, s.at, s.siblings)
    BY <2>4, <2>5 DEF Settled
  <2>7. Undisturbed(s, reg, u)
    BY <2>3, <2>5 DEF Undisturbed
  <2>8. OwedLater(s, DOMAIN reg)
    BY <2>5 DEF OwedLater
  <2>9. KeepsPromise(s, q, reg, u)
    BY <2>1, <2>5, <2>6, <2>7, <2>8, NextOffKeepsPromise
  <2> QED BY <2>5, <2>9 DEF KeepsPromise
<1> QED BY <1>2, <1>3

\* Whether a fire is calm does not change as it goes on.
LEMMA TurnIsAsCalm ==
  ASSUME NEW r \in FireRecord, NEW reg
  PROVE  NextTurn(r, reg).calm = r.calm /\ \A q \in NextOff(r, reg) : q.calm = r.calm
<1>1. NextTurn(r, reg).calm = r.calm
  BY DEF NextTurn, Over, FireRecord
<1>2. ASSUME NEW q \in NextOff(r, reg) PROVE q.calm = r.calm
  <2> DEFINE conflicting == {d \in r.siblings : Opposite(r.config, CurrentSide(Held(r, reg, d)))}
  <2>1. CASE conflicting = {}
    BY <1>1, <2>1 DEF NextOff
  <2>2. CASE conflicting # {}
    <3>1. \E d \in conflicting : q \in {[r EXCEPT !.siblings = @ \ (passed \cup {d}), !.off = d] :
                                        passed \in SUBSET (r.siblings \ conflicting)}
      BY <1>2, <2>2 DEF NextOff
    <3> HIDE DEF conflicting
    <3>2. PICK d \in conflicting, passed \in SUBSET (r.siblings \ conflicting) :
                 q = [r EXCEPT !.siblings = @ \ (passed \cup {d}), !.off = d]
      BY <3>1
    <3> DEFINE left == r.siblings \ (passed \cup {d})
    <3>3. q = [r EXCEPT !.siblings = left, !.off = d]
      BY <3>2
    <3> HIDE DEF left
    <3> QED BY <3>3 DEF FireRecord
  <2> QED BY <2>1, <2>2
<1> QED BY <1>1, <1>2

LEMMA ResolveIsAsCalm ==
  ASSUME NEW r \in FireRecord, NEW reg, DOMAIN reg \subseteq Devices, NEW q \in Resolve(r, reg)
  PROVE  q.calm = r.calm
<1> DEFINE entry == Held(r, reg, r.at)
           siblings == {d \in DOMAIN reg \ {r.at} : SameGroup(reg[d], entry) /\ d \notin r.scope}
           s == [r EXCEPT !.siblings = siblings]
<1>1. q = NextTurn(r, reg) \/ q \in NextOff(s, reg)
  BY DEF Resolve
<1>2. siblings \subseteq Devices
  OBVIOUS
<1> HIDE DEF siblings
<1>3. s \in FireRecord /\ s.calm = r.calm
  BY <1>2 DEF FireRecord
<1> QED BY <1>1, <1>3, TurnIsAsCalm

-----------------------------------------------------------------------------
(* The end of a push of a fire that nothing disturbs. *)

\* The fire f goes on as q, the registry becoming reg, and keeps its promise.
Fulfils(f, q, reg) ==
  /\ IsRegistry(reg) /\ DOMAIN reg = known
  /\ \A x \in known : reg[x].group = registry[x].group
  /\ KeepsPromise(fire[f], q, reg, unit')

\* A push to a device that is known changes what is wanted of it, and no group.
LEMMA DesireKnown ==
  ASSUME NEW r, NEW d \in DOMAIN r, NEW c, IsRegistry(r)
  PROVE  /\ DOMAIN Desire(r, d, c) = DOMAIN r
         /\ \A x \in DOMAIN r : /\ Desire(r, d, c)[x].group = r[x].group
                                /\ Desire(r, d, c)[x].reported = r[x].reported
<1> DEFINE e == [r[d] EXCEPT !.desired = c]
<1>1. r[d] \in Entry
  BY DEF IsRegistry
<1>2. e.group = r[d].group /\ e.reported = r[d].reported
  BY <1>1 DEF Entry
<1>3. EntryOf(r, d) = r[d]
  BY DEF EntryOf
<1> HIDE DEF e
<1>4. DOMAIN Put(r, d, e) = DOMAIN r /\ Put(r, d, e)[d] = e
      /\ \A x \in DOMAIN r \ {d} : Put(r, d, e)[x] = r[x]
  BY DEF Put
<1>5. Desire(r, d, c) = Put(r, d, e)
  BY <1>3 DEF Desire, e
<1> QED BY <1>2, <1>4, <1>5

\* What is settled stays settled while the groups and the units' configs stay,
\* or units are turned off that are not listed.
LEMMA SettledStill ==
  ASSUME NEW c, NEW S, NEW reg, NEW u, NEW d \in DOMAIN reg, NEW rest, NEW less,
         Settled(c, S, reg, u, d, rest),
         NEW reg2, DOMAIN reg2 = DOMAIN reg,
         \A x \in DOMAIN reg : reg2[x].group = reg[x].group,
         NEW u2, u2[d] = u[d],
         \A x \in DOMAIN reg \ S : u2[x] = u[x] \/ u2[x] = "off",
         \A x \in rest \ less : u2[x] = "off"
  PROVE  Settled(c, S, reg2, u2, d, less)
<1>1. ASSUME NEW x \in DOMAIN reg \ (S \cup less), reg[x].group = reg[d].group
      PROVE  ~Opposite(u2[x], ThermalSide(c))
  <2>1. CASE u2[x] = "off"
    BY <2>1, OffIsNotOpposite
  <2>2. CASE u2[x] # "off"
    BY <1>1, <2>2 DEF Settled
  <2> QED BY <2>1, <2>2
<1> QED BY <1>1 DEF Settled

LEMMA StepPushedFulfils ==
  ASSUME Inv, AllPromising, NEW f, StepPushed(f)
  PROVE  \E q, reg : GoOn(f, q, reg) /\ (q.calm => Fulfils(f, q, reg))
<1> DEFINE r == fire[f]
           reg == Desire(registry, r.at, r.config)
<1>1. /\ Running(f) /\ r.off = Null /\ unit' = [unit EXCEPT ![r.at] = r.config]
      /\ \E q \in Resolve(r, reg) : GoOn(f, q, reg)
  BY DEF StepPushed, Pushing
<1>2. PICK q \in Resolve(r, reg) : GoOn(f, q, reg)
  BY <1>1
<1>3. /\ f \in DOMAIN fire /\ r \in FireRecord /\ r.at \in Devices /\ r.config \in Configs
      /\ OwedLater(r, known)
  BY <1>1, RunningFacts DEF InProgress
<1>4. IsRegistry(registry) /\ unit \in [Devices -> Configs]
  BY DEF Inv
<1>5. r.at # Null /\ r.calm \in BOOLEAN
  BY <1>3, NullAssumption DEF FireRecord
<1>6. r.calm => Promising(r, registry, unit)
  BY <1>3, <1>5 DEF AllPromising
<1> HIDE DEF r
<1>7. DOMAIN reg = known \cup {r.at} /\ IsRegistry(reg)
  BY <1>3, <1>4, DesireTypes DEF known
<1>8. DOMAIN reg \subseteq Devices
  BY <1>7 DEF IsRegistry
<1>9. q.calm = r.calm
  BY <1>3, <1>8, ResolveIsAsCalm
<1>10. ASSUME r.calm PROVE Fulfils(f, q, reg)
  <2>1. Undisturbed(r, registry, unit)
    BY <1>6, <1>10 DEF Promising
  <2>2. r.at \in r.scope /\ r.at \in known
    BY <2>1 DEF Undisturbed, known
  <2>3. /\ DOMAIN reg = known
        /\ \A x \in known : /\ reg[x].group = registry[x].group
                            /\ reg[x].reported = registry[x].reported
    BY <1>4, <2>2, DesireKnown DEF known
  <2> HIDE DEF reg
  <2>4. unit'[r.at] = r.config /\ \A x \in Devices \ {r.at} : unit'[x] = unit[x]
    BY <1>1, <1>3, <1>4
  <2>5. TrueReports(r.scope, reg, unit')
    BY <1>8, <2>1, <2>2, <2>3, <2>4 DEF Undisturbed, TrueReports, known
  <2>6. ASSUME NEW d \in (r.scope \cap known) \ (r.owed \cup {r.at})
        PROVE  Settled(r.config, r.scope, reg, unit', d, {})
    <3>1. Settled(r.config, r.scope, registry, unit, d, {})
      BY <2>1 DEF Undisturbed, SettledAll, known
    <3>2. unit'[d] = unit[d] /\ \A x \in known \ r.scope : unit'[x] = unit[x]
      BY <1>8, <2>2, <2>3, <2>4
    <3> QED BY <3>1, <3>2, <2>3, SettledStill DEF known
  <2>7. SettledAll(r.config, r.scope, reg, unit', (r.scope \cap DOMAIN reg) \ (r.owed \cup {r.at}))
    BY <2>3, <2>6 DEF SettledAll
  <2>8. Undisturbed(r, reg, unit')
    BY <2>1, <2>3, <2>5, <2>7 DEF Undisturbed, known
  <2>9. KeepsPromise(r, q, reg, unit')
    BY <1>3, <1>7, <2>3, <2>4, <2>8, ResolveKeepsPromise
  <2> QED BY <1>7, <2>3, <2>9 DEF Fulfils, r
<1> QED BY <1>2, <1>9, <1>10

LEMMA StepFailedFulfils ==
  ASSUME Inv, NEW f, StepFailed(f)
  PROVE  \E q, reg : GoOn(f, q, reg) /\ (q.calm => Fulfils(f, q, reg))
<1> DEFINE r == fire[f]
           c == [r EXCEPT !.calm = FALSE]
           q == NextTurn(c, registry)
<1>1. Running(f) /\ GoOn(f, q, registry)
  BY DEF StepFailed, Pushing
<1>2. c \in FireRecord /\ ~c.calm
  BY <1>1, RunningFacts DEF FireRecord
<1> HIDE DEF c
<1>3. ~q.calm
  BY <1>2, TurnIsAsCalm
<1> QED BY <1>1, <1>3

LEMMA TurnOffFailedFulfils ==
  ASSUME Inv, NEW f, TurnOffFailed(f)
  PROVE  \E q, reg : GoOn(f, q, reg) /\ (q.calm => Fulfils(f, q, reg))
<1> DEFINE r == fire[f]
           b == [r EXCEPT !.calm = FALSE]
           c == [b EXCEPT !.off = Null]
<1>1. Running(f) /\ \E q \in NextOff(c, registry) : GoOn(f, q, registry)
  BY DEF TurnOffFailed, TurningOff
<1>2. PICK q \in NextOff(c, registry) : GoOn(f, q, registry)
  BY <1>1
<1>3. b \in FireRecord /\ ~b.calm
  BY <1>1, RunningFacts DEF FireRecord
<1> HIDE DEF b
<1>4. c \in FireRecord /\ ~c.calm
  BY <1>3 DEF FireRecord
<1> HIDE DEF c
<1>5. ~q.calm
  BY <1>4, TurnIsAsCalm
<1> QED BY <1>2, <1>5

LEMMA TurnedOffFulfils ==
  ASSUME Inv, AllPromising, NEW f, TurnedOff(f)
  PROVE  \E q, reg : GoOn(f, q, reg) /\ (q.calm => Fulfils(f, q, reg))
<1> DEFINE r == fire[f]
           c == [r EXCEPT !.off = Null]
           reg == Desire(registry, r.off, "off")
<1>1. /\ Running(f) /\ r.off # Null /\ unit' = [unit EXCEPT ![r.off] = "off"]
      /\ \E q \in NextOff(c, reg) : GoOn(f, q, reg)
  BY DEF TurnedOff, TurningOff
<1>2. PICK q \in NextOff(c, reg) : GoOn(f, q, reg)
  BY <1>1
<1>3. /\ f \in DOMAIN fire /\ r \in FireRecord /\ r.at \in Devices /\ r.off \in Devices
      /\ OwedLater(r, known)
  BY <1>1, RunningFacts DEF InProgress
<1>4. IsRegistry(registry) /\ unit \in [Devices -> Configs]
  BY DEF Inv
<1>5. r.at # Null /\ r.calm \in BOOLEAN
  BY <1>3, NullAssumption DEF FireRecord
<1>6. r.calm => Promising(r, registry, unit)
  BY <1>3, <1>5 DEF AllPromising
<1> HIDE DEF r
<1>7. DOMAIN reg = known \cup {r.off} /\ IsRegistry(reg)
  BY <1>3, <1>4, ConfigsAssumption, DesireTypes DEF known
<1>8. DOMAIN reg \subseteq Devices
  BY <1>7 DEF IsRegistry
<1>9. /\ c \in FireRecord /\ c.at = r.at /\ c.siblings = r.siblings /\ c.calm = r.calm
      /\ c.owed = r.owed /\ c.list = r.list /\ c.scope = r.scope
      /\ c.config = r.config /\ c.held = r.held /\ c.next = r.next
  BY <1>3 DEF FireRecord
<1> HIDE DEF c
<1>10. q.calm = r.calm
  BY <1>9, TurnIsAsCalm
<1>11. ASSUME r.calm PROVE Fulfils(f, q, reg)
  <2>1. /\ Undisturbed(r, registry, unit) /\ r.off \in known \ r.scope
        /\ Settled(r.config, r.scope, registry, unit, r.at, r.siblings \cup {r.off})
    BY <1>1, <1>6, <1>11 DEF Promising, known
  <2>2. r.at \in r.scope /\ r.at \in known
    BY <2>1 DEF Undisturbed, known
  <2>3. /\ DOMAIN reg = known
        /\ \A x \in known : /\ reg[x].group = registry[x].group
                            /\ reg[x].reported = registry[x].reported
    BY <1>4, <2>1, DesireKnown DEF known
  <2> HIDE DEF reg
  <2>4. unit'[r.off] = "off" /\ \A x \in Devices \ {r.off} : unit'[x] = unit[x]
    BY <1>1, <1>3, <1>4
  <2>5. \A x \in known \ r.scope : unit'[x] = unit[x] \/ unit'[x] = "off"
    BY <1>8, <2>3, <2>4
  <2>6. TrueReports(r.scope, reg, unit')
    BY <2>1, <2>3, <2>5 DEF Undisturbed, TrueReports, known
  <2>7. ASSUME NEW d \in (r.scope \cap known) \ (r.owed \cup {r.at})
        PROVE  Settled(r.config, r.scope, reg, unit', d, {})
    <3>1. Settled(r.config, r.scope, registry, unit, d, {})
      BY <2>1 DEF Undisturbed, SettledAll, known
    <3>2. unit'[d] = unit[d]
      BY <1>8, <2>1, <2>3, <2>4
    <3> QED BY <3>1, <3>2, <2>3, <2>5, SettledStill DEF known
  <2>8. SettledAll(r.config, r.scope, reg, unit', (r.scope \cap DOMAIN reg) \ (r.owed \cup {r.at}))
    BY <2>3, <2>7 DEF SettledAll
  <2>9. Undisturbed(c, reg, unit')
    BY <1>9, <2>1, <2>3, <2>6, <2>8 DEF Undisturbed, known
  <2>10. Settled(r.config, r.scope, reg, unit', r.at, r.siblings)
    <3>1. unit'[r.at] = unit[r.at]
      BY <1>3, <2>1, <2>2, <2>4
    <3>2. \A x \in (r.siblings \cup {r.off}) \ r.siblings : unit'[x] = "off"
      BY <2>4
    <3> QED BY <3>1, <3>2, <2>1, <2>2, <2>3, <2>5, SettledStill DEF known
  <2>11. OwedLater(c, DOMAIN reg)
    BY <1>3, <1>9, <2>3 DEF OwedLater
  <2>12. Settled(c.config, c.scope, reg, unit', c.at, c.siblings)
    BY <1>9, <2>10
  <2>13. KeepsPromise(c, q, reg, unit')
    BY <1>2, <1>7, <1>9, <2>9, <2>11, <2>12, NextOffKeepsPromise
  <2>14. KeepsPromise(r, q, reg, unit')
    BY <1>9, <2>13 DEF KeepsPromise
  <2> QED BY <1>7, <2>3, <2>14 DEF Fulfils, r
<1> QED BY <1>2, <1>10, <1>11

LEMMA PushFulfils ==
  ASSUME Inv, AllPromising, NEW f, PushEnds(f)
  PROVE  Running(f) /\ \E q, reg : GoOn(f, q, reg) /\ (q.calm => Fulfils(f, q, reg))
<1>1. Running(f)
  BY PushMoves
<1> QED BY <1>1, StepPushedFulfils, StepFailedFulfils, TurnedOffFulfils, TurnOffFailedFulfils
        DEF PushEnds

-----------------------------------------------------------------------------
(* Every step. *)

\* What SchedulesWin says of a step.
Wins ==
  \A f \in Fires : Ends(f) /\ fire'[f].calm =>
    SettledAll(fire[f].config, fire[f].scope, registry, unit', fire[f].scope \cap known)

LEMMA SteadyWins == Steady => Wins
BY DEF Steady, Wins, Ends, Running, Started

\* A fire that another one disturbs is not calm.
LEMMA DisturbedAreNotCalm ==
  ASSUME Inv, NEW f, NEW r, fire' = Disturbed(f, r)
  PROVE  /\ DOMAIN fire' = DOMAIN fire
         /\ f \in DOMAIN fire => fire'[f] = r
         /\ \A g \in DOMAIN fire \ {f} : /\ fire'[g].at = fire[g].at
                                         /\ fire'[g].at # Null => ~fire'[g].calm
<1>1. ASSUME NEW g \in DOMAIN fire \ {f}
      PROVE  fire'[g].at = fire[g].at /\ (fire'[g].at # Null => ~fire'[g].calm)
  <2>1. CASE Running(g)
    <3>1. fire'[g] = [fire[g] EXCEPT !.calm = FALSE]
      BY <2>1 DEF Disturbed
    <3>2. fire[g] \in FireRecord
      BY <2>1, RunningFacts
    <3> QED BY <3>1, <3>2 DEF FireRecord
  <2>2. CASE ~Running(g)
    BY <2>2 DEF Disturbed, Running, Started
  <2> QED BY <2>1, <2>2
<1>2. DOMAIN fire' = DOMAIN fire /\ (f \in DOMAIN fire => fire'[f] = r)
  BY DEF Disturbed
<1> QED BY <1>1, <1>2

LEMMA EnsureKnown ==
  ASSUME NEW r, IsRegistry(r), NEW d \in DOMAIN r
  PROVE  Ensure(r, d) = r
<1>1. r = [x \in DOMAIN r |-> r[x]]
  BY DEF IsRegistry
<1>2. Ensure(r, d) = [x \in DOMAIN r |-> r[x]]
  BY DEF Ensure, Put, EntryOf
<1> QED BY <1>1, <1>2

LEMMA PushPromises ==
  ASSUME Inv, AllPromising, NEW f, PushEnds(f)
  PROVE  AllPromising' /\ Wins
<1>1. PICK q, reg : GoOn(f, q, reg) /\ (q.calm => Fulfils(f, q, reg))
  BY PushFulfils
<1>2. /\ Running(f) /\ f \in DOMAIN fire /\ fire[f] \in FireRecord
  BY PushFulfils, RunningFacts
<1>3. /\ DOMAIN fire' = DOMAIN fire /\ fire'[f] = q
      /\ \A g \in DOMAIN fire \ {f} : /\ fire'[g].at = fire[g].at
                                      /\ fire'[g].at # Null => ~fire'[g].calm
  BY <1>1, <1>2, DisturbedAreNotCalm DEF GoOn
<1>4. ASSUME q.calm
      PROVE  /\ registry' = reg
             /\ q.at # Null => Promising(q, reg, unit')
             /\ q.at = Null => SettledAll(fire[f].config, fire[f].scope, reg, unit',
                                          fire[f].scope \cap known)
             /\ DOMAIN reg = known /\ \A x \in known : reg[x].group = registry[x].group
  <2>1. /\ IsRegistry(reg) /\ DOMAIN reg = known
        /\ \A x \in known : reg[x].group = registry[x].group
        /\ KeepsPromise(fire[f], q, reg, unit')
    BY <1>1, <1>4 DEF Fulfils
  <2>2. /\ q.off \in DOMAIN reg \cup {Null}
        /\ q.at # Null => Promising(q, reg, unit')
        /\ q.at = Null => SettledAll(fire[f].config, fire[f].scope, reg, unit',
                                     fire[f].scope \cap DOMAIN reg)
    BY <2>1 DEF KeepsPromise
  <2>3. registry' = reg
    BY <1>1, <2>1, <2>2, EnsureKnown DEF GoOn
  <2> QED BY <2>1, <2>2, <2>3
<1>5. AllPromising'
  <2> SUFFICES ASSUME NEW g \in DOMAIN fire', fire'[g].at # Null, fire'[g].calm
               PROVE  Promising(fire'[g], registry', unit')
    BY DEF AllPromising
  <2>1. g = f /\ fire'[g] = q
    BY <1>3
  <2> QED BY <1>4, <2>1
<1>6. Wins
  <2> SUFFICES ASSUME NEW g \in Fires, Ends(g), fire'[g].calm
               PROVE  SettledAll(fire[g].config, fire[g].scope, registry, unit',
                                 fire[g].scope \cap known)
    BY DEF Wins
  <2>1. g = f /\ q.at = Null /\ q.calm
    BY <1>3 DEF Ends, Running, Started
  <2>2. SettledAll(fire[f].config, fire[f].scope, reg, unit', fire[f].scope \cap known)
    BY <1>4, <2>1
  <2>3. SettledAll(fire[f].config, fire[f].scope, registry, unit', fire[f].scope \cap known)
    BY <1>4, <2>1, <2>2 DEF SettledAll, Settled, known
  <2> QED BY <2>1, <2>3
<1> QED BY <1>5, <1>6

LEMMA StartPromises ==
  ASSUME Inv, AllPromising, NEW f \in Fires, NEW s \in Schedules, StartFire(f, s)
  PROVE  AllPromising' /\ Wins
<1> DEFINE plan == store[s]
           r == Fire(s, plan)
           q == NextTurn(r, registry)
<1>1. /\ f \notin DOMAIN fire /\ plan # Null /\ fire' = Put(fire, f, q)
      /\ registry' = registry /\ unit' = unit
  BY DEF StartFire, Started
<1>2. plan \in Plan /\ DOMAIN registry \subseteq Devices
  BY <1>1 DEF Inv, IsRegistry
<1> HIDE DEF plan
<1>3. /\ r \in FireRecord /\ OwedLater(r, known)
      /\ r.owed = r.scope \cap known /\ r.scope = Listed(r.list)
      /\ r.calm = (\A d \in known : registry[d].reported = unit[d])
  BY <1>2, NewFire
<1> HIDE DEF r
<1>4. ASSUME r.calm PROVE Ready(r, registry, unit)
  <2>1. TrueReports(r.scope, registry, unit)
    BY <1>3, <1>4 DEF TrueReports, known
  <2>2. (r.scope \cap DOMAIN registry) \ r.owed = {}
    BY <1>3 DEF known
  <2> QED BY <1>3, <2>1, <2>2 DEF Ready, SettledAll
<1>5. q.calm = r.calm
  BY <1>3, TurnIsAsCalm
<1>6. q.calm => KeepsPromise(r, q, registry, unit)
  BY <1>2, <1>3, <1>4, <1>5, NextTurnKeepsPromise DEF known
<1>7. q.calm /\ q.at # Null => Promising(q, registry, unit)
  BY <1>6 DEF KeepsPromise
<1> HIDE DEF q
<1>8. /\ DOMAIN fire' = DOMAIN fire \cup {f} /\ fire'[f] = q
      /\ \A g \in DOMAIN fire : fire'[g] = fire[g]
  BY <1>1 DEF Put
<1>9. AllPromising'
  BY <1>1, <1>7, <1>8 DEF AllPromising
<1>10. Steady
  BY <1>8 DEF Steady, Running, Started
<1> QED BY <1>9, <1>10, SteadyWins

\* No fire is calm any more that is disturbed by a user or a remote.
LEMMA DisturbancePromises ==
  ASSUME Inv, fire' = AllDisturbed
  PROVE  AllPromising' /\ Wins
<1>1. Null \notin DOMAIN fire
  BY NullAssumption DEF Inv
<1>2. /\ DOMAIN fire' = DOMAIN fire
      /\ \A g \in DOMAIN fire : fire'[g].at = fire[g].at /\ (fire'[g].at # Null => ~fire'[g].calm)
  BY <1>1, DisturbedAreNotCalm DEF AllDisturbed
<1>3. AllPromising'
  BY <1>2 DEF AllPromising
<1>4. Wins
  BY <1>2 DEF Wins, Ends, Running, Started
<1> QED BY <1>3, <1>4

\* A report that is true keeps what is known.
LEMMA ReportedPromises ==
  ASSUME Inv, AllPromising, NEW d \in Devices, Reported(d)
  PROVE  AllPromising' /\ Wins
<1>1. /\ registry' = [registry EXCEPT ![d].reported = unit[d]] /\ d \in known
      /\ fire' = fire /\ unit' = unit
  BY DEF Reported
<1>2. /\ DOMAIN registry' = DOMAIN registry
      /\ \A x \in DOMAIN registry :
           /\ registry'[x].group = registry[x].group
           /\ registry'[x].reported = registry[x].reported \/ registry'[x].reported = unit[x]
  BY <1>1 DEF Inv, IsRegistry, Entry, known
<1>3. ASSUME NEW r, Promising(r, registry, unit)
      PROVE  Promising(r, registry', unit)
  <2>1. r.at \in DOMAIN registry
    BY <1>3 DEF Promising, Undisturbed
  <2>2. ASSUME NEW x \in DOMAIN registry, NEW rest, Settled(r.config, r.scope, registry, unit, x, rest)
        PROVE  Settled(r.config, r.scope, registry', unit, x, rest)
    BY <1>2, <2>2 DEF Settled
  <2>3. TrueReports(r.scope, registry', unit)
    BY <1>2, <1>3 DEF Promising, Undisturbed, TrueReports
  <2>4. Undisturbed(r, registry', unit)
    BY <1>2, <1>3, <2>2, <2>3 DEF Promising, Undisturbed, SettledAll
  <2> QED BY <1>2, <1>3, <2>1, <2>2, <2>4 DEF Promising
<1>4. AllPromising'
  BY <1>1, <1>3 DEF AllPromising
<1>5. Wins
  BY <1>1 DEF Wins, Ends, Running, Started
<1> QED BY <1>4, <1>5

LEMMA DeletedPromises ==
  ASSUME Inv, NEW d \in Devices, DeviceDeleted(d)
  PROVE  AllPromising' /\ Wins
<1>1. ASSUME NEW f \in DOMAIN fire
      PROVE  fire'[f].at = fire[f].at /\ (fire'[f].at # Null => ~fire'[f].calm)
  <2>1. CASE ~Running(f)
    BY <2>1 DEF DeviceDeleted, Running, Started
  <2>2. CASE Running(f)
    <3> DEFINE r == fire[f]
               owed == r.owed \ {d}
               scope == IF r.attached THEN r.scope \ {d} ELSE r.scope
               held == [r.held EXCEPT ![d] =
                          IF (d = r.at \/ d \in r.siblings \/ d = r.off) /\ @ = Null
                          THEN registry[d] ELSE @]
               c == [r EXCEPT !.calm = FALSE, !.owed = owed, !.scope = scope, !.held = held]
    <3>1. fire'[f] = c
      BY <2>2 DEF DeviceDeleted
    <3>2. r \in FireRecord
      BY <2>2, RunningFacts
    <3> HIDE DEF r, owed, scope, held
    <3>3. c.at = r.at /\ ~c.calm
      BY <3>2 DEF FireRecord
    <3> QED BY <3>1, <3>3 DEF r
  <2> QED BY <2>1, <2>2
<1>2. DOMAIN fire' = DOMAIN fire
  BY DEF DeviceDeleted
<1>3. AllPromising'
  BY <1>1, <1>2 DEF AllPromising
<1>4. Wins
  BY <1>1, <1>2 DEF Wins, Ends, Running, Started
<1> QED BY <1>3, <1>4

\* A fire keeps the object of its schedule, whatever becomes of the stored one.
LEMMA SchedulePromises ==
  ASSUME Inv, AllPromising, NEW s \in Schedules, NEW plan \in Plans \cup {Null},
         ScheduleChanged(s, plan)
  PROVE  AllPromising' /\ Wins
<1>1. registry' = registry /\ unit' = unit /\ DOMAIN fire' = DOMAIN fire
  BY DEF ScheduleChanged
<1>2. ASSUME NEW f \in DOMAIN fire
      PROVE  /\ fire'[f].at = fire[f].at
             /\ fire'[f].at # Null /\ fire'[f].calm => Promising(fire'[f], registry, unit)
  <2>1. CASE Running(f) /\ fire[f].schedule = s
    <3> DEFINE r == fire[f]
               c == [r EXCEPT !.attached = FALSE]
    <3>1. fire'[f] = c
      BY <2>1 DEF ScheduleChanged
    <3>2. r \in FireRecord /\ (r.at # Null /\ r.calm => Promising(r, registry, unit))
      BY <2>1, RunningFacts DEF AllPromising
    <3> HIDE DEF r
    <3>3. /\ c.at = r.at /\ c.off = r.off /\ c.siblings = r.siblings /\ c.owed = r.owed
          /\ c.list = r.list /\ c.scope = r.scope /\ c.config = r.config /\ c.held = r.held
          /\ c.calm = r.calm
      BY <3>2 DEF FireRecord
    <3> HIDE DEF c
    <3>4. Promising(r, registry, unit) => Promising(c, registry, unit)
      BY <3>3 DEF Promising, Undisturbed
    <3> QED BY <3>1, <3>2, <3>3, <3>4 DEF r
  <2>2. CASE ~(Running(f) /\ fire[f].schedule = s)
    BY <2>2 DEF ScheduleChanged, AllPromising
  <2> QED BY <2>1, <2>2
<1>3. AllPromising'
  BY <1>1, <1>2 DEF AllPromising
<1>4. Wins
  BY <1>1, <1>2 DEF Wins, Ends, Running, Started
<1> QED BY <1>3, <1>4

LEMMA PromisingNext == Inv /\ AllPromising /\ [Next]_vars => AllPromising' /\ Wins
<1> SUFFICES ASSUME Inv, AllPromising, [Next]_vars PROVE AllPromising' /\ Wins
  OBVIOUS
<1>1. CASE UNCHANGED vars
  <2>1. AllPromising'
    BY <1>1 DEF AllPromising, vars
  <2>2. Wins
    BY <1>1 DEF Wins, Ends, Running, Started, vars
  <2> QED BY <2>1, <2>2
<1>2. CASE FireStep
  BY <1>2, StartPromises, PushPromises DEF FireStep
<1>3. ASSUME NEW d \in Devices, NEW c \in Configs, RemotePressed(d, c) \/ UserPushed(d, c)
      PROVE  AllPromising' /\ Wins
  BY <1>3, DisturbancePromises DEF RemotePressed, UserPushed
<1>4. ASSUME NEW d \in Devices, NEW g \in Groups \cup {Null}, OutdoorUnitSet(d, g)
      PROVE  AllPromising' /\ Wins
  BY <1>4, DisturbancePromises DEF OutdoorUnitSet
<1>5. ASSUME NEW d \in Devices, Registered(d)
      PROVE  AllPromising' /\ Wins
  BY <1>5, DisturbancePromises DEF Registered
<1>6. CASE DeviceStep
  BY <1>3, <1>4, <1>5, <1>6, ReportedPromises, DeletedPromises DEF DeviceStep
<1>7. CASE ScheduleStep
  BY <1>7, SchedulePromises DEF ScheduleStep
<1> QED BY <1>1, <1>2, <1>6, <1>7 DEF Next

LEMMA PromisingInit == Init => AllPromising
BY DEF Init, AllPromising

\* The end of a fire is as SchedulesWin has it.
LEMMA WinsIsSchedulesWin ==
  ASSUME Inv, Wins, NEW f \in Fires, Ends(f), fire'[f].calm
  PROVE  LET r == fire[f]
             listed == r.scope \cap known
         IN  /\ \A d \in listed : unit'[d] = r.config
             /\ \A d \in listed, x \in known \ r.scope :
                  registry[x].group = registry[d].group =>
                    ~Opposite(unit'[x], ThermalSide(r.config))
BY DEF Wins, SettledAll, Settled, known

\* A fire that no one disturbs, and that began with true reports, leaves every
\* known device of its schedule on the step's config and no other device of their
\* outdoor units on the opposite side (fireStep and resolveStepConflicts), in
\* whatever order it finds the siblings and however the schedule is replaced.
THEOREM CalmFiresWin == Spec => SchedulesWin
<1> DEFINE Won == \A f \in Fires : Ends(f) /\ fire'[f].calm =>
                    LET r == fire[f]
                        listed == r.scope \cap known
                    IN  /\ \A d \in listed : unit'[d] = r.config
                        /\ \A d \in listed, x \in known \ r.scope :
                             registry[x].group = registry[d].group =>
                               ~Opposite(unit'[x], ThermalSide(r.config))
<1>1. Inv /\ AllPromising /\ [Next]_vars => [Won]_vars
  <2> SUFFICES ASSUME Inv, AllPromising, [Next]_vars PROVE Won
    OBVIOUS
  <2>1. Wins
    BY PromisingNext
  <2> QED BY <2>1, WinsIsSchedulesWin
<1>2. Inv /\ [Next]_vars => Inv'
  BY InvNext
<1>3. Inv /\ AllPromising /\ [Next]_vars => AllPromising'
  BY PromisingNext
<1>4. [][Won]_vars => SchedulesWin
  BY DEF SchedulesWin
<1> HIDE DEF Won
<1> QED BY InvInit, PromisingInit, <1>1, <1>2, <1>3, <1>4, PTL DEF Spec
=============================================================================
