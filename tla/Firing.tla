------------------------------- MODULE Firing -------------------------------
(***************************************************************************)
(* What a fire of a schedule does to the units: fireStep of scheduler.js,  *)
(* which pushes the step's config to the devices of the schedule one after *)
(* the other, and resolveStepConflicts of conflict.js, which after each    *)
(* push turns off the other devices of the same outdoor unit that run the  *)
(* opposite side.  Every push awaits a unit, and meanwhile other fires,    *)
(* users, remotes and polls go on.                                         *)
(*                                                                         *)
(* A fire holds objects: the schedule it read, whose devices a removal     *)
(* still changes while that object is the stored one; the list of devices  *)
(* it iterates over, which nothing changes; the entries it got, which a    *)
(* removal takes out of the registry.                                      *)
(*                                                                         *)
(* A unit takes a config when its answer arrives, and a poll or an         *)
(* /observed tells what the unit runs then (CommandPath has the delays).   *)
(* A config is its thermal mode: a push to "off" is power off.  When a     *)
(* fire starts is Scheduler's.  A rekey is a removal here.                 *)
(***************************************************************************)
EXTENDS Integers

CONSTANTS
  Devices,    \* device ids
  Configs,    \* of "heat", "cool", "dry", "auto", "off"
  Groups,     \* outdoor units a user assigns
  Schedules,  \* schedule ids
  Plans,      \* what a schedule may be: [devices, config], with one step; the
              \* devices are a list, given by its positions, which may have gaps
  Entries,    \* what the bridge may know of a device at the start
  Fires,      \* fires, each of which starts once at most
  MaxEvents,  \* bound: remote presses and what users do
  Null

ASSUME ConfigsAssumption ==
  "off" \in Configs /\ Configs \subseteq {"heat", "cool", "dry", "auto", "off"}
ASSUME NullAssumption == Null \notin Devices \cup Configs \cup Groups /\ Null \notin Fires
ASSUME PlansAssumption ==
  \A p \in Plans : /\ p \in [devices : {p.devices}, config : Configs]
                   /\ p.devices \in [DOMAIN p.devices -> Devices]
                   /\ DOMAIN p.devices \subseteq Nat
ASSUME EntriesAssumption ==
  Entries \subseteq [desired : Configs \cup {Null}, reported : Configs,
                   group : Groups \cup {Null}]
ASSUME BoundAssumption == MaxEvents \in Nat

VARIABLES
  registry,  \* id -> entry
  unit,      \* the config each unit runs
  store,     \* the stored schedules
  fire,      \* fire -> what it has, for those that have started
  events     \* remote presses and user actions so far

vars == <<registry, unit, store, fire, events>>

known == DOMAIN registry

Blank == [desired |-> Null, reported |-> Null, group |-> Null]

Put(r, d, e) == [x \in DOMAIN r \cup {d} |-> IF x = d THEN e ELSE r[x]]
EntryOf(r, d) == IF d \in DOMAIN r THEN r[d] ELSE Blank

\* upsert without a field that matters here: the entry exists from now on.
Ensure(r, d) == Put(r, d, EntryOf(r, d))
Desire(r, d, c) == Put(r, d, [EntryOf(r, d) EXCEPT !.desired = c])

-----------------------------------------------------------------------------
(* Sides. *)

ThermalSide(c) ==
  CASE c = "heat" -> "heat" [] c \in {"cool", "dry"} -> "cool" [] OTHER -> Null

\* Variant: the bridge's own intent comes first.
DesiredSide(e) ==
  IF ThermalSide(e.desired) # Null THEN ThermalSide(e.desired) ELSE ThermalSide(e.reported)

\* What the unit reported, or else what the bridge asked of it.
CurrentSide(e) ==
  IF ThermalSide(e.reported) # Null THEN ThermalSide(e.reported) ELSE ThermalSide(e.desired)

Opposite(c, side) == side # Null /\ ThermalSide(c) # Null /\ side # ThermalSide(c)

\* Variant: devices that were not assigned an outdoor unit share none.
SameAssigned(e, o) == e.group # Null /\ e.group = o.group

\* Devices without an outdoor unit share the default one.
SameGroup(e, o) == e.group = o.group

-----------------------------------------------------------------------------
(* A fire in progress. *)

Listed(list) == {list[i] : i \in DOMAIN list}

Without(list, d) == [i \in {j \in DOMAIN list : list[j] # d} |-> list[i]]

Started(f) == f \in DOMAIN fire
Running(f) == Started(f) /\ fire[f].at # Null

\* scope: the devices of the schedule object; attached: that object is stored.
\* list: what it iterates over, and next: where it goes on; at: the device whose
\* turn it is, Null when the fire is over.
\* siblings: what is left of the list of that device's siblings; off: the one
\* being turned off. held: entries the fire has that left the registry.
\* History: owed, the devices known since the start that had no turn yet; calm,
\* nothing but the fire itself changed anything that matters to its outcome.
Fire(s, plan) ==
  [schedule |-> s, config |-> plan.config, scope |-> Listed(plan.devices),
   attached |-> TRUE, list |-> plan.devices, next |-> 0, at |-> Null,
   siblings |-> {}, off |-> Null, held |-> [d \in Devices |-> Null],
   owed |-> Listed(plan.devices) \cap known,
   calm |-> \A d \in known : registry[d].reported = unit[d]]

\* The entry object of d that the fire r has.
Held(r, reg, d) == IF r.held[d] = Null THEN reg[d] ELSE r.held[d]

Over(r) == [at |-> Null, off |-> Null, calm |-> r.calm]

\* The fire r goes on to the next device of its list that is known to reg, or
\* is over.
NextTurn(r, reg) ==
  LET turns == {i \in DOMAIN r.list : i >= r.next /\ r.list[i] \in DOMAIN reg}
      i == CHOOSE i \in turns : \A j \in turns : i <= j
  IN  IF turns = {} THEN Over(r)
      ELSE [r EXCEPT !.at = r.list[i], !.next = i + 1,
                     !.siblings = {}, !.off = Null, !.owed = @ \ {r.list[i]},
                     !.held = [d \in Devices |-> Null]]

\* The fire r goes on with its siblings, in any order of the Map: it passes over
\* those that do not conflict until one does, or it has its next turn.
NextOff(r, reg) ==
  LET conflicting == {d \in r.siblings : Opposite(r.config, CurrentSide(Held(r, reg, d)))}
  IN  IF conflicting = {} THEN {NextTurn(r, reg)}
      ELSE UNION {{[r EXCEPT !.siblings = @ \ (passed \cup {d}), !.off = d] :
                     passed \in SUBSET (r.siblings \ conflicting)} : d \in conflicting}

\* Variant: the device itself is among its siblings.
ResolveWithSelf(r, reg) ==
  LET entry == Held(r, reg, r.at)
      siblings == {d \in DOMAIN reg : SameGroup(reg[d], entry)}
  IN  IF ThermalSide(r.config) = Null THEN {NextTurn(r, reg)}
      ELSE NextOff([r EXCEPT !.siblings = siblings], reg)

\* resolveStepConflicts after a push to r.at.
Resolve(r, reg) ==
  LET entry == Held(r, reg, r.at)
      siblings == {d \in DOMAIN reg \ {r.at} : SameGroup(reg[d], entry) /\ d \notin r.scope}
  IN  IF ThermalSide(r.config) = Null THEN {NextTurn(r, reg)}
      ELSE NextOff([r EXCEPT !.siblings = siblings], reg)

\* The other fires, disturbed.
Disturbed(f, r) ==
  [g \in DOMAIN fire |->
     IF g = f THEN r
     ELSE IF Running(g) THEN [fire[g] EXCEPT !.calm = FALSE] ELSE fire[g]]

\* The fire f goes on as r: a sibling it begins to turn off exists from now on.
GoOn(f, r, reg) ==
  /\ fire' = Disturbed(f, r)
  /\ registry' = IF r.off # Null THEN Ensure(reg, r.off) ELSE reg

Init ==
  /\ registry \in UNION {[D -> Entries] : D \in SUBSET Devices}
  /\ unit = [d \in Devices |-> IF d \in known THEN registry[d].reported ELSE "off"]
  /\ store \in [Schedules -> Plans]
  /\ fire = [f \in {} |-> Null]
  /\ events = 0

StartFire(f, s) ==
  /\ ~Started(f)
  /\ store[s] # Null
  /\ fire' = Put(fire, f, NextTurn(Fire(s, store[s]), registry))
  /\ UNCHANGED <<registry, unit, store, events>>

Pushing(f) == Running(f) /\ fire[f].off = Null
TurningOff(f) == Running(f) /\ fire[f].off # Null

StepPushed(f) ==
  /\ Pushing(f)
  /\ LET r == fire[f]
         reg == Desire(registry, r.at, r.config)
     IN  /\ unit' = [unit EXCEPT ![r.at] = r.config]
         /\ \E next \in Resolve(r, reg) : GoOn(f, next, reg)
  /\ UNCHANGED <<store, events>>

\* Variant: a device that fails ends the fire.
StepFailsAll(f) ==
  /\ Pushing(f)
  /\ unit' \in {unit, [unit EXCEPT ![fire[f].at] = fire[f].config]}
  /\ fire' = Disturbed(f, [at |-> Null, off |-> Null, calm |-> FALSE])
  /\ UNCHANGED <<registry, store, events>>

\* Variant: a device that fails is tried again.
StepRetried(f) ==
  /\ Pushing(f)
  /\ LET r == [fire[f] EXCEPT !.calm = FALSE, !.next = @ - 1]
     IN  /\ unit' \in {unit, [unit EXCEPT ![r.at] = r.config]}
         /\ GoOn(f, NextTurn(r, registry), registry)
  /\ UNCHANGED <<store, events>>

\* The unit may have taken a config whose answer was lost.
StepFailed(f) ==
  /\ Pushing(f)
  /\ LET r == [fire[f] EXCEPT !.calm = FALSE]
     IN  /\ unit' \in {unit, [unit EXCEPT ![r.at] = r.config]}
         /\ GoOn(f, NextTurn(r, registry), registry)
  /\ UNCHANGED <<store, events>>

TurnedOff(f) ==
  /\ TurningOff(f)
  /\ LET r == fire[f]
         reg == Desire(registry, r.off, "off")
     IN  /\ unit' = [unit EXCEPT ![r.off] = "off"]
         /\ \E next \in NextOff([r EXCEPT !.off = Null], reg) : GoOn(f, next, reg)
  /\ UNCHANGED <<store, events>>

TurnOffFailed(f) ==
  /\ TurningOff(f)
  /\ LET r == [fire[f] EXCEPT !.calm = FALSE]
     IN  /\ unit' \in {unit, [unit EXCEPT ![r.off] = "off"]}
         /\ \E next \in NextOff([r EXCEPT !.off = Null], registry) :
              GoOn(f, next, registry)
  /\ UNCHANGED <<store, events>>

PushEnds(f) == StepPushed(f) \/ StepFailed(f) \/ TurnedOff(f) \/ TurnOffFailed(f)

-----------------------------------------------------------------------------
(* Units, remotes and users. *)

\* A poll, or an /observed.
Reported(d) ==
  /\ d \in known
  /\ registry' = [registry EXCEPT ![d].reported = unit[d]]
  /\ UNCHANGED <<unit, store, fire, events>>

Event ==
  /\ events < MaxEvents
  /\ events' = events + 1

AllDisturbed == Disturbed(Null, Null)

RemotePressed(d, c) ==
  /\ Event
  /\ unit' = [unit EXCEPT ![d] = c]
  /\ fire' = AllDisturbed
  /\ UNCHANGED <<registry, store>>

UserPushed(d, c) ==
  /\ Event
  /\ d \in known
  /\ unit' = [unit EXCEPT ![d] = c]
  /\ registry' = Desire(registry, d, c)
  /\ fire' = AllDisturbed
  /\ UNCHANGED store

OutdoorUnitSet(d, g) ==
  /\ Event
  /\ d \in known
  /\ registry' = [registry EXCEPT ![d].group = g]
  /\ fire' = AllDisturbed
  /\ UNCHANGED <<unit, store>>

\* The device leaves the stored schedules, those that fires hold included. Its
\* entry stays with the fires that have it.
DeviceDeleted(d) ==
  /\ Event
  /\ d \in known
  /\ registry' = [x \in known \ {d} |-> registry[x]]
  /\ store' = [s \in Schedules |->
                 IF store[s] = Null THEN Null
                 ELSE [store[s] EXCEPT !.devices = Without(@, d)]]
  /\ fire' = [f \in DOMAIN fire |->
                IF ~Running(f) THEN fire[f]
                ELSE LET r == fire[f]
                         has == d = r.at \/ d \in r.siblings \/ d = r.off
                     IN  [r EXCEPT !.calm = FALSE, !.owed = @ \ {d},
                            !.scope = IF r.attached THEN @ \ {d} ELSE @,
                            !.held[d] = IF has /\ @ = Null THEN registry[d] ELSE @]]
  /\ UNCHANGED unit

Registered(d) ==
  /\ Event
  /\ d \notin known
  /\ registry' = Ensure(registry, d)
  /\ fire' = AllDisturbed
  /\ UNCHANGED <<unit, store>>

\* The schedule is replaced or deleted: fires keep the object they have.
ScheduleChanged(s, plan) ==
  /\ Event
  /\ store' = [store EXCEPT ![s] = plan]
  /\ fire' = [f \in DOMAIN fire |->
                IF Running(f) /\ fire[f].schedule = s
                THEN [fire[f] EXCEPT !.attached = FALSE] ELSE fire[f]]
  /\ UNCHANGED <<registry, unit>>

-----------------------------------------------------------------------------
FireStep == \E f \in Fires : \/ \E s \in Schedules : StartFire(f, s)
                             \/ PushEnds(f)

DeviceStep ==
  \E d \in Devices :
    \/ Reported(d) \/ DeviceDeleted(d) \/ Registered(d)
    \/ \E c \in Configs : RemotePressed(d, c) \/ UserPushed(d, c)
    \/ \E g \in Groups \cup {Null} : OutdoorUnitSet(d, g)

ScheduleStep == \E s \in Schedules, plan \in Plans \cup {Null} : ScheduleChanged(s, plan)

Next == FireStep \/ DeviceStep \/ ScheduleStep

\* A push ends: both attempts of it have a timeout.
Fairness == \A f \in Fires : WF_vars(PushEnds(f))

Spec == Init /\ [][Next]_vars /\ Fairness

-----------------------------------------------------------------------------
(* Properties. *)

Entry == [desired : Configs \cup {Null}, reported : Configs \cup {Null},
          group : Groups \cup {Null}]

\* Types of the entries and of the fires in progress.
TypeOK ==
  /\ known \subseteq Devices
  /\ \A d \in known : registry[d] \in Entry
  /\ unit \in [Devices -> Configs]
  /\ events \in 0..MaxEvents
  /\ \A f \in Fires : Running(f) =>
       LET r == fire[f]
       IN  /\ r.at \in Devices /\ r.off \in Devices \cup {Null}
           /\ r.siblings \subseteq Devices \ {r.at, r.off}
           /\ r.held \in [Devices -> Entry \cup {Null}]

\* Every fire ends, whatever fails and whatever other fires do to its devices:
\* no push is repeated, and turning a sibling off starts nothing further.
EveryFireEnds == \A f \in Fires : Running(f) ~> Started(f) /\ ~Running(f)

Ends(f) == Running(f) /\ ~Running(f)'

\* A device that is in the list of a fire and known from its start on has its
\* turn, whatever fails before it, and whatever is deleted or edited meanwhile.
EveryDeviceHasItsTurn == [][\A f \in Fires : Ends(f) => fire[f].owed = {}]_vars

\* A fire that nothing disturbs, and that found true reports, ends with the
\* devices of its schedule on its config, and no other device of their outdoor
\* units, the default one included, on the opposite side.
SchedulesWin ==
  [][\A f \in Fires : Ends(f) /\ fire'[f].calm =>
       LET r == fire[f]
           listed == r.scope \cap known
       IN  /\ \A d \in listed : unit'[d] = r.config
           /\ \A d \in listed, x \in known \ r.scope :
                registry[x].group = registry[d].group =>
                  ~Opposite(unit'[x], ThermalSide(r.config))]_vars

\* The fire f begins to turn x off, and the bridge knows what x runs.
TurnsOffKnown(f, x) ==
  /\ Running(f) /\ fire'[f].off = x /\ fire[f].off # x
  /\ fire[f].held[x] = Null /\ registry[x].reported = unit[x]

\* A fire turns a device off that runs the fire's own side only when the bridge
\* does not know what the device runs: what the bridge last wanted of it, which a
\* remote may have overridden since, does not count against a true report.
OffOnlyOnStaleView ==
  [][\A f \in Fires, x \in known :
       TurnsOffKnown(f, x) => ThermalSide(unit[x]) # ThermalSide(fire[f].config)]_vars
=============================================================================
