# DesktopBridge: specification and proofs

DesktopBridge is a Node process between a UI and a set of ESP32 units that drive
air conditioners over IR. It keeps a registry of units, polls them, pushes
configs to them (for a user or for a schedule) and persists what the user
configured. This directory models that program in TLA+, model-checks it with TLC
and proves its main safety properties with TLAPS. Paths below are relative to
`src/src/` unless they say otherwise.

## The system

| Component | State it keeps | Operations | Talks to |
|---|---|---|---|
| Registry, `store.js` | one entry per id: ip, mac, lastSeen, orphaned, desired config and its configId, the unit's configId, applied, reported config, outdoor unit | `upsert`, `touch`, `releaseIp`, `resolveDuplicateIps`, `pruneDuplicateIps`, `rekeyEntry`, `removeEntry`, `identityConflict` | schedule store (rename, prune), the file |
| Units' routes, `server.js` | none | `POST /register` (migration, identity guard), `POST /observed` | registry |
| UI's routes, `server.js` | none | delete, dedupe, config, outdoor-unit, rekey, identify, resend, schedule upsert and delete | registry, units, schedule store, scheduler |
| mDNS discovery, `discovery.js` | none | advertisement (up, txt-update, srv-update), down | registry |
| Reconciliation, `reconcile.js` | `ticking`, the polls of the tick | `tick`, `pollOne`, `maybeReassert` | units, registry |
| Command path, `control.js`, `deviceClient.js` | requests in flight | `applyDeviceConfig`, `callTwice`, `call` | units, registry |
| Schedule store, `scheduleStore.js` | schedules: devices, steps, enabled | put, remove, rename and prune a device | the file |
| Scheduler, `scheduler.js` | armed triggers, last runs | arm, disarm, trigger, `fireStep` | schedule store, command path, conflicts |
| Conflicts, `conflict.js` | none | `resolveStepConflicts` | registry, command path |
| Persistence, `store.js`, `scheduleStore.js`, `index.js` | two debounce timers, two files | `persist`, `load`, `shutdown` | file system |
| Validators, audit log, config, errors, logger | none that handlers depend on | pure checks and output | |

Node runs one handler at a time and switches at an `await` only. What is hard is
therefore not data races but what happens *between* awaits and *between*
messages: an entry is deleted, rekeyed or given another ip while a poll of it or
a command to it is in flight; answers and reports arrive late, out of order or
not at all; the two attempts of a command have different fates; a unit reboots;
a guess about identity (a shared ip, a borrowed id) turns out wrong.

What makes each component correct:

- Registry: one entry per ip; a chip keeps its id; a live device is not hijacked;
  an ip is taken from an entry only on evidence; nothing the bridge infers loses a
  config, an outdoor unit or a schedule; ids change with everything they carry.
- Command path and reconciliation: the desired config and its configId belong
  together; the view of a unit converges; reasserts end; a reboot is respected.
- Scheduler: every enabled step has exactly one live trigger, a cancelled trigger
  never fires or arms again, a fire reflects the schedule in force.
- Conflicts: after a fire no two devices of one outdoor unit run opposite sides
  because of it, and only conflicting siblings are turned off.
- Persistence: each file comes to hold what its store holds, and a restart loses
  only what was still due or failed. Nothing in the code ties the two files
  together, so a rekey may be on disk in one and not yet in the other.

## Modules

| Module | Models | Kind |
|---|---|---|
| `Directory` | what the bridge promises about the user's configuration | abstract specification |
| `Registry` | `store.js` and every handler that writes it, the devices of schedules | detailed, implements `Directory` |
| `MCRegistry` | instances of `Registry` | model checking |
| `RegistryProofs` | type correctness and unique ips | proofs |
| `RegistryRefinement` | `Registry` implements `Directory` | proofs |
| `RegistrySafety` | what a step of `Registry` may never do | proofs |
| `CommandPath` | one unit, its entry, pushes, poll, reassert, reports | detailed |
| `MCCommandPath` | instances of `CommandPath` | model checking |
| `CommandPathProofs` | its types, what unkeys a config, what causes a reassert | proofs |
| `WriteBehind` | what one debounced file promises | abstract specification |
| `Persistence` | `state.json`, `schedules.json` and the process, over `Directory` | detailed, implements `WriteBehind` twice |
| `MCPersistence` | instances of `Persistence` | model checking |
| `PersistenceProofs` | what is saved, and the refinement | proofs |
| `Scheduler` | triggers, wall-clock occurrences, the routes and the process that arm them | detailed |
| `MCScheduler` | instances of `Scheduler` | model checking |
| `SchedulerProofs` | its types, and that triggers match the stored schedules | proofs |
| `OccurrenceProofs` | local dates and `nextOccurrence`; no day skipped, no occurrence fired twice | proofs |
| `Firing` | what fires do to devices and their outdoor units | detailed |
| `MCFiring` | instances of `Firing` | model checking |
| `FiringProofs` | its types, turns, what is turned off, and that schedules win | proofs |

`Directory` joins two of the detailed modules: `Registry` implements it, and
`Persistence` takes it as the stores in memory. A fire has two halves: when it
starts and what becomes of its trigger is `Scheduler`'s, what it does to the units
is `Firing`'s.

### Registry

`registry` is the `Map` of `store.js`, `members` the `deviceIds` of the schedules.
`store.js` functions are operators on a registry value (`Touch`, `ReleaseIp`,
`ResolveDuplicateIps`, `Rekeyed`, `IdentityConflict`), handlers are actions. A
synchronous handler is one action; a poll or a command is one action per stretch
between awaits, with `stage` and `calls` saying what is awaited. `pollOne` keeps a
reference to its entry object: while that is the registry's own object nothing
need be stored; once the registry drops it (`Detach`), `held` keeps the fields the
poll still reads. What units, mDNS and users send is arbitrary.

Abstractions. `lastSeen` is the `age` in ticks of a clock, saturated just beyond
the offline threshold; equal ages stand for equal milliseconds. The numeric order
of ids stands for `localeCompare`. Several reads of one outcome (the order of the
`Map` in `entryByMac`; whether a poll's request found an ip) are left open, which
admits more behaviours than the code, so the safety results carry over. Of the
configIds, which only decide whether a poll goes on to reassert, nothing is kept
here. `down` and `lastCommand` are left out, as nothing in the program decides on
them, and so are `port` and the readings that are only displayed. The registry
starts empty; `Persistence` has the load. A command whose entry was removed before
its handler goes on (`SendToRemoved`) recreates the id by its first `upsert`.
`DELETE /schedules/:id` and the schedule upsert appear with the part
that this module needs, the devices; arming is the scheduler's.

### CommandPath

One unit and its entry. The unit (external) numbers every config it accepts; it
may lose that numbering in a reboot and then reports `applied:false`. A push is
`callTwice`: two attempts, each accepted and answered, accepted with the answer
lost, accepted with an answer that has no configId (a 2xx whose body is empty or no
JSON is `{}` to `call`), or never delivered; the later answer wins. Without a
configId the old one is kept. A poll's answers may be blank, too. The poll reads `/health` and
`/config` at one moment and applies the answer at another, and goes on to
reassert. `/observed` and `/register` travel in `mail` and may be overtaken or
lost. `history` is a history variable: the config whose push was answered with the
stored `desiredConfigId`, and the number of reasserts. Resend and identify change no intent and are left out
here (Registry has them as contacts). `MaxEvents` bounds presses, reboots,
failures, blank answers and losses together, so that any one of them meets
everything else.

### Persistence

`intent` and `members` are `Directory`'s variables: what the user configured on the
devices, and which schedule drives which device. Every handler is a step of
`Directory` with the `persist` calls its code makes, if any: a poll that is
answered, an identify and the start of a command change the registry without a
write (`Touched`). `timer` is `persistTimer` of each store, `file` what is on disk;
a write takes the store's value of its own moment. A rename replaces a file at
once, so a crash in the middle of a write is a crash before it. Writes fail, loads
fail (the store then starts empty and its file stays), the process is killed or
shut down and started again, any number of times. What is learned from units is
left out, and a deleted schedule is one that drives nothing. `missed` and `last`
are history.

`WriteBehind` is what each file promises by itself, and the promise a reader of
`store.js` should have: what is lost is what was due, or what failed.

### Scheduler

A trigger object of `makeTrigger` is a record under a handle (schedule, step, how
often built over); `armed` is the `Map` of the live ones. A clear of a timer removes
the object; a trigger whose fire has begun stays until the fire ends, cancelled or
not. Time is counted in minutes, and `NextOccurrence` is the code's, over
`setHours` and `setDate` as JavaScript defines them for a host whose offset from
UTC changes once: an overlap takes the first of two moments, a gap rolls forward.
Timers may come late by any time, and a fire may take any time. `StartUp` arms what
was stored. Distinct step ids are assumed, as the UI makes them; `lastRuns` and
`nextRunAt` are displayed only and left out.

### Firing

A fire holds JavaScript objects, and what other handlers do to those is the point
of the module. `scope` is the schedule object it read: a removal of a device still
changes it, but only while it is the stored one (`attached`). `list` is the array
the loop iterates over, which nothing changes, as a removal builds a new array;
arrays are functions on positions, with gaps once something was removed.
`siblings` is the list `resolveStepConflicts` made, in any order of the `Map`, and
`held` the entries the fire has that left the registry. `StepPushed` is everything
from the answer of a push to the next await. A config is its thermal mode; a unit
takes it when the answer arrives (the delays are `CommandPath`'s). A rekey is a
removal here. `owed` and `calm` are history.

## Runs

| Run | Bounds | Shows |
|---|---|---|
| `RegistryClaims` | 2 ids, 2 chips, 2 ips, 2 calls in flight, ages 0 and 1 online | `UniqueIp`, `ChipKeepsItsId`, `OnlineEntryIsNotHijacked`, `IpReleasedOnEvidence` |
| `RegistryIntent` | 2 ids, 1 ip, 1 config, 1 outdoor unit, 1 schedule, 1 call in flight | `AutomaticStepsKeepIntent`, `ImplementsDirectory` |
| `CommandPath` | 2 configs, 2 pushes, 1 event | `OnlyTwoWaysUnkey`, `ViewConverges`, `ReassertsAreCaused` |
| `Persistence` | 2 devices, 1 config, 1 outdoor unit, 1 schedule; stops, starts and failures unbounded | `QuietMeansSaved`, `EventuallySaved`, `QuietStopLosesNothing`, `ImplementsWriteBehind` |
| `Scheduler` | 1 schedule of 1 or 2 steps, 2 triggers of a step at a time, days of 6 minutes, 13 minutes, 7 zones | `ArmedMatchesStore`, `NoDaySkipped`, `NoOccurrenceTwice`, `NoTriggerIsStuck` |
| `Firing` | 3 devices, 2 fires, 1 schedule of 2 plans, 1 event | `EveryFireEnds`, `EveryDeviceHasItsTurn`, `SchedulesWin`, `OffOnlyOnStaleView` |
| `RegistryMigration` | violation | a chip announced by mDNS first is not migrated |
| `RegistryOrphan` | violation | a rekey onto a live entry keeps the old entry's orphaned mark |
| `CommandKeyed` | violation (no events) | an overtaken reassert mixes up config and configId |
| `CommandReboot` | violation | a reboot that resets configIds is reasserted |
| `PersistenceRestart` | violation | an orderly restart forgets a config that was just pushed |
| `SchedulerReplay` | violation | missed occurrences are fired late, one by one |

Every passing run also checks its module's `TypeOK`, except `RegistryIntent`,
whose module `RegistryClaims` types.

Two ids are enough for every identity question that is between a claimant and an
incumbent; two chips and two ips make every combination of same and different.
`RegistryClaims` also holds with three ids and one call in flight (250 thousand
states, too slow for the regular runs). Its `OfflineAfter = 1` has online entries
of different ages, which `Outranks` compares, beside equal ones, which it tells
apart by id; in the other runs a single clock tick takes an entry offline, as no
property of theirs depends on who keeps an ip. More ages than that are left to the
theorems, which hold for every `OfflineAfter`. Symmetry is used for chips and ips
only, and only where no liveness is checked. In `RegistryClaims` there are no
configs, so no poll goes on to reassert: `RegistryIntent` has those steps. In
`CommandPath`, two pushes are what an overtaken answer needs, and the reassert is a
third.

`Persistence` has no bound on events at all: two devices make a rekey, one of
everything else makes a change. In `Scheduler` the offset change lies at the start,
in the middle or at the end of a day and is a gap or an overlap of two minutes; 13
minutes are two days and the midnight after them, so that a fire can outlast a
day. Two handles of a step are a cancelled trigger still firing and its successor.
In `Firing`, three devices are one in turn, one to come and one sibling, any of
which may be unknown; two fires on one schedule whose plan may be replaced by the
opposite one are also two schedules that conflict. Reported and desired start
different, which is the case that tells the views apart. One event meets every
stage of two fires.

Deadlock is checked except in `Firing`, where the fires end and nothing else need
happen; elsewhere units may always register, processes restart.

`ReassertsAreCaused` is the safety form of "reasserts end": it counts them against
the pushes and events that can cause one, so it also bounds them.

`NoDaySkipped` makes one exception, and the code has it: an occurrence that a gap
rolls into the next day may be skipped.

`NoTriggerIsStuck` says no more of occurrences that were missed than that the trigger
gets over them: it would hold if the code skipped them as it holds now that it fires
them late (`SchedulerReplay`).

All properties of occurrences but `MissedFiresAreSkipped` speak of *regular* zones (`RegularZone`): a gap is
shorter than a day by two minutes or more, and no overlap takes the local date back to the day
before. The second is a limit of the code. When clocks go back at 00:01 to 23:01,
`nextOccurrence` from 00:01 on, asked for 00:00, takes yesterday's date, counts one
day on, and finds the 00:00 that has just been fired, which lies before its `from`,
against the comment "strictly after" (`scheduler.js:35`); the trigger then fires it
again and again. Only St. John's changed its clocks so, until 2011; the usual change
from 24:00 to 23:00 is regular, and is one of the seven zones. The proof found the
condition: the invariant was not inductive without it.

`NoOccurrenceTwice` is about a trigger that is replaced while its fire is in progress
(an edit, or a disable and enable): both handles are then in play, and the one built
anew must wait for a later occurrence than the one being fired.

`SchedulesWin` speaks of undisturbed fires, since no document says what a
fire owes that was overtaken. Two schedules that fire at once on opposite sides of
one outdoor unit turn each other's devices off, down to all of them; that too is
undocumented, and no property judges it.

Fairness in `Persistence`: a timer that is set fires while the process lives.
In `Scheduler`: a timer that is due fires, and a fire ends. In `Firing`: a push
ends, by its timeouts (`PushEnds`). Users, units, remotes, the clock, and stops and
starts of the process get none: where a property needs time to pass, the clock has
passed.

Fairness (`CommandPath`): every call to a unit ends, because `call` aborts it
after its timeout and a response body is bounded by the HTTP client's own
timeout; mail is delivered or lost; the interval timer starts a poll after the
last one ended (`tick` resets `ticking` in a `finally`). Users, remotes, reboots
and failures get no fairness: they need not happen, and after the bounds are used
up they no longer do, which is what the liveness properties assume by `<>[]`.

### What the violations say

1. `RegisteredChipIsMigrated`. `POST /register` migrates only onto an id the
   bridge does not know (`server.js:128`), but an mDNS advertisement of the new id
   has made it known (`discovery.js:41`). The old entry, with the same MAC, keeps
   the config and the schedules. README.md:156-158 promises the migration.
2. `LiveFactsWin`. `rekeyEntry` overlays non-null fields, so a null `orphaned` of
   the live entry does not clear that of the old one, rekeyed onto it as
   README.md:182-184 recommends (`store.js:244`; store.js:227-229 says "live facts
   from that entry win"). It heals at the next contact. The other direction, a live
   entry rekeyed onto an orphaned one, ends in such an entry, too, there because
   `orphaned` is a fact that the existing entry has; the property does not speak of it.
3. `DesiredIsKeyed`. A poll answer from before a push starts a reassert; another
   push completes; the reassert's answer then stores its own configId next to the
   newer desired config (`reconcile.js:119`). `inSync` becomes true for a config
   the unit does not run. The run allows no fault of the unit or the network, so the
   program does this by itself. `OnlyTwoWaysUnkey` shows that there is just one other
   way, a push whose answer has no configId (`control.js:37`).
4. `NoReassertOnReboot`. `maybeReassert` never looks at `applied`
   (`reconcile.js:107`). Whether it happens depends on the firmware: the model
   lets a reboot restart the numbering or keep it, and only the former is caught.
5. `RestartKeepsIntendedConfigs`. `persist` writes 100 ms after a change
   (`store.js:398`) and `shutdown` exits without flushing (`index.js:31`). A config
   whose push was answered just before is gone after an orderly restart, against
   README.md:44-45. `QuietStopLosesNothing` is what does hold.
6. `MissedFiresAreSkipped`. Re-arming counts from the target, not from now
   (`scheduler.js:114`), and a negative delay fires at once. So occurrences are skipped
   only while the process is down; what passes while the host sleeps or a fire lasts is
   replayed, against README.md:214 and scheduler.js:18.

### What the properties except

Four properties that pass name a case that they allow, because the code has it. Each
case is reachable in the run of its property: without the exception TLC refutes it.

- `IpReleasedOnEvidence` allows a tie (`LostATie`). `lastSeen` has millisecond grain and
  `collisionsByIp` breaks ties by id (`store.js:149`), so an entry contacted at an ip
  in the millisecond of its holder's contact loses it at once if its id is the
  greater, although store.js:276-279 calls it "the freshest claimant". An entry that
  is not itself moving is never the loser of a tie.
- `ChipKeepsItsId` allows a poll that holds a dropped entry object. `pollOne` checks
  the MAC of that object and touches the entry under the id (`reconcile.js:58`, `:65`).
  After a delete, rekey or migration and a register of another unit under the id these
  differ, and the old unit's readings overwrite the new entry. It is the only way.
- `NoDaySkipped` allows an occurrence that a gap rolls into the next day to be passed
  over. When a gap ends at midnight, `setDate` gives a moment of the day after, and
  `setHours` goes on from there (`scheduler.js:44-47`): the day of the change has no
  fire, although README.md:208 says every day. Greenland has such a change each
  spring, from 23:00 to 24:00.
- `OffOnlyOnStaleView` allows a device that reports "auto" or off to be turned off.
  `currentSide` falls back to the desired config whenever the *reported* one has no
  side (`conflict.js:59`), while conflict.js:52-57 says only when nothing was
  reported. (`Firing` has no "auto" in its instance; off is enough for the case.)

## Proofs

All for arbitrary sets (of ids, chips, ips, configs, outdoor units, schedules,
fires, ...) and arbitrary bounds, from the assumptions the modules name. In
`Registry`: ids are integers (`IdsAssumption`, for the order), `OfflineAfter` is a
natural number (`OfflineAssumption`), `Null` is no value (`NullAssumption`). The
others say that bounds are numbers, that callers differ from `Null`, that `NoId` is
no configId, that zones,
step lists and plans have the shapes the validators ensure.

- `TypeCorrect`: `Spec => []TypeOK`, and `IpsAreUnique`: `Spec => []UniqueIp`
  (`RegistryProofs`). Neither is inductive alone in a useful way: that
  `ResolveDuplicateIps` leaves one claimant per ip needs ages and ids to be
  numbers, so the invariant proved is the conjunction of both. The heart is that
  `Outranks` is a strict total order on the claimants of one ip
  (`ResolveIsDistinct`); `TouchIsDistinct` follows because a contact re-resolves,
  except when the entry has no ip, where nothing new is claimed, and
  `RekeyedIsDistinct` because a rekey drops one holder for the other. So the
  handlers that write an ip restore the invariant before they return, and there is
  one step per action.
- `RegistryImplementsDirectory`: `Spec => ImplementsDirectory`
  (`RegistryRefinement`), under the mapping that reads `desired` and `group` off the
  entries. It needs `IpsAreUnique`: with unique ips nothing is ever stale, so
  `Dedupe` removes nothing and is a stutter, though `Directory` has no step that
  forgets several devices at once. Every other action maps to one step of
  `Directory` or to a stutter; late answers for removed ids map to `Learn` (a poll)
  or `SetDesired` (a command).
- `ChipsKeepTheirIds`, `LiveDevicesStay`, `IpsAreReleasedOnEvidence`,
  `AutomaticStepsKeep` (`RegistrySafety`): the four action properties of the
  registry, from the same invariant. The lemmas say what one contact does to the
  entry it touches and to the others: it changes a chip only where
  `IdentityConflict` found none, and takes an ip only as `Outranks` decides. A claim
  that moves an online entry names the entry's own chip *for whichever of the claims
  the step is taken* (`ClaimSafe`). Who loses an ip to a contact is one of two
  (`TouchEvidence`): the holder, to the entry contacted there, or the entry contacted,
  to a holder of the same age and smaller id. A loss without a contact is a poll that
  met a stranger and no poll that failed (`MetStranger`).
- `CommandTypes`, `UnkeyingIsAccounted`, `ReassertsHaveCauses`
  (`CommandPathProofs`). The last needs an account: the invariant `Counted` says
  that the reasserts so far, the pushes still active and the debt are no more than
  the pushes and events used. The debt (`Debt`) is one when
  the unit's configId is behind the desired one, or behind what the reassert was
  just given, or a poll answer in hand is, or is blank (`Behind`): a reboot, a blank
  answer or a push that overtook the answer has paid for that, and the reassert it leads to takes the
  debt over.
- `PersistenceTypes`, `QuietIsSaved`, `QuietStopsLoseNothing`, `FilesAreWriteBehind`
  (`PersistenceProofs`). A store without a due or failed write agrees with its file;
  each handler either sets the timer or changes nothing the user configured, which
  for a rekey and a delete must be shown of both stores.
- `SchedulerTypes`, `TriggersMatchStore` (`SchedulerProofs`). `ArmedMatchesStore`
  is inductive together with the types and `DownIsEmpty`: a process that is down
  has no trigger, which the start needs to find handles.
- `NextIsEarliest`, `TriggersSkipNoDay`, `EditsFireNothingTwice`
  (`OccurrenceProofs`), for a day of any length from two minutes on and any one
  change of the offset. The first part is arithmetic of dates: dates begin
  `DayLength` apart (`StartsApart`), local dates follow time in a regular zone
  (`DatesFollowTime`), and so occurrences that no gap rolled are in the order of
  their dates (`OccurrencesApart`). `NextIsEarliest` then has the two cases of
  `nextOccurrence`: today's occurrence is still to come, or the next day's is the
  earliest. The invariant `AllOnTime` adds to `NoDaySkipped` that a trigger's target
  *is* an occurrence, also while it fires: from a minute past it, `scheduleNext` misses
  none (`NextAfterOccurrence`). `NoOccurrenceTwice` needs `Due`: a fire that has begun
  was due, so what is built after it waits for something later.
- `FiringTypes`, `NoTurnIsLost`, `TurnsOffOnStaleViewOnly` (`FiringProofs`). The
  invariant adds to the types that whom a fire still owes a turn is known and stands
  later in its list (`OwedLater`). With the least position still ahead as the next
  turn (`Smallest`), a fire without one owes nobody. Every end of a push is shown to
  move its fire well (`WellMoved`), all other steps leave fires where they are
  (`Steady`).
- `CalmFiresWin` (`FiringProofs`): `Spec => SchedulesWin`. The invariant
  `AllPromising` follows an undisturbed fire device by device: the reports are true
  of every device outside its schedule, but for those it turned off
  (`TrueReports`); devices that had their turn run the step's config and have no
  opposite sibling (`Settled`); of the device at hand the same holds but for the
  siblings still in the list (`Promising`). A sibling not turned off was judged by a
  true report, so it is not opposite (`NoConflict`); a push to a listed device cannot
  undo another's turn, since all of them take one config. Every other step of the
  model that could break this ends the fire's calm (`DisturbedAreNotCalm`).

With these, every invariant and every action property that a passing run checks is a
theorem. Model-checked only is liveness (`ViewConverges`, `EventuallySaved`,
`NoTriggerIsStuck`, `EveryFireEnds`), as the prover has no rule for fairness and
`ENABLED`.

## Plan

Done: registry, command path, persistence, scheduler, fires and conflicts, with the
theorems above. What could come next: a composition of `CommandPath` and `Firing`, where a fire's push and a user's overlap
on one unit (today `Firing` counts that as a disturbance), and the safety part of
the liveness properties: what is enabled when a fire, a write or a poll is pending.

## Not modelled

The read-only routes and the Device shape (status is `Online` in `Registry`, and
what `inSync` compares is in `CommandPath`; they change nothing), the rejection of
malformed input (`schema.js`, `scheduleSchema.js`: the models take what validators
accept), the audit log, configuration, logging, error shapes, bearer-token
authentication, and the mDNS `down` event, whose flag nothing reads. Loads that
skip a single malformed schedule are left out, as only validated ones are written.
`PROJECT.json` lists every component, and with the hazards that no property covers
the reason why.
