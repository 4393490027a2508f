------------------------------ MODULE Registry ------------------------------
(***************************************************************************)
(* The device registry of the bridge: store.js, and every handler that     *)
(* writes it (POST /register, POST /observed, the user's device routes,    *)
(* mDNS discovery, the reconciliation poll, commands in flight), together  *)
(* with the membership of devices in schedules that store.js rewrites.     *)
(*                                                                         *)
(* Node runs one handler at a time and switches only at an await, so a     *)
(* synchronous handler is one action, and a handler that awaits a unit is  *)
(* one action per stretch between awaits. What units, mDNS and users send  *)
(* is arbitrary.                                                           *)
(*                                                                         *)
(* Left out: `down` (no reader: computeStatus and toDevice ignore it, so   *)
(* the mDNS `down` event changes nothing here), `lastCommand`, `port`,     *)
(* location, firmware and the readings a poll brings; configIds, which     *)
(* only decide whether a poll goes on to reassert (either may happen).     *)
(* What a fire pushes to which device is module Firing.                    *)
(***************************************************************************)
EXTENDS Integers, FiniteSets

CONSTANTS
  Ids,          \* device ids; their numeric order stands for localeCompare
  Macs,         \* normalized chip MACs
  Ips,          \* addresses
  Configs,      \* validated configs a user or a schedule pushes
  Groups,       \* outdoor units a user assigns
  Schedules,    \* schedule ids
  OfflineAfter, \* clock ticks an entry stays online after its last contact
  Null,         \* a field without a value
  MaxInFlight   \* bound: polls and commands in flight at a time

ASSUME IdsAssumption == Ids \subseteq Int
ASSUME OfflineAssumption == OfflineAfter \in Nat
ASSUME NullAssumption == Null \notin Ids \cup Macs \cup Ips \cup Configs \cup Groups

VARIABLES
  registry,  \* id -> entry, for the ids the bridge knows
  members,   \* <<s, d>>: schedule s drives device d
  stage,     \* what the poll of an id awaits
  held,      \* the entry object the poll of an id holds once the registry has
             \* dropped it; Null while it is still the registry's own object
  calls      \* <<d, c>>: a command in flight to d, pushing c or a bare proxy

vars == <<registry, members, stage, held, calls>>

\* Time since lastSeen in clock ticks: beyond OfflineAfter the entry is offline
\* and how long ago no longer matters; Never is a null lastSeen.
Aged == OfflineAfter + 1
Never == OfflineAfter + 2

Stages == {"idle", "health", "config", "reassert"}

Entry == [ip : Ips \cup {Null}, mac : Macs \cup {Null}, age : 0..Never,
          orphaned : BOOLEAN, desired : Configs \cup {Null},
          group : Groups \cup {Null}]

\* What a poll still reads of an entry object the registry has dropped.
Snapshot == [mac : Macs \cup {Null}, desired : Configs \cup {Null}]

\* Commands that carry no intent: identify and resend.
Proxy == "proxy"

known == DOMAIN registry

-----------------------------------------------------------------------------
(* Operators on a registry value r. *)

BlankEntry == [ip |-> Null, mac |-> Null, age |-> Never, orphaned |-> FALSE,
               desired |-> Null, group |-> Null]

EntryOf(r, d) == IF d \in DOMAIN r THEN r[d] ELSE BlankEntry

Put(r, d, e) == [x \in DOMAIN r \cup {d} |-> IF x = d THEN e ELSE r[x]]

Drop(r, D) == [x \in DOMAIN r \ D |-> r[x]]

\* An absent field of an update leaves the old value.
OrElse(new, old) == IF new = Null THEN old ELSE new

Online(e) == e.age <= OfflineAfter

\* Variant: the timestamp of a released entry is not a time.
ReleasedBadly(e) == [e EXCEPT !.ip = Null, !.orphaned = TRUE, !.age = Null]

Released(e) == [e EXCEPT !.ip = Null, !.orphaned = TRUE, !.age = Never]

ReleaseIp(r, d) ==
  IF d \in DOMAIN r /\ r[d].ip # Null THEN Put(r, d, Released(r[d])) ELSE r

\* Variant: the oldest claimant keeps the ip.
OldestOutranks(r, o, d) ==
  /\ r[o].ip # Null
  /\ r[o].ip = r[d].ip
  /\ \/ r[o].age > r[d].age
     \/ r[o].age = r[d].age /\ o < d

\* o keeps the ip both claim: it was seen later, or at the same time and its
\* id sorts first.
Outranks(r, o, d) ==
  /\ r[o].ip # Null
  /\ r[o].ip = r[d].ip
  /\ \/ r[o].age < r[d].age
     \/ r[o].age = r[d].age /\ o < d

StaleClaimants(r) == {d \in DOMAIN r : \E o \in DOMAIN r : Outranks(r, o, d)}

ResolveDuplicateIps(r) ==
  [d \in DOMAIN r |-> IF d \in StaleClaimants(r) THEN Released(r[d]) ELSE r[d]]

Contacted(e, ip, mac) ==
  [e EXCEPT !.ip = OrElse(ip, e.ip), !.mac = OrElse(mac, e.mac), !.age = 0,
            !.orphaned = IF OrElse(ip, e.ip) = Null THEN @ ELSE FALSE]

\* Variant: contact does not re-resolve the ip.
TouchUnresolved(r, d, ip, mac) == Put(r, d, Contacted(EntryOf(r, d), ip, mac))

Touch(r, d, ip, mac) ==
  LET touched == Put(r, d, Contacted(EntryOf(r, d), ip, mac))
  IN  IF touched[d].ip = Null THEN touched ELSE ResolveDuplicateIps(touched)

\* Variant: only the ip heuristic guards a known id.
IpConflict(r, d, ip, mac) ==
  /\ d \in DOMAIN r
  /\ ip # Null /\ r[d].ip # Null /\ r[d].ip # ip
  /\ Online(r[d])

\* Variant: a claim without a MAC moves an entry whose chip is known.
BareClaimsPass(r, d, ip, mac) ==
  /\ d \in DOMAIN r
  /\ IF r[d].mac # Null
     THEN mac \notin {Null, r[d].mac}
     ELSE /\ ip # Null /\ r[d].ip # Null /\ r[d].ip # ip
          /\ Online(r[d])

\* Would letting d claim this ip and mac hijack a live device? Two known MACs
\* decide; otherwise a claim that moves an online entry to another ip does.
IdentityConflict(r, d, ip, mac) ==
  /\ d \in DOMAIN r
  /\ IF mac # Null /\ r[d].mac # Null
     THEN r[d].mac # mac
     ELSE /\ ip # Null /\ r[d].ip # Null /\ r[d].ip # ip
          /\ Online(r[d])

\* Variant: the new entry's configuration wins too.
MergedAllNew(from, existing) ==
  [ip       |-> OrElse(existing.ip, from.ip),
   mac      |-> OrElse(existing.mac, from.mac),
   age      |-> IF existing.age = Never THEN from.age ELSE existing.age,
   orphaned |-> existing.orphaned \/ from.orphaned,
   desired  |-> existing.desired,
   group    |-> existing.group]

\* The entry of a rekey onto an existing id: live facts of the existing entry
\* win where it has them, the user's configuration of the old one is kept.
\* orphaned is such a fact, and one that an existing entry only ever adds.
Merged(from, existing) ==
  [ip       |-> OrElse(existing.ip, from.ip),
   mac      |-> OrElse(existing.mac, from.mac),
   age      |-> IF existing.age = Never THEN from.age ELSE existing.age,
   orphaned |-> existing.orphaned \/ from.orphaned,
   desired  |-> from.desired,
   group    |-> from.group]

Rekeyed(r, old, new) ==
  Put(Drop(r, {old}), new,
      IF new \in DOMAIN r THEN Merged(r[old], r[new]) ELSE r[old])

Renamed(M, old, new) ==
  {m \in M : m[2] # old} \cup {<<m[1], new>> : m \in {x \in M : x[2] = old}}

Pruned(M, D) == {m \in M : m[2] \notin D}

-----------------------------------------------------------------------------
(* The polls of a tick, one per id. *)

Captured(d) == IF held[d] = Null THEN registry[d] ELSE held[d]

\* The registry drops the entry objects of D: a poll holding one keeps it.
Detach(D) ==
  held' = [d \in Ids |->
             IF d \in D \cap known /\ stage[d] # "idle" /\ held[d] = Null
             THEN [mac |-> registry[d].mac, desired |-> registry[d].desired]
             ELSE held[d]]

Await(d, s) ==
  /\ stage' = [stage EXCEPT ![d] = s]
  /\ held' = IF s = "idle" THEN [held EXCEPT ![d] = Null] ELSE held

Init ==
  /\ registry = [d \in {} |-> BlankEntry]
  /\ members = {}
  /\ stage = [d \in Ids |-> "idle"]
  /\ held = [d \in Ids |-> Null]
  /\ calls = {}

\* A tick starts only when the polls of the last one are all over.
StartTick ==
  /\ \A d \in Ids : stage[d] = "idle"
  /\ Cardinality(calls) + Cardinality({d \in known : registry[d].ip # Null}) <= MaxInFlight
  /\ registry' = ResolveDuplicateIps(registry)
  /\ stage' = [d \in Ids |-> IF d \in known /\ registry'[d].ip # Null
                             THEN "health" ELSE "idle"]
  /\ UNCHANGED <<members, held, calls>>

\* /health answers with another id, or from another chip than the entry the
\* poll holds: the ip of the entry now under d is stale.
PollFoundStranger(d, id, mac) ==
  /\ stage[d] = "health"
  /\ \/ id \notin {d, Null}
     \/ mac # Null /\ Captured(d).mac # Null /\ Captured(d).mac # mac
  /\ registry' = ReleaseIp(registry, d)
  /\ Await(d, "idle")
  /\ UNCHANGED <<members, calls>>

PollFoundUnit(d, ip, mac) ==
  /\ stage[d] = "health"
  /\ ~(mac # Null /\ Captured(d).mac # Null /\ Captured(d).mac # mac)
  /\ registry' = Touch(registry, d, ip, mac)
  /\ Await(d, "config")
  /\ UNCHANGED <<members, calls>>

\* Variant: an entry whose unit does not answer loses its ip.
PollFailedReleases(d) ==
  /\ stage[d] = "health"
  /\ registry' = ReleaseIp(registry, d)
  /\ Await(d, "idle")
  /\ UNCHANGED <<members, calls>>

PollFailed(d) ==
  /\ stage[d] = "health"
  /\ Await(d, "idle")
  /\ UNCHANGED <<registry, members, calls>>

\* After GET /config, answered or not, the poll ends or goes on to re-push the
\* desired config of the entry it holds. Whether a request of the poll had an ip
\* to go to is left open: the ip may be released after the request has left, and
\* may come back between the two attempts of the push.
AfterConfig(d, next) ==
  /\ stage[d] = "config"
  /\ \/ next = "idle"
     \/ Captured(d).desired # Null
  /\ Await(d, next)
  /\ UNCHANGED <<members, calls>>

PollConfigAnswered(d, next) ==
  /\ AfterConfig(d, next)
  /\ registry' = Put(registry, d, EntryOf(registry, d))

PollConfigFailed(d, next) ==
  /\ AfterConfig(d, next)
  /\ UNCHANGED registry

Reasserted(d) ==
  /\ stage[d] = "reassert"
  /\ registry' = Touch(registry, d, Null, Null)
  /\ Await(d, "idle")
  /\ UNCHANGED <<members, calls>>

ReassertFailed(d) ==
  /\ stage[d] = "reassert"
  /\ Await(d, "idle")
  /\ UNCHANGED <<registry, members, calls>>

PollStep(d) ==
  \/ \E ip \in Ips \cup {Null}, mac \in Macs \cup {Null} : PollFoundUnit(d, ip, mac)
  \/ \E id \in Ids \cup {Null}, mac \in Macs \cup {Null} : PollFoundStranger(d, id, mac)
  \/ PollFailed(d)
  \/ \E next \in {"idle", "reassert"} :
       PollConfigAnswered(d, next) \/ PollConfigFailed(d, next)
  \/ Reasserted(d)
  \/ ReassertFailed(d)

-----------------------------------------------------------------------------
(* What units and mDNS announce. *)

\* The entries a register under an unknown id may adopt: the first one with
\* this chip's MAC (any of them here, the Map's order being left open), else
\* the one under the legacy id, unless it is known to be another chip.
Predecessors(id, mac, legacy) ==
  LET sameChip == {p \in known : mac # Null /\ registry[p].mac = mac}
      named    == {p \in known : p = legacy /\ ( \/ mac = Null
                                                 \/ registry[p].mac \in {Null, mac})}
  IN  IF id \in known THEN {} ELSE IF sameChip # {} THEN sameChip ELSE named

\* Variant: a migration leaves the schedules behind.
RegisterAdoptsEntryOnly(id, ip, mac, legacy) ==
  \E p \in Predecessors(id, mac, legacy) :
    /\ registry' = Touch(Rekeyed(registry, p, id), id, ip, mac)
    /\ Detach({p})
    /\ UNCHANGED <<members, stage, calls>>

RegisterAdopts(id, ip, mac, legacy) ==
  \E p \in Predecessors(id, mac, legacy) :
    /\ registry' = Touch(Rekeyed(registry, p, id), id, ip, mac)
    /\ members' = Renamed(members, p, id)
    /\ Detach({p})
    /\ UNCHANGED <<stage, calls>>

\* Refused with 409 (no change) on a conflict.
RegisterPlain(id, ip, mac, legacy) ==
  /\ Predecessors(id, mac, legacy) = {}
  /\ ~IdentityConflict(registry, id, ip, mac)
  /\ registry' = Touch(registry, id, ip, mac)
  /\ UNCHANGED <<members, stage, held, calls>>

\* Variant: mDNS is not guarded.
AdvertisedUnguarded(id, ip, mac) ==
  /\ registry' = Touch(registry, id, ip, mac)
  /\ UNCHANGED <<members, stage, held, calls>>

Advertised(id, ip, mac) ==
  /\ ~IdentityConflict(registry, id, ip, mac)
  /\ registry' = Touch(registry, id, ip, mac)
  /\ UNCHANGED <<members, stage, held, calls>>

Observed(id) ==
  /\ registry' = Touch(registry, id, Null, Null)
  /\ UNCHANGED <<members, stage, held, calls>>

UnitStep ==
  \/ \E id \in Ids, ip \in Ips \cup {Null}, mac \in Macs \cup {Null} :
       \/ \E legacy \in Ids \cup {Null} : \/ RegisterAdopts(id, ip, mac, legacy)
                                          \/ RegisterPlain(id, ip, mac, legacy)
       \/ Advertised(id, ip, mac)
  \/ \E id \in Ids : Observed(id)

-----------------------------------------------------------------------------
(* What users do, and commands (a schedule's fire pushes configs like one). *)

DeleteDevice(d) ==
  /\ d \in known
  /\ registry' = Drop(registry, {d})
  /\ members' = Pruned(members, {d})
  /\ Detach({d})
  /\ UNCHANGED <<stage, calls>>

Dedupe ==
  /\ registry' = Drop(registry, StaleClaimants(registry))
  /\ members' = Pruned(members, StaleClaimants(registry))
  /\ Detach(StaleClaimants(registry))
  /\ UNCHANGED <<stage, calls>>

RekeyDevice(d, new) ==
  /\ d \in known /\ new # d
  /\ ~ /\ new \in known
       /\ registry[new].mac # Null /\ registry[d].mac # Null
       /\ registry[new].mac # registry[d].mac
  /\ registry' = Rekeyed(registry, d, new)
  /\ members' = Renamed(members, d, new)
  /\ Detach({d, new})
  /\ UNCHANGED <<stage, calls>>

SetOutdoorUnit(d, g) ==
  /\ d \in known
  /\ registry' = [registry EXCEPT ![d].group = g]
  /\ UNCHANGED <<members, stage, held, calls>>

PutSchedule(s, D) ==
  /\ members' = {m \in members : m[1] # s} \cup ({s} \X D)
  /\ UNCHANGED <<registry, stage, held, calls>>

DeleteSchedule(s) ==
  /\ members' = {m \in members : m[1] # s}
  /\ UNCHANGED <<registry, stage, held, calls>>

\* A command to an entry without an ip fails at once and changes nothing here;
\* a second attempt that finds an ip meanwhile is a command sent later.
SendCommand(d, c) ==
  /\ d \in known /\ registry[d].ip # Null
  /\ <<d, c>> \notin calls
  /\ Cardinality(calls) + Cardinality({p \in Ids : stage[p] # "idle"}) < MaxInFlight
  /\ calls' = calls \cup {<<d, c>>}
  /\ UNCHANGED <<registry, members, stage, held>>

\* A fire turns off a sibling that was removed after it was listed: the start of
\* the command brings the id back, and the request leaves if the dropped entry
\* had an ip. Which ones a fire has listed is left open.
SendToRemoved(d, c) ==
  /\ d \notin known
  /\ <<d, c>> \notin calls
  /\ Cardinality(calls) + Cardinality({p \in Ids : stage[p] # "idle"}) < MaxInFlight
  /\ registry' = Put(registry, d, BlankEntry)
  /\ calls' \in {calls, calls \cup {<<d, c>>}}
  /\ UNCHANGED <<members, stage, held>>

ConfigPushed(d, c) ==
  /\ <<d, c>> \in calls
  /\ registry' = Touch(Put(registry, d, [EntryOf(registry, d) EXCEPT !.desired = c]),
                       d, Null, Null)
  /\ calls' = calls \ {<<d, c>>}
  /\ UNCHANGED <<members, stage, held>>

ProxyAnswered(d) ==
  /\ <<d, Proxy>> \in calls
  /\ registry' = Touch(registry, d, Null, Null)
  /\ calls' = calls \ {<<d, Proxy>>}
  /\ UNCHANGED <<members, stage, held>>

CommandFailed(d, c) ==
  /\ <<d, c>> \in calls
  /\ calls' = calls \ {<<d, c>>}
  /\ UNCHANGED <<registry, members, stage, held>>

UserStep ==
  \/ \E d \in Ids :
       \/ DeleteDevice(d)
       \/ \E new \in Ids : RekeyDevice(d, new)
       \/ \E g \in Groups \cup {Null} : SetOutdoorUnit(d, g)
       \/ \E c \in Configs : ConfigPushed(d, c)
  \/ Dedupe
  \/ \E s \in Schedules : \/ \E D \in SUBSET Ids : PutSchedule(s, D)
                          \/ DeleteSchedule(s)

CommandStep ==
  \E d \in Ids :
    \/ ProxyAnswered(d)
    \/ \E c \in Configs \cup {Proxy} : SendCommand(d, c) \/ CommandFailed(d, c)
    \/ \E c \in Configs : SendToRemoved(d, c)

ClockTick ==
  /\ registry' = [d \in known |->
                    [registry[d] EXCEPT !.age = IF @ < Aged THEN @ + 1 ELSE @]]
  /\ UNCHANGED <<members, stage, held, calls>>

Next ==
  \/ StartTick
  \/ \E d \in Ids : PollStep(d)
  \/ UnitStep
  \/ UserStep
  \/ CommandStep
  \/ ClockTick

Spec == Init /\ [][Next]_vars
-----------------------------------------------------------------------------
(* Properties. *)

TypeOK ==
  /\ known \subseteq Ids
  /\ registry \in [known -> Entry]
  /\ members \subseteq Schedules \X Ids
  /\ stage \in [Ids -> Stages]
  /\ held \in [Ids -> Snapshot \cup {Null}]
  /\ calls \subseteq Ids \X (Configs \cup {Proxy})

\* No two entries point at one ip, whatever registers, advertises, polls,
\* rekeys and late answers do (touch and resolveDuplicateIps, store.js): the
\* bridge never polls or commands one unit under two ids.
UniqueIp ==
  \A d, o \in known :
    registry[d].ip # Null /\ registry[d].ip = registry[o].ip => d = o

\* Nothing the bridge infers loses what the user configured (store.js
\* releaseIp, resolveDuplicateIps; register's migration): outside the user's
\* own steps every known device keeps its desired config, its outdoor unit and
\* its schedules under its id, or one device carries all of them to a new id.
Keeps(d, n) ==
  /\ registry'[n].desired = registry[d].desired
  /\ registry'[n].group = registry[d].group

AutomaticStepsKeepIntent ==
  [][ ~UserStep =>
        \/ /\ members' = members
           /\ \A d \in known : d \in known' /\ Keeps(d, d)
        \/ \E old \in known, new \in Ids \ known :
             /\ known' = (known \ {old}) \cup {new}
             /\ Keeps(old, new)
             /\ \A d \in known \ {old} : Keeps(d, d)
             /\ members' = Renamed(members, old, new) ]_vars

\* A known chip MAC is not overwritten by another chip's: every inbound claim
\* and poll answer is checked against it (identityConflict, pollOne). The one
\* exception is a poll holding an entry object the registry has since dropped:
\* it is checked against that object and written to the id's new entry.
ChipKeepsItsId ==
  [][ \A d \in known \cap known' :
        registry[d].mac \notin {Null, registry'[d].mac} => held[d] # Null ]_vars

\* The step is a claim of d with this ip and chip, by mDNS or by a register.
Claims(d, ip, mac) ==
  \/ Advertised(d, ip, mac)
  \/ \E legacy \in Ids \cup {Null} : RegisterPlain(d, ip, mac, legacy)

OwnPollAnswered(d, ip) == \E mac \in Macs \cup {Null} : PollFoundUnit(d, ip, mac)

\* An online entry is moved to another ip only by a claim carrying its own chip
\* MAC or by the answer of its poll (identityConflict, rekeyEntry): a unit flashed
\* with a borrowed id, or a rekey onto it, cannot take a live device's commands,
\* nor can a claim that names no chip, whether or not the entry's is known.
OnlineEntryIsNotHijacked ==
  [][ \A d \in known \cap known' :
        /\ Online(registry[d]) /\ registry[d].ip # Null
        /\ registry'[d].ip \notin {Null, registry[d].ip}
        => \/ OwnPollAnswered(d, registry'[d].ip)
           \/ /\ registry[d].mac # Null
              /\ {mac \in Macs \cup {Null} : Claims(d, registry'[d].ip, mac)}
                   = {registry[d].mac} ]_vars

\* The poll of d ends having met a stranger, and not for want of an answer.
MetStranger(d) ==
  /\ ~PollFailed(d)
  /\ \E id \in Ids \cup {Null}, mac \in Macs \cup {Null} : PollFoundStranger(d, id, mac)
  /\ \A id \in Ids \cup {Null}, mac \in Macs \cup {Null} :
       PollFoundStranger(d, id, mac) => \/ id \notin {d, Null}
                                        \/ /\ Null \notin {mac, Captured(d).mac}
                                           /\ mac # Captured(d).mac

\* The step is a contact of d at this ip.
ContactAt(d, ip) ==
  \/ OwnPollAnswered(d, ip)
  \/ \E mac \in Macs \cup {Null} : Claims(d, ip, mac)

\* o has just been contacted at the ip of d.
LostTo(d, o) == registry'[o].ip = registry[d].ip /\ registry'[o].age = 0

\* d moved to the ip of o, which was contacted at the same moment of the clock
\* and has the smaller id: o keeps its ip, and d has none.
LostATie(d, o) ==
  /\ o < d
  /\ registry[o].ip # Null /\ registry[o].age = 0
  /\ registry'[o] = registry[o]
  /\ ContactAt(d, registry[o].ip)

\* An entry loses its ip only on evidence: another entry has just been contacted
\* there, or a poll of it met a stranger (releaseIp's two callers), or it lost a
\* tie for the ip it moved to.
IpReleasedOnEvidence ==
  [][ \A d \in known \cap known' :
        registry[d].ip # Null /\ registry'[d].ip = Null
        => \/ \E o \in known' : LostTo(d, o)
           \/ \E o \in known \cap known' : LostATie(d, o)
           \/ MetStranger(d) ]_vars

\* README.md "Migrating to chip-derived ids": a chip that comes back under a new
\* id is migrated on its register, not stranded. So no register leaves another
\* entry with this chip's MAC and a desired config behind, also when mDNS
\* announced the new id first (server.js migrates only onto an unknown id).
RegisteredChipIsMigrated ==
  [][ \A id \in Ids, ip \in Ips \cup {Null}, mac \in Macs, legacy \in Ids \cup {Null} :
        /\ RegisterPlain(id, ip, mac, legacy)
        /\ id \in known => registry[id].mac = mac
        => ~ \E p \in known \ {id} : registry[p].mac = mac /\ registry[p].desired # Null
    ]_vars

\* rekeyEntry: "live facts from that entry win", where the new id is already known
\* and its unit online. So where the merged device is, when it was seen and whether
\* an ip was taken from it are what the live entry says.
Where(e) == <<e.ip, e.age, e.orphaned>>

LiveFactsWin ==
  [][ \A d, new \in Ids :
        /\ RekeyDevice(d, new)
        /\ new \in known /\ Online(registry[new]) /\ registry[new].ip # Null
        => Where(registry'[new]) = Where(registry[new]) ]_vars

\* What the user configured, read off the entries.
Intent == [d \in known |-> [desired |-> registry[d].desired, group |-> registry[d].group]]

Dir == INSTANCE Directory WITH intent <- Intent

\* The registry keeps the promises of Directory: every handler, whatever calls
\* are in flight, changes the user's configuration and the schedules' devices
\* by at most one of its steps. Dedupe is none of them: it finds nothing stale.
ImplementsDirectory == Dir!Spec
=============================================================================
