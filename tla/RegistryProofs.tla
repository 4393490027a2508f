--------------------------- MODULE RegistryProofs ---------------------------
(***************************************************************************)
(* Theorems about Registry for every set of ids, addresses and chips.      *)
(* The first part says what the operators of store.js return, the second   *)
(* is one step per action.                                                 *)
(***************************************************************************)
EXTENDS Registry, TLAPS

\* A registry value: known ids, each with a well-formed entry.
IsRegistry(r) == DOMAIN r \subseteq Ids /\ r \in [DOMAIN r -> Entry]

\* UniqueIp of a registry value.
Distinct(r) ==
  \A d, o \in DOMAIN r : r[d].ip # Null /\ r[d].ip = r[o].ip => d = o

-----------------------------------------------------------------------------

\* The record a blank or known id has is an entry.
LEMMA EntryOfType ==
  ASSUME NEW r, IsRegistry(r), NEW d \in Ids
  PROVE  EntryOf(r, d) \in Entry
BY OfflineAssumption DEF IsRegistry, EntryOf, Entry, BlankEntry, Never

\* Writing an entry keeps a registry value well formed.
LEMMA PutType ==
  ASSUME NEW r, IsRegistry(r), NEW d \in Ids, NEW e \in Entry
  PROVE  IsRegistry(Put(r, d, e))
BY DEF IsRegistry, Put

\* So does dropping entries.
LEMMA DropType ==
  ASSUME NEW r, IsRegistry(r), NEW D
  PROVE  /\ IsRegistry(Drop(r, D))
         /\ DOMAIN Drop(r, D) = DOMAIN r \ D
         /\ \A x \in DOMAIN r \ D : Drop(r, D)[x] = r[x]
BY DEF IsRegistry, Drop

\* Releasing an ip keeps an entry well formed and leaves it without one.
LEMMA ReleasedType ==
  ASSUME NEW e \in Entry
  PROVE  /\ Released(e) \in Entry
         /\ Released(e).ip = Null
         /\ Released(e).desired = e.desired
         /\ Released(e).group = e.group
<1>1. Never \in 0..Never
  BY OfflineAssumption DEF Never
<1> QED BY <1>1 DEF Released, Entry

\* resolveDuplicateIps keeps every id and leaves every ip to one of them.
LEMMA ResolveIsDistinct ==
  ASSUME NEW r, IsRegistry(r)
  PROVE  /\ IsRegistry(ResolveDuplicateIps(r))
         /\ DOMAIN ResolveDuplicateIps(r) = DOMAIN r
         /\ Distinct(ResolveDuplicateIps(r))
         /\ \A x \in DOMAIN r : /\ ResolveDuplicateIps(r)[x].desired = r[x].desired
                                /\ ResolveDuplicateIps(r)[x].group = r[x].group
<1> DEFINE q == ResolveDuplicateIps(r)
<1>1. DOMAIN q = DOMAIN r
  BY DEF ResolveDuplicateIps
<1>2. \A x \in DOMAIN r : q[x] = IF x \in StaleClaimants(r) THEN Released(r[x]) ELSE r[x]
  BY DEF ResolveDuplicateIps
<1>3. \A x \in DOMAIN r : r[x] \in Entry
  BY DEF IsRegistry
<1>4. \A x \in DOMAIN r : /\ q[x] \in Entry
                          /\ q[x].desired = r[x].desired
                          /\ q[x].group = r[x].group
                          /\ x \in StaleClaimants(r) => q[x].ip = Null
                          /\ x \notin StaleClaimants(r) => q[x].ip = r[x].ip
  BY <1>2, <1>3, ReleasedType
<1>5. IsRegistry(q)
  BY <1>1, <1>4 DEF IsRegistry, ResolveDuplicateIps
<1>6. ASSUME NEW d \in DOMAIN r, NEW o \in DOMAIN r,
             q[d].ip # Null, q[d].ip = q[o].ip
      PROVE  d = o
  <2>1. /\ d \notin StaleClaimants(r) /\ o \notin StaleClaimants(r)
        /\ r[d].ip # Null /\ r[d].ip = r[o].ip
    BY <1>4, <1>6
  <2>2. ~Outranks(r, o, d) /\ ~Outranks(r, d, o)
    BY <2>1 DEF StaleClaimants
  <2>3. r[d].age \in Int /\ r[o].age \in Int /\ d \in Int /\ o \in Int
    BY <1>3, IdsAssumption, OfflineAssumption DEF IsRegistry, Entry, Never
  <2> QED BY <2>1, <2>2, <2>3 DEF Outranks
<1> QED BY <1>1, <1>4, <1>5, <1>6 DEF Distinct

\* An absent field keeps an entry well formed, and so does contact.
LEMMA ContactedType ==
  ASSUME NEW e \in Entry, NEW ip \in Ips \cup {Null}, NEW mac \in Macs \cup {Null}
  PROVE  /\ Contacted(e, ip, mac) \in Entry
         /\ Contacted(e, ip, mac).desired = e.desired
         /\ Contacted(e, ip, mac).group = e.group
<1>1. 0 \in 0..Never
  BY OfflineAssumption DEF Never
<1>2. OrElse(ip, e.ip) \in Ips \cup {Null} /\ OrElse(mac, e.mac) \in Macs \cup {Null}
  BY DEF OrElse, Entry
<1>3. e.orphaned \in BOOLEAN
  BY DEF Entry
<1> QED BY <1>1, <1>2, <1>3 DEF Contacted, Entry

\* touch adds at most the touched id, changes nobody's configuration and, from
\* a registry without shared ips, leaves none.
LEMMA TouchIsDistinct ==
  ASSUME NEW r, IsRegistry(r), Distinct(r), NEW d \in Ids,
         NEW ip \in Ips \cup {Null}, NEW mac \in Macs \cup {Null}
  PROVE  /\ IsRegistry(Touch(r, d, ip, mac))
         /\ DOMAIN Touch(r, d, ip, mac) = DOMAIN r \cup {d}
         /\ Distinct(Touch(r, d, ip, mac))
         /\ \A x \in DOMAIN r \cup {d} :
              /\ Touch(r, d, ip, mac)[x].desired = EntryOf(r, x).desired
              /\ Touch(r, d, ip, mac)[x].group = EntryOf(r, x).group
<1> DEFINE e == Contacted(EntryOf(r, d), ip, mac)
           t == Put(r, d, e)
<1>1. EntryOf(r, d) \in Entry
  BY EntryOfType
<1>2. /\ e \in Entry
      /\ e.desired = EntryOf(r, d).desired /\ e.group = EntryOf(r, d).group
  BY <1>1, ContactedType
<1> HIDE DEF e
<1>3. /\ IsRegistry(t) /\ DOMAIN t = DOMAIN r \cup {d}
      /\ t[d] = e /\ \A x \in DOMAIN r \ {d} : t[x] = r[x]
  <2>1. IsRegistry(Put(r, d, e))
    BY <1>2, PutType
  <2>2. DOMAIN Put(r, d, e) = DOMAIN r \cup {d} /\ Put(r, d, e)[d] = e
    BY DEF Put
  <2>3. \A x \in DOMAIN r \ {d} : Put(r, d, e)[x] = r[x]
    BY DEF Put
  <2> QED BY <2>1, <2>2, <2>3 DEF t
<1>4. \A x \in DOMAIN r \cup {d} : /\ t[x].desired = EntryOf(r, x).desired
                                   /\ t[x].group = EntryOf(r, x).group
  BY <1>2, <1>3 DEF EntryOf
<1>5. Touch(r, d, ip, mac) = IF t[d].ip = Null THEN t ELSE ResolveDuplicateIps(t)
  BY DEF Touch, e
<1>6. CASE t[d].ip = Null
  <2>1. Distinct(t)
    BY <1>3, <1>6 DEF Distinct
  <2> QED BY <1>3, <1>4, <1>5, <1>6, <2>1
<1>7. CASE t[d].ip # Null
  <2>1. /\ IsRegistry(ResolveDuplicateIps(t))
        /\ DOMAIN ResolveDuplicateIps(t) = DOMAIN t
        /\ Distinct(ResolveDuplicateIps(t))
        /\ \A x \in DOMAIN t : /\ ResolveDuplicateIps(t)[x].desired = t[x].desired
                               /\ ResolveDuplicateIps(t)[x].group = t[x].group
    BY <1>3, ResolveIsDistinct
  <2> QED BY <1>3, <1>4, <1>5, <1>7, <2>1
<1> QED BY <1>6, <1>7

\* releaseIp only ever takes an ip away.
LEMMA ReleaseIpIsDistinct ==
  ASSUME NEW r, IsRegistry(r), Distinct(r), NEW d \in Ids
  PROVE  /\ IsRegistry(ReleaseIp(r, d))
         /\ DOMAIN ReleaseIp(r, d) = DOMAIN r
         /\ Distinct(ReleaseIp(r, d))
         /\ \A x \in DOMAIN r : /\ ReleaseIp(r, d)[x].desired = r[x].desired
                                /\ ReleaseIp(r, d)[x].group = r[x].group
<1>1. CASE d \in DOMAIN r /\ r[d].ip # Null
  <2>1. r[d] \in Entry
    BY <1>1 DEF IsRegistry
  <2> DEFINE e == Released(r[d])
  <2>2. /\ e \in Entry /\ e.ip = Null
        /\ e.desired = r[d].desired /\ e.group = r[d].group
    BY <2>1, ReleasedType
  <2>3. ReleaseIp(r, d) = Put(r, d, e)
    BY <1>1 DEF ReleaseIp
  <2> HIDE DEF e
  <2>4. IsRegistry(Put(r, d, e))
    BY <2>2, PutType
  <2>5. DOMAIN Put(r, d, e) = DOMAIN r
    BY <1>1 DEF Put
  <2>6. \A x \in DOMAIN r : Put(r, d, e)[x] = IF x = d THEN e ELSE r[x]
    BY DEF Put
  <2>7. Distinct(Put(r, d, e))
    BY <2>2, <2>5, <2>6 DEF Distinct
  <2> QED BY <2>2, <2>3, <2>4, <2>5, <2>6, <2>7
<1>2. CASE ~(d \in DOMAIN r /\ r[d].ip # Null)
  BY <1>2 DEF ReleaseIp
<1> QED BY <1>1, <1>2

\* Two entries of one device merge into an entry with the ip of one of them and
\* the user's configuration of the first.
LEMMA MergedType ==
  ASSUME NEW from \in Entry, NEW existing \in Entry
  PROVE  /\ Merged(from, existing) \in Entry
         /\ Merged(from, existing).ip \in {from.ip, existing.ip}
         /\ Merged(from, existing).desired = from.desired
         /\ Merged(from, existing).group = from.group
<1>1. (existing.orphaned \/ from.orphaned) \in BOOLEAN
  OBVIOUS
<1>2. /\ OrElse(existing.ip, from.ip) \in Ips \cup {Null}
      /\ OrElse(existing.ip, from.ip) \in {from.ip, existing.ip}
      /\ OrElse(existing.mac, from.mac) \in Macs \cup {Null}
  BY DEF OrElse, Entry
<1>3. (IF existing.age = Never THEN from.age ELSE existing.age) \in 0..Never
  BY DEF Entry
<1>4. from.desired \in Configs \cup {Null} /\ from.group \in Groups \cup {Null}
  BY DEF Entry
<1> QED BY <1>1, <1>2, <1>3, <1>4 DEF Merged, Entry

\* s is r with the entry of old, and what the user configured for it, at new.
Moves(r, s, old, new) ==
  /\ DOMAIN s = (DOMAIN r \ {old}) \cup {new}
  /\ s[new].desired = r[old].desired /\ s[new].group = r[old].group
  /\ \A x \in DOMAIN r \ {old, new} : s[x] = r[x]

\* A rekey moves one entry and leaves every ip to one id.
LEMMA RekeyedIsDistinct ==
  ASSUME NEW r, IsRegistry(r), Distinct(r),
         NEW old \in DOMAIN r, NEW new \in Ids, new # old
  PROVE  /\ IsRegistry(Rekeyed(r, old, new))
         /\ Distinct(Rekeyed(r, old, new))
         /\ Moves(r, Rekeyed(r, old, new), old, new)
<1> DEFINE e == IF new \in DOMAIN r THEN Merged(r[old], r[new]) ELSE r[old]
           s == Drop(r, {old})
<1>1. /\ IsRegistry(s) /\ DOMAIN s = DOMAIN r \ {old}
      /\ \A x \in DOMAIN r \ {old} : s[x] = r[x]
  BY DropType
<1>2. r[old] \in Entry /\ (new \in DOMAIN r => r[new] \in Entry)
  BY DEF IsRegistry
<1>3. /\ e \in Entry /\ e.desired = r[old].desired /\ e.group = r[old].group
      /\ \/ e.ip = r[old].ip
         \/ new \in DOMAIN r /\ e.ip = r[new].ip
  BY <1>2, MergedType
<1>4. Rekeyed(r, old, new) = Put(s, new, e)
  BY DEF Rekeyed
<1> HIDE DEF e, s
<1>5. IsRegistry(Put(s, new, e))
  BY <1>1, <1>3, PutType
<1>6. DOMAIN Put(s, new, e) = DOMAIN s \cup {new}
  BY DEF Put
<1>7. \A x \in DOMAIN s \cup {new} : Put(s, new, e)[x] = IF x = new THEN e ELSE s[x]
  BY DEF Put
<1>8. Distinct(Put(s, new, e))
  <2>1. ASSUME NEW x \in DOMAIN r \ {old, new}, e.ip # Null
        PROVE  r[x].ip # e.ip
    BY <1>3, <2>1 DEF Distinct
  <2>2. \A x \in DOMAIN r \ {old, new} : Put(s, new, e)[x] = r[x]
    BY <1>1, <1>7
  <2>3. DOMAIN Put(s, new, e) = (DOMAIN r \ {old, new}) \cup {new}
    BY <1>1, <1>6
  <2>4. Put(s, new, e)[new] = e
    BY <1>7
  <2> QED BY <2>1, <2>2, <2>3, <2>4 DEF Distinct
<1>9. Moves(r, Put(s, new, e), old, new)
  <2>1. \A x \in DOMAIN r \ {old, new} : Put(s, new, e)[x] = r[x]
    BY <1>1, <1>7
  <2> QED BY <1>1, <1>3, <1>6, <1>7, <2>1 DEF Moves
<1> QED BY <1>4, <1>5, <1>8, <1>9

\* Dropping entries leaves every remaining ip to one id.
LEMMA DropIsDistinct ==
  ASSUME NEW r, IsRegistry(r), Distinct(r), NEW D
  PROVE  IsRegistry(Drop(r, D)) /\ Distinct(Drop(r, D))
<1>1. /\ IsRegistry(Drop(r, D)) /\ DOMAIN Drop(r, D) = DOMAIN r \ D
      /\ \A x \in DOMAIN r \ D : Drop(r, D)[x] = r[x]
  BY DropType
<1>2. Distinct(Drop(r, D))
  BY <1>1 DEF Distinct
<1> QED BY <1>1, <1>2

-----------------------------------------------------------------------------
(* The invariant and its steps. *)

Inv == TypeOK /\ UniqueIp

RegistryInv == IsRegistry(registry) /\ Distinct(registry)

\* The same of the registry, which is what the rekeys of the program work on.
LEMMA RegistryRekeyed ==
  ASSUME RegistryInv, NEW old \in known, NEW new \in Ids, new # old
  PROVE  /\ IsRegistry(Rekeyed(registry, old, new))
         /\ Distinct(Rekeyed(registry, old, new))
         /\ Moves(registry, Rekeyed(registry, old, new), old, new)
<1>1. IsRegistry(registry) /\ Distinct(registry) /\ old \in DOMAIN registry
  BY DEF RegistryInv, known
<1> QED BY <1>1, RekeyedIsDistinct

RestType ==
  /\ members \subseteq Schedules \X Ids
  /\ stage \in [Ids -> Stages]
  /\ held \in [Ids -> Snapshot \cup {Null}]
  /\ calls \subseteq Ids \X (Configs \cup {Proxy})

LEMMA InvForm == Inv <=> RegistryInv /\ RestType
BY DEF Inv, TypeOK, UniqueIp, RegistryInv, RestType, IsRegistry, Distinct, known

LEMMA InitInv == Init => Inv
<1> SUFFICES ASSUME Init PROVE RegistryInv /\ RestType
  BY InvForm
<1>1. DOMAIN registry = {} /\ registry = [d \in {} |-> BlankEntry]
  BY DEF Init
<1>2. RegistryInv
  BY <1>1 DEF RegistryInv, IsRegistry, Distinct
<1>3. RestType
  BY DEF Init, RestType, Stages
<1> QED BY <1>2, <1>3

\* What a poll reads of an entry is well formed, and so is what it awaits.
LEMMA DetachType ==
  ASSUME RegistryInv, RestType, NEW D, Detach(D)
  PROVE  held' \in [Ids -> Snapshot \cup {Null}]
<1>1. \A d \in known :
        [mac |-> registry[d].mac, desired |-> registry[d].desired] \in Snapshot
  BY DEF RegistryInv, IsRegistry, known, Entry, Snapshot
<1>2. \A d \in Ids : held[d] \in Snapshot \cup {Null}
  BY DEF RestType
<1> QED BY <1>1, <1>2 DEF Detach

LEMMA AwaitType ==
  ASSUME RestType, NEW d \in Ids, NEW s \in Stages, Await(d, s)
  PROVE  /\ stage' \in [Ids -> Stages]
         /\ held' \in [Ids -> Snapshot \cup {Null}]
BY DEF RestType, Await

\* Schedules name ids only, also after a rename or a prune.
LEMMA MembersType ==
  ASSUME NEW M, M \subseteq Schedules \X Ids, NEW old, NEW new \in Ids, NEW D
  PROVE  /\ Renamed(M, old, new) \subseteq Schedules \X Ids
         /\ Pruned(M, D) \subseteq Schedules \X Ids
BY DEF Renamed, Pruned

LEMMA PollStepInv ==
  ASSUME RegistryInv, RestType, NEW d \in Ids, PollStep(d)
  PROVE  RegistryInv' /\ RestType'
<1>1. ASSUME NEW ip \in Ips \cup {Null}, NEW mac \in Macs \cup {Null},
             PollFoundUnit(d, ip, mac)
      PROVE  RegistryInv' /\ RestType'
  <2>1. RegistryInv'
    BY <1>1, TouchIsDistinct DEF PollFoundUnit, RegistryInv
  <2>2. RestType'
    BY <1>1, AwaitType DEF PollFoundUnit, RestType, Stages
  <2> QED BY <2>1, <2>2
<1>2. ASSUME NEW id \in Ids \cup {Null}, NEW mac \in Macs \cup {Null},
             PollFoundStranger(d, id, mac)
      PROVE  RegistryInv' /\ RestType'
  <2>1. RegistryInv'
    BY <1>2, ReleaseIpIsDistinct DEF PollFoundStranger, RegistryInv
  <2>2. RestType'
    BY <1>2, AwaitType DEF PollFoundStranger, RestType, Stages
  <2> QED BY <2>1, <2>2
<1>3. CASE PollFailed(d)
  BY <1>3, AwaitType DEF PollFailed, RegistryInv, RestType, Stages
<1>4. ASSUME NEW next \in {"idle", "reassert"}, PollConfigAnswered(d, next)
      PROVE  RegistryInv' /\ RestType'
  <2>1. EntryOf(registry, d) \in Entry
    BY EntryOfType DEF RegistryInv
  <2>2. IsRegistry(registry')
    BY <1>4, <2>1, PutType DEF PollConfigAnswered, RegistryInv
  <2>3. Distinct(registry')
    BY <1>4 DEF PollConfigAnswered, RegistryInv, Distinct, Put, EntryOf, BlankEntry
  <2>4. RestType'
    BY <1>4, AwaitType DEF PollConfigAnswered, AfterConfig, RestType, Stages
  <2> QED BY <2>2, <2>3, <2>4 DEF RegistryInv
<1>5. ASSUME NEW next \in {"idle", "reassert"}, PollConfigFailed(d, next)
      PROVE  RegistryInv' /\ RestType'
  BY <1>5, AwaitType DEF PollConfigFailed, AfterConfig, RegistryInv, RestType, Stages
<1>6. CASE Reasserted(d)
  <2>1. RegistryInv'
    BY <1>6, TouchIsDistinct DEF Reasserted, RegistryInv
  <2>2. RestType'
    BY <1>6, AwaitType DEF Reasserted, RestType, Stages
  <2> QED BY <2>1, <2>2
<1>7. CASE ReassertFailed(d)
  BY <1>7, AwaitType DEF ReassertFailed, RegistryInv, RestType, Stages
<1> QED BY <1>1, <1>2, <1>3, <1>4, <1>5, <1>6, <1>7 DEF PollStep

LEMMA UnitStepInv ==
  ASSUME RegistryInv, RestType, UnitStep
  PROVE  RegistryInv' /\ RestType'
<1>1. ASSUME NEW id \in Ids, NEW ip \in Ips \cup {Null}, NEW mac \in Macs \cup {Null},
             NEW legacy \in Ids \cup {Null}, RegisterAdopts(id, ip, mac, legacy)
      PROVE  RegistryInv' /\ RestType'
  <2>1. PICK p \in Predecessors(id, mac, legacy) :
          /\ registry' = Touch(Rekeyed(registry, p, id), id, ip, mac)
          /\ members' = Renamed(members, p, id)
          /\ Detach({p})
          /\ UNCHANGED <<stage, calls>>
    BY <1>1, Zenon DEF RegisterAdopts
  <2>2. p \in known /\ p # id
    BY DEF Predecessors
  <2>3. IsRegistry(Rekeyed(registry, p, id)) /\ Distinct(Rekeyed(registry, p, id))
    BY <2>2, RegistryRekeyed
  <2>4. RegistryInv'
    BY <2>1, <2>3, TouchIsDistinct DEF RegistryInv
  <2>5. held' \in [Ids -> Snapshot \cup {Null}]
    BY <2>1, DetachType
  <2>6. members' \subseteq Schedules \X Ids
    BY <2>1, MembersType DEF RestType
  <2> QED BY <2>1, <2>4, <2>5, <2>6 DEF RestType
<1>2. ASSUME NEW id \in Ids, NEW ip \in Ips \cup {Null}, NEW mac \in Macs \cup {Null},
             NEW legacy, RegisterPlain(id, ip, mac, legacy) \/ Advertised(id, ip, mac)
      PROVE  RegistryInv' /\ RestType'
  <2>1. /\ registry' = Touch(registry, id, ip, mac)
        /\ UNCHANGED <<members, stage, held, calls>>
    BY <1>2 DEF RegisterPlain, Advertised
  <2>2. IsRegistry(registry') /\ Distinct(registry')
    BY <2>1, TouchIsDistinct DEF RegistryInv
  <2> QED BY <2>1, <2>2 DEF RegistryInv, RestType
<1>3. ASSUME NEW id \in Ids, Observed(id)
      PROVE  RegistryInv' /\ RestType'
  BY <1>3, TouchIsDistinct DEF Observed, RegistryInv, RestType
<1> QED BY <1>1, <1>2, <1>3 DEF UnitStep

LEMMA ConfigPushedInv ==
  ASSUME RegistryInv, RestType, NEW d \in Ids, NEW c \in Configs, ConfigPushed(d, c)
  PROVE  RegistryInv' /\ RestType'
<1> DEFINE e == [EntryOf(registry, d) EXCEPT !.desired = c]
           r == Put(registry, d, e)
<1>1. EntryOf(registry, d) \in Entry
  BY EntryOfType DEF RegistryInv
<1>2. e \in Entry /\ e.ip = EntryOf(registry, d).ip
  BY <1>1 DEF Entry
<1>3. registry' = Touch(r, d, Null, Null) /\ calls' \subseteq calls
      /\ UNCHANGED <<members, stage, held>>
  BY DEF ConfigPushed
<1> HIDE DEF e
<1>4. IsRegistry(r)
  BY <1>2, PutType DEF RegistryInv
<1>5. Distinct(r)
  BY <1>2 DEF RegistryInv, Distinct, Put, EntryOf, BlankEntry
<1> HIDE DEF r
<1>6. IsRegistry(registry') /\ Distinct(registry')
  BY <1>3, <1>4, <1>5, TouchIsDistinct
<1> QED BY <1>3, <1>6 DEF RegistryInv, RestType

LEMMA UserStepInv ==
  ASSUME RegistryInv, RestType, UserStep
  PROVE  RegistryInv' /\ RestType'
<1>1. ASSUME NEW d \in Ids, DeleteDevice(d)
      PROVE  RegistryInv' /\ RestType'
  <2>1. RegistryInv'
    BY <1>1, DropIsDistinct DEF DeleteDevice, RegistryInv
  <2>2. held' \in [Ids -> Snapshot \cup {Null}]
    BY <1>1, DetachType DEF DeleteDevice
  <2>3. members' \subseteq Schedules \X Ids
    BY <1>1 DEF DeleteDevice, Pruned, RestType
  <2> QED BY <1>1, <2>1, <2>2, <2>3 DEF DeleteDevice, RestType
<1>2. ASSUME NEW d \in Ids, NEW new \in Ids, RekeyDevice(d, new)
      PROVE  RegistryInv' /\ RestType'
  <2>1. RegistryInv'
    BY <1>2, RegistryRekeyed DEF RekeyDevice, RegistryInv
  <2>2. held' \in [Ids -> Snapshot \cup {Null}]
    BY <1>2, DetachType DEF RekeyDevice
  <2>3. members' \subseteq Schedules \X Ids
    BY <1>2, MembersType DEF RekeyDevice, RestType
  <2> QED BY <1>2, <2>1, <2>2, <2>3 DEF RekeyDevice, RestType
<1>3. ASSUME NEW d \in Ids, NEW g \in Groups \cup {Null}, SetOutdoorUnit(d, g)
      PROVE  RegistryInv' /\ RestType'
  <2>1. /\ DOMAIN registry' = DOMAIN registry
        /\ \A x \in DOMAIN registry : registry'[x].ip = registry[x].ip
    BY <1>3 DEF SetOutdoorUnit, RegistryInv, IsRegistry, known, Entry
  <2>2. registry' \in [DOMAIN registry -> Entry]
    BY <1>3 DEF SetOutdoorUnit, RegistryInv, IsRegistry, known, Entry
  <2> QED BY <1>3, <2>1, <2>2 DEF SetOutdoorUnit, RegistryInv, IsRegistry, Distinct, RestType
<1>4. ASSUME NEW d \in Ids, NEW c \in Configs, ConfigPushed(d, c)
      PROVE  RegistryInv' /\ RestType'
  BY <1>4, ConfigPushedInv
<1>5. CASE Dedupe
  <2>1. RegistryInv'
    BY <1>5, DropIsDistinct DEF Dedupe, RegistryInv
  <2>2. held' \in [Ids -> Snapshot \cup {Null}]
    BY <1>5, DetachType DEF Dedupe
  <2>3. members' \subseteq Schedules \X Ids
    BY <1>5 DEF Dedupe, Pruned, RestType
  <2> QED BY <1>5, <2>1, <2>2, <2>3 DEF Dedupe, RestType
<1>6. ASSUME NEW s \in Schedules, NEW D \in SUBSET Ids, PutSchedule(s, D)
      PROVE  RegistryInv' /\ RestType'
  BY <1>6 DEF PutSchedule, RegistryInv, RestType
<1>7. ASSUME NEW s \in Schedules, DeleteSchedule(s)
      PROVE  RegistryInv' /\ RestType'
  BY <1>7 DEF DeleteSchedule, RegistryInv, RestType
<1> QED BY <1>1, <1>2, <1>3, <1>4, <1>5, <1>6, <1>7 DEF UserStep

LEMMA CommandStepInv ==
  ASSUME RegistryInv, RestType, CommandStep
  PROVE  RegistryInv' /\ RestType'
<1>1. ASSUME NEW d \in Ids, ProxyAnswered(d)
      PROVE  RegistryInv' /\ RestType'
  BY <1>1, TouchIsDistinct DEF ProxyAnswered, RegistryInv, RestType
<1>2. ASSUME NEW d \in Ids, NEW c \in Configs \cup {Proxy},
             SendCommand(d, c) \/ CommandFailed(d, c)
      PROVE  RegistryInv' /\ RestType'
  BY <1>2 DEF SendCommand, CommandFailed, RegistryInv, RestType
<1>3. ASSUME NEW d \in Ids, NEW c \in Configs, SendToRemoved(d, c)
      PROVE  RegistryInv' /\ RestType'
  <2>1. d \notin DOMAIN registry /\ registry' = Put(registry, d, BlankEntry)
    BY <1>3 DEF SendToRemoved, known
  <2>2. BlankEntry \in Entry
    BY <2>1, EntryOfType DEF EntryOf, RegistryInv
  <2>3. IsRegistry(registry')
    BY <2>1, <2>2, PutType DEF RegistryInv
  <2>4. Distinct(registry')
    BY <2>1 DEF RegistryInv, Distinct, Put, BlankEntry
  <2>5. RestType'
    BY <1>3 DEF SendToRemoved, RestType
  <2> QED BY <2>3, <2>4, <2>5 DEF RegistryInv
<1> QED BY <1>1, <1>2, <1>3 DEF CommandStep

LEMMA ClockTickInv ==
  ASSUME RegistryInv, RestType, ClockTick
  PROVE  RegistryInv' /\ RestType'
<1> DEFINE Older(e) == [e EXCEPT !.age = IF @ < Aged THEN @ + 1 ELSE @]
<1>1. \A e \in Entry : Older(e) \in Entry /\ Older(e).ip = e.ip
  BY OfflineAssumption DEF Entry, Aged, Never
<1>2. registry' = [d \in known |-> Older(registry[d])]
  BY DEF ClockTick
<1> HIDE DEF Older
<1>3. DOMAIN registry' = DOMAIN registry /\ \A d \in DOMAIN registry :
        registry'[d] \in Entry /\ registry'[d].ip = registry[d].ip
  BY <1>1, <1>2 DEF RegistryInv, IsRegistry, known
<1>4. registry' \in [DOMAIN registry -> Entry]
  BY <1>2, <1>3 DEF known
<1>5. IsRegistry(registry')
  BY <1>3, <1>4 DEF RegistryInv, IsRegistry
<1>6. Distinct(registry')
  BY <1>3 DEF RegistryInv, Distinct
<1>7. RestType'
  BY DEF ClockTick, RestType
<1> QED BY <1>5, <1>6, <1>7 DEF RegistryInv

LEMMA StartTickInv ==
  ASSUME RegistryInv, RestType, StartTick
  PROVE  RegistryInv' /\ RestType'
<1>1. RegistryInv'
  BY ResolveIsDistinct DEF StartTick, RegistryInv
<1>2. stage' \in [Ids -> Stages]
  BY DEF StartTick, Stages
<1> QED BY <1>1, <1>2 DEF StartTick, RestType

LEMMA InvFormNext == Inv' <=> RegistryInv' /\ RestType'
BY DEF Inv, TypeOK, UniqueIp, RegistryInv, RestType, IsRegistry, Distinct, known

LEMMA NextInv == Inv /\ [Next]_vars => Inv'
<1> SUFFICES ASSUME RegistryInv, RestType, [Next]_vars
             PROVE  RegistryInv' /\ RestType'
  BY InvForm, InvFormNext
<1>1. CASE UNCHANGED vars
  BY <1>1 DEF vars, RegistryInv, RestType
<1> QED BY <1>1, StartTickInv, PollStepInv, UnitStepInv, UserStepInv,
           CommandStepInv, ClockTickInv DEF Next

-----------------------------------------------------------------------------
(* Theorems. *)

\* Every reachable state is well formed, whatever units, users and mDNS send
\* and however polls and commands interleave (store.js, the handlers).
THEOREM TypeCorrect == Spec => []TypeOK
<1>1. Inv => TypeOK
  BY DEF Inv
<1> QED BY <1>1, InitInv, NextInv, PTL DEF Spec

\* No ip is ever claimed by two entries: touch's resolveDuplicateIps restores
\* this at every contact and no other step can break it.
THEOREM IpsAreUnique == Spec => []UniqueIp
<1>1. Inv => UniqueIp
  BY DEF Inv
<1> QED BY <1>1, InitInv, NextInv, PTL DEF Spec
=============================================================================
