------------------------ MODULE RegistryRefinement ------------------------
(***************************************************************************)
(* Registry implements Directory, for every value of the constants.  Each  *)
(* step maps to at most one step of Directory: a contact is Learn or       *)
(* nothing, an adoption or a rekey is Move, and Dedupe is nothing because  *)
(* UniqueIp leaves it no stale claimant.                                   *)
(***************************************************************************)
EXTENDS RegistryProofs

DirStep == [Dir!Next]_<<Intent, members>>

LEMMA IntentForm ==
  /\ DOMAIN Intent = known
  /\ \A d \in known : Intent[d] = [desired |-> registry[d].desired, group |-> registry[d].group]
BY DEF Intent

\* Contact with d leaves everybody's configuration alone, and adds d if needed.
LEMMA ContactStep ==
  ASSUME NEW d \in Ids, members' = members,
         DOMAIN registry' = known \cup {d},
         \A x \in known \cup {d} : /\ registry'[x].desired = EntryOf(registry, x).desired
                                   /\ registry'[x].group = EntryOf(registry, x).group
  PROVE  DirStep
<1>1. CASE d \in known
  <2>1. \A x \in known : /\ registry'[x].desired = registry[x].desired
                         /\ registry'[x].group = registry[x].group
    BY DEF EntryOf, known
  <2>2. Intent' = Intent
    BY <1>1, <2>1 DEF Intent, known
  <2> QED BY <2>2 DEF DirStep
<1>2. CASE d \notin known
  <2>1. \A x \in known : /\ registry'[x].desired = registry[x].desired
                         /\ registry'[x].group = registry[x].group
    BY DEF EntryOf, known
  <2>2. registry'[d].desired = Null /\ registry'[d].group = Null
    BY <1>2 DEF EntryOf, BlankEntry, known
  <2>3. Intent' = [x \in known \cup {d} |->
                     IF x = d THEN Dir!Unset ELSE Intent[x]]
    BY <1>2, <2>1, <2>2 DEF Intent, Dir!Unset, known
  <2>4. Dir!Learn(d)
    BY <1>2, <2>3, IntentForm DEF Dir!Learn, Dir!Assign
  <2> QED BY <2>4 DEF DirStep, Dir!Next
<1> QED BY <1>1, <1>2

LEMMA TouchStep ==
  ASSUME RegistryInv, NEW d \in Ids, members' = members,
         NEW ip \in Ips \cup {Null}, NEW mac \in Macs \cup {Null},
         registry' = Touch(registry, d, ip, mac)
  PROVE  DirStep
<1>1. /\ DOMAIN registry' = known \cup {d}
      /\ \A x \in known \cup {d} :
           /\ registry'[x].desired = EntryOf(registry, x).desired
           /\ registry'[x].group = EntryOf(registry, x).group
  BY TouchIsDistinct DEF RegistryInv, known
<1> QED BY <1>1, ContactStep

\* A step that changes no configuration is none of Directory's.
LEMMA StutterStep ==
  ASSUME members' = members, DOMAIN registry' = known,
         \A x \in known : /\ registry'[x].desired = registry[x].desired
                          /\ registry'[x].group = registry[x].group
  PROVE  DirStep
<1>1. Intent' = Intent
  BY DEF Intent, known
<1> QED BY <1>1 DEF DirStep

\* A register that migrates moves the predecessor's configuration and schedules.
LEMMA MoveStep ==
  ASSUME NEW old \in known, old \in Ids, NEW new \in Ids, new # old,
         members' = Renamed(members, old, new),
         DOMAIN registry' = (known \ {old}) \cup {new},
         /\ registry'[new].desired = registry[old].desired
         /\ registry'[new].group = registry[old].group,
         \A x \in known \ {old, new} : /\ registry'[x].desired = registry[x].desired
                                       /\ registry'[x].group = registry[x].group
  PROVE  DirStep
<1>1. Intent' = [x \in (known \cup {new}) \ {old} |->
                   IF x = new THEN Intent[old] ELSE Intent[x]]
  BY DEF Intent, known
<1>2. Dir!Move(old, new)
  BY <1>1, IntentForm DEF Dir!Move, Dir!Assign, Renamed
<1> QED BY <1>2 DEF DirStep, Dir!Next

LEMMA PollDirStep ==
  ASSUME RegistryInv, NEW d \in Ids, PollStep(d)
  PROVE  DirStep
<1>1. ASSUME NEW ip \in Ips \cup {Null}, NEW mac \in Macs \cup {Null},
             PollFoundUnit(d, ip, mac)
      PROVE  DirStep
  BY <1>1, TouchStep DEF PollFoundUnit
<1>2. ASSUME NEW id, NEW mac, PollFoundStranger(d, id, mac)
      PROVE  DirStep
  BY <1>2, ReleaseIpIsDistinct, StutterStep DEF PollFoundStranger, RegistryInv, known
<1>3. CASE PollFailed(d)
  BY <1>3, StutterStep DEF PollFailed, known
<1>4. ASSUME NEW next, PollConfigAnswered(d, next)
      PROVE  DirStep
  <2>1. registry' = Put(registry, d, EntryOf(registry, d)) /\ members' = members
    BY <1>4 DEF PollConfigAnswered, AfterConfig
  <2>2. DOMAIN registry' = known \cup {d}
    BY <2>1 DEF Put, known
  <2>3. \A x \in known \cup {d} : registry'[x] = EntryOf(registry, x)
    BY <2>1 DEF Put, EntryOf, known
  <2> QED BY <2>1, <2>2, <2>3, ContactStep
<1>5. ASSUME NEW next, PollConfigFailed(d, next)
      PROVE  DirStep
  BY <1>5, StutterStep DEF PollConfigFailed, AfterConfig, known
<1>6. CASE Reasserted(d)
  BY <1>6, TouchStep DEF Reasserted
<1>7. CASE ReassertFailed(d)
  BY <1>7, StutterStep DEF ReassertFailed, known
<1> QED BY <1>1, <1>2, <1>3, <1>4, <1>5, <1>6, <1>7 DEF PollStep

LEMMA UnitDirStep ==
  ASSUME RegistryInv, UnitStep
  PROVE  DirStep
<1>1. ASSUME NEW id \in Ids, NEW ip \in Ips \cup {Null}, NEW mac \in Macs \cup {Null},
             NEW legacy, RegisterAdopts(id, ip, mac, legacy)
      PROVE  DirStep
  <2>1. PICK p \in Predecessors(id, mac, legacy) :
          /\ registry' = Touch(Rekeyed(registry, p, id), id, ip, mac)
          /\ members' = Renamed(members, p, id)
          /\ Detach({p})
          /\ UNCHANGED <<stage, calls>>
    BY <1>1, Zenon DEF RegisterAdopts
  <2>2. p \in known /\ p \in Ids /\ p # id /\ id \notin known
    BY DEF Predecessors, RegistryInv, IsRegistry, known
  <2> DEFINE r == Rekeyed(registry, p, id)
  <2>3. IsRegistry(r) /\ Distinct(r) /\ Moves(registry, r, p, id)
    BY <2>2, RegistryRekeyed
  <2>4. IsRegistry(r) /\ Distinct(r)
    BY <2>3
  <2>8. registry' = Touch(r, id, ip, mac)
    BY <2>1
  <2> HIDE DEF r
  <2>5. DOMAIN r = (known \ {p}) \cup {id}
    BY <2>3 DEF Moves, known
  <2>6. r[id].desired = registry[p].desired /\ r[id].group = registry[p].group
    BY <2>3 DEF Moves
  <2>7. \A x \in known \ {p, id} : r[x] = registry[x]
    BY <2>3 DEF Moves, known
  <2>9. /\ DOMAIN registry' = DOMAIN r \cup {id}
        /\ \A x \in DOMAIN r \cup {id} :
             /\ registry'[x].desired = EntryOf(r, x).desired
             /\ registry'[x].group = EntryOf(r, x).group
    BY <2>4, <2>8, TouchIsDistinct
  <2>10. \A x \in DOMAIN r : /\ registry'[x].desired = r[x].desired
                              /\ registry'[x].group = r[x].group
    BY <2>9 DEF EntryOf
  <2>11. DOMAIN registry' = (known \ {p}) \cup {id}
    BY <2>5, <2>9
  <2> QED BY <2>1, <2>2, <2>5, <2>6, <2>7, <2>10, <2>11, MoveStep
<1>2. ASSUME NEW id \in Ids, NEW ip \in Ips \cup {Null}, NEW mac \in Macs \cup {Null},
             NEW legacy, RegisterPlain(id, ip, mac, legacy) \/ Advertised(id, ip, mac)
      PROVE  DirStep
  BY <1>2, TouchStep DEF RegisterPlain, Advertised
<1>3. ASSUME NEW id \in Ids, Observed(id)
      PROVE  DirStep
  BY <1>3, TouchStep DEF Observed
<1> QED BY <1>1, <1>2, <1>3 DEF UnitStep

LEMMA UserDirStep ==
  ASSUME RegistryInv, UserStep
  PROVE  DirStep
<1>1. ASSUME NEW d \in Ids, DeleteDevice(d)
      PROVE  DirStep
  <2>1. Intent' = [x \in known \ {d} |-> Intent[x]]
    BY <1>1 DEF DeleteDevice, Drop, Intent, known
  <2>2. Dir!Forget(d)
    BY <1>1, <2>1, IntentForm DEF DeleteDevice, Dir!Forget, Pruned
  <2> QED BY <2>2 DEF DirStep, Dir!Next
<1>2. ASSUME NEW d \in Ids, NEW new \in Ids, RekeyDevice(d, new)
      PROVE  DirStep
  <2>1. /\ d \in known /\ new # d
        /\ registry' = Rekeyed(registry, d, new)
        /\ members' = Renamed(members, d, new)
    BY <1>2 DEF RekeyDevice
  <2> DEFINE r == Rekeyed(registry, d, new)
  <2>2. Moves(registry, r, d, new)
    BY <2>1, RegistryRekeyed
  <2>3. registry' = r
    BY <2>1
  <2> HIDE DEF r
  <2>4. DOMAIN r = (known \ {d}) \cup {new}
    BY <2>2 DEF Moves, known
  <2>5. r[new].desired = registry[d].desired /\ r[new].group = registry[d].group
    BY <2>2 DEF Moves
  <2>6. \A x \in known \ {d, new} : r[x] = registry[x]
    BY <2>2 DEF Moves, known
  <2> QED BY <2>1, <2>3, <2>4, <2>5, <2>6, MoveStep
<1>3. ASSUME NEW d \in Ids, NEW g \in Groups \cup {Null}, SetOutdoorUnit(d, g)
      PROVE  DirStep
  <2>1. \A x \in known : registry[x] \in Entry
    BY DEF RegistryInv, IsRegistry, known
  <2>2. Intent' = [x \in known |->
                     IF x = d THEN [Intent[d] EXCEPT !.group = g] ELSE Intent[x]]
    BY <1>3, <2>1 DEF SetOutdoorUnit, Intent, known, Entry
  <2>3. Dir!SetGroup(d, g)
    BY <1>3, <2>2, IntentForm DEF SetOutdoorUnit, Dir!SetGroup, Dir!Assign
  <2> QED BY <2>3 DEF DirStep, Dir!Next
<1>4. ASSUME NEW d \in Ids, NEW c \in Configs, ConfigPushed(d, c)
      PROVE  DirStep
  <2> DEFINE e == [EntryOf(registry, d) EXCEPT !.desired = c]
             r == Put(registry, d, e)
  <2>1. EntryOf(registry, d) \in Entry
    BY EntryOfType DEF RegistryInv
  <2>2. /\ e \in Entry /\ e.ip = EntryOf(registry, d).ip
        /\ e.desired = c /\ e.group = EntryOf(registry, d).group
    BY <2>1 DEF Entry
  <2>3. registry' = Touch(r, d, Null, Null) /\ members' = members
    BY <1>4 DEF ConfigPushed
  <2> HIDE DEF e
  <2>4. IsRegistry(r)
    BY <2>2, PutType DEF RegistryInv
  <2>5. Distinct(r)
    BY <2>2 DEF RegistryInv, Distinct, Put, EntryOf, BlankEntry
  <2>6. DOMAIN r = known \cup {d}
    BY DEF Put, known
  <2>7. \A x \in known \cup {d} : EntryOf(r, x) = IF x = d THEN e ELSE registry[x]
    BY DEF Put, EntryOf, known
  <2> HIDE DEF r
  <2>8. /\ DOMAIN registry' = known \cup {d}
        /\ \A x \in known \cup {d} : /\ registry'[x].desired = EntryOf(r, x).desired
                                     /\ registry'[x].group = EntryOf(r, x).group
    <3> DEFINE t == Touch(r, d, Null, Null)
    <3>1. DOMAIN t = DOMAIN r \cup {d}
      BY <2>4, <2>5, TouchIsDistinct
    <3>2. \A x \in DOMAIN r \cup {d} : /\ t[x].desired = EntryOf(r, x).desired
                                       /\ t[x].group = EntryOf(r, x).group
      <4>1. Null \in Ips \cup {Null} /\ Null \in Macs \cup {Null}
        OBVIOUS
      <4> QED BY <2>4, <2>5, <4>1, TouchIsDistinct, Zenon
    <3>3. registry' = t
      BY <2>3
    <3> HIDE DEF t
    <3> QED BY <2>6, <3>1, <3>2, <3>3
  <2>9. Dir!IntentOf(d) = [desired |-> EntryOf(registry, d).desired,
                           group |-> EntryOf(registry, d).group]
    BY DEF Dir!IntentOf, Dir!Unset, Intent, EntryOf, BlankEntry, known
  <2>10. Intent' = [x \in known \cup {d} |->
                      IF x = d THEN [Dir!IntentOf(d) EXCEPT !.desired = c] ELSE Intent[x]]
    <3>1. [Dir!IntentOf(d) EXCEPT !.desired = c]
            = [desired |-> c, group |-> EntryOf(registry, d).group]
      BY <2>9
    <3>2. Intent' = [x \in known \cup {d} |->
                       [desired |-> registry'[x].desired, group |-> registry'[x].group]]
      BY <2>8 DEF Intent, known
    <3> QED BY <2>2, <2>7, <2>8, <3>1, <3>2, IntentForm
  <2>11. Dir!SetDesired(d, c)
    BY <2>3, <2>10, IntentForm DEF Dir!SetDesired, Dir!Assign
  <2> QED BY <2>11 DEF DirStep, Dir!Next
<1>5. CASE Dedupe
  <2>1. StaleClaimants(registry) = {}
    <3>1. \A d \in DOMAIN registry : d \in Int /\ registry[d].age \in Int
      BY IdsAssumption, OfflineAssumption DEF RegistryInv, IsRegistry, Entry, Never
    <3>2. \A d, o \in DOMAIN registry : ~Outranks(registry, o, d)
      BY <3>1 DEF RegistryInv, Distinct, Outranks
    <3> QED BY <3>2 DEF StaleClaimants
  <2>2. members' = members
    BY <1>5, <2>1 DEF Dedupe, Pruned
  <2>3. DOMAIN registry' = known /\ \A x \in known : registry'[x] = registry[x]
    BY <1>5, <2>1 DEF Dedupe, Drop, known
  <2> QED BY <2>2, <2>3, StutterStep
<1>6. ASSUME NEW s \in Schedules, NEW D \in SUBSET Ids, PutSchedule(s, D)
      PROVE  DirStep
  <2>1. Intent' = Intent
    BY <1>6 DEF PutSchedule, Intent, known
  <2>2. Dir!EditSchedule(s, D)
    BY <1>6, <2>1 DEF PutSchedule, Dir!EditSchedule
  <2> QED BY <2>2 DEF DirStep, Dir!Next
<1>7. ASSUME NEW s \in Schedules, DeleteSchedule(s)
      PROVE  DirStep
  <2>1. Intent' = Intent
    BY <1>7 DEF DeleteSchedule, Intent, known
  <2>2. Dir!EditSchedule(s, {})
    BY <1>7, <2>1 DEF DeleteSchedule, Dir!EditSchedule
  <2> QED BY <2>2 DEF DirStep, Dir!Next
<1> QED BY <1>1, <1>2, <1>3, <1>4, <1>5, <1>6, <1>7 DEF UserStep

LEMMA CommandDirStep ==
  ASSUME RegistryInv, CommandStep
  PROVE  DirStep
<1>1. ASSUME NEW d \in Ids, ProxyAnswered(d)
      PROVE  DirStep
  BY <1>1, TouchStep DEF ProxyAnswered
<1>2. ASSUME NEW d, NEW c, SendCommand(d, c) \/ CommandFailed(d, c)
      PROVE  DirStep
  BY <1>2, StutterStep DEF SendCommand, CommandFailed, known
<1>3. ASSUME NEW d \in Ids, NEW c, SendToRemoved(d, c)
      PROVE  DirStep
  BY <1>3, ContactStep DEF SendToRemoved, Put, EntryOf, known
<1> QED BY <1>1, <1>2, <1>3 DEF CommandStep

LEMMA TickDirStep ==
  ASSUME RegistryInv, StartTick \/ ClockTick
  PROVE  DirStep
<1>1. CASE StartTick
  BY <1>1, ResolveIsDistinct, StutterStep DEF StartTick, RegistryInv, known
<1>2. CASE ClockTick
  <2>1. members' = members /\ DOMAIN registry' = known
    BY <1>2 DEF ClockTick, known
  <2>2. \A x \in known : registry[x] \in Entry
    BY DEF RegistryInv, IsRegistry, known
  <2>3. \A x \in known : /\ registry'[x].desired = registry[x].desired
                         /\ registry'[x].group = registry[x].group
    BY <1>2, <2>2 DEF ClockTick, Entry
  <2> QED BY <2>1, <2>3, StutterStep
<1> QED BY <1>1, <1>2

-----------------------------------------------------------------------------

\* The registry loses or changes what the user configured only by the steps of
\* Directory, in every interleaving of polls, commands, registers and edits
\* (store.js, scheduleStore.js, server.js, discovery.js, reconcile.js).
THEOREM RegistryImplementsDirectory == Spec => ImplementsDirectory
<1>1. Init => Dir!Init
  BY DEF Init, Dir!Init, Intent, known
<1>2. Inv /\ [Next]_vars => [Dir!Next]_<<Intent, members>>
  <2> SUFFICES ASSUME RegistryInv, [Next]_vars PROVE DirStep
    BY InvForm DEF DirStep
  <2>1. CASE UNCHANGED vars
    BY <2>1, StutterStep DEF vars, known
  <2> QED BY <2>1, PollDirStep, UnitDirStep, UserDirStep, CommandDirStep,
             TickDirStep DEF Next
<1> QED BY <1>1, <1>2, InitInv, NextInv, PTL DEF Spec, ImplementsDirectory, Dir!Spec
=============================================================================
