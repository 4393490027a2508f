--------------------------- MODULE RegistrySafety ---------------------------
(***************************************************************************)
(* What a step of Registry may never do, for every value of the constants: *)
(* lose what the user configured, give a chip's id to another chip, move a *)
(* live device, take an ip without evidence.                               *)
(***************************************************************************)
EXTENDS RegistryProofs

-----------------------------------------------------------------------------
(* What contact does to the entries. *)

LEMMA ReleasedKeeps ==
  ASSUME NEW e \in Entry
  PROVE  Released(e).mac = e.mac
BY DEF Released, Entry

LEMMA ContactedFields ==
  ASSUME NEW e \in Entry, NEW ip, NEW mac
  PROVE  /\ Contacted(e, ip, mac).ip = OrElse(ip, e.ip)
         /\ Contacted(e, ip, mac).mac = OrElse(mac, e.mac)
         /\ Contacted(e, ip, mac).age = 0
<1>1. e.orphaned \in BOOLEAN
  BY DEF Entry
<1> QED BY <1>1 DEF Contacted, Entry

\* resolveDuplicateIps takes an ip from an entry, or leaves the entry as it is;
\* two entries that share an ip do not outrank each other.
LEMMA ResolveEntries ==
  ASSUME NEW r, IsRegistry(r)
  PROVE  LET q == ResolveDuplicateIps(r)
         IN  /\ \A x \in DOMAIN r : q[x].mac = r[x].mac /\ q[x].ip \in {Null, r[x].ip}
             /\ \A x \in DOMAIN r : x \notin StaleClaimants(r) => q[x] = r[x]
             /\ \A x \in DOMAIN r : q[x].ip # r[x].ip => x \in StaleClaimants(r)
             /\ \A x, o \in DOMAIN r : Outranks(r, o, x) => ~Outranks(r, x, o)
<1>1. \A x \in DOMAIN r : r[x] \in Entry
  BY DEF IsRegistry
<1>2. \A x \in DOMAIN r : ResolveDuplicateIps(r)[x] =
        IF x \in StaleClaimants(r) THEN Released(r[x]) ELSE r[x]
  BY DEF ResolveDuplicateIps
<1>3. \A x \in DOMAIN r : x \in Int /\ r[x].age \in Int
  BY <1>1, IdsAssumption, OfflineAssumption DEF IsRegistry, Entry, Never
<1>4. \A x, o \in DOMAIN r : Outranks(r, o, x) => ~Outranks(r, x, o)
  BY <1>3 DEF Outranks
<1>5. \A x \in DOMAIN r : Released(r[x]).mac = r[x].mac /\ Released(r[x]).ip = Null
  BY <1>1, ReleasedKeeps, ReleasedType
<1> QED BY <1>2, <1>4, <1>5

\* touch sets the touched entry's ip and chip, and from the others it takes at
\* most an ip.
LEMMA TouchEntries ==
  ASSUME NEW r, IsRegistry(r), NEW d \in Ids,
         NEW ip \in Ips \cup {Null}, NEW mac \in Macs \cup {Null}
  PROVE  LET t == Touch(r, d, ip, mac)
             e == EntryOf(r, d)
         IN  /\ t[d].mac = OrElse(mac, e.mac) /\ t[d].ip \in {Null, OrElse(ip, e.ip)}
             /\ \A x \in DOMAIN r \ {d} : t[x].mac = r[x].mac /\ t[x].ip \in {Null, r[x].ip}
<1> DEFINE e == EntryOf(r, d)
           c == Contacted(e, ip, mac)
           p == Put(r, d, c)
<1>1. e \in Entry
  BY EntryOfType
<1>2. c \in Entry /\ c.ip = OrElse(ip, e.ip) /\ c.mac = OrElse(mac, e.mac)
  BY <1>1, ContactedType, ContactedFields
<1>3. Touch(r, d, ip, mac) = IF p[d].ip = Null THEN p ELSE ResolveDuplicateIps(p)
  BY DEF Touch
<1> HIDE DEF c, e
<1>4. IsRegistry(p) /\ DOMAIN p = DOMAIN r \cup {d} /\ p[d] = c
      /\ \A x \in DOMAIN r \ {d} : p[x] = r[x]
  <2>1. IsRegistry(p)
    BY <1>2, PutType
  <2> QED BY <2>1 DEF Put
<1> HIDE DEF p
<1>5. \A x \in DOMAIN p : /\ ResolveDuplicateIps(p)[x].mac = p[x].mac
                          /\ ResolveDuplicateIps(p)[x].ip \in {Null, p[x].ip}
  BY <1>4, ResolveEntries
<1>6. \A x \in DOMAIN p : /\ Touch(r, d, ip, mac)[x].mac = p[x].mac
                          /\ Touch(r, d, ip, mac)[x].ip \in {Null, p[x].ip}
  BY <1>3, <1>5
<1>7. /\ Touch(r, d, ip, mac)[d].mac = OrElse(mac, e.mac)
      /\ Touch(r, d, ip, mac)[d].ip \in {Null, OrElse(ip, e.ip)}
  BY <1>2, <1>4, <1>6
<1>8. \A x \in DOMAIN r \ {d} : /\ Touch(r, d, ip, mac)[x].mac = r[x].mac
                                /\ Touch(r, d, ip, mac)[x].ip \in {Null, r[x].ip}
  BY <1>4, <1>6
<1> QED BY <1>7, <1>8 DEF e

\* Evidence for x losing its ip when d is contacted: another entry has just been
\* contacted there, or x is d and the fresh entry of a smaller id keeps the ip that
\* d was contacted at.
Evidence(r, t, d, ip, x) ==
  \/ \E o \in DOMAIN t : t[o].ip = r[x].ip /\ t[o].age = 0
  \/ /\ x = d
     /\ \E o \in DOMAIN r \cap DOMAIN t :
          o < x /\ r[o].age = 0 /\ t[o] = r[o] /\ r[o].ip # Null /\ r[o].ip = ip

\* touch takes an ip only on evidence.
LEMMA TouchEvidence ==
  ASSUME NEW r, IsRegistry(r), Distinct(r), NEW d \in Ids,
         NEW ip \in Ips \cup {Null}, NEW mac \in Macs \cup {Null},
         NEW x \in DOMAIN r, r[x].ip # Null, Touch(r, d, ip, mac)[x].ip = Null
  PROVE  Evidence(r, Touch(r, d, ip, mac), d, ip, x)
<1> DEFINE c == Contacted(EntryOf(r, d), ip, mac)
           p == Put(r, d, c)
           q == ResolveDuplicateIps(p)
<1>1. EntryOf(r, d) \in Entry /\ (d \in DOMAIN r => EntryOf(r, d) = r[d])
  BY EntryOfType DEF EntryOf
<1>2. c \in Entry /\ c.ip = OrElse(ip, EntryOf(r, d).ip) /\ c.age = 0
  BY <1>1, ContactedType, ContactedFields
<1>3. Touch(r, d, ip, mac) = IF p[d].ip = Null THEN p ELSE q
  BY DEF Touch
<1> HIDE DEF c
<1>4. IsRegistry(p) /\ DOMAIN p = DOMAIN r \cup {d} /\ p[d] = c
      /\ \A y \in DOMAIN r \ {d} : p[y] = r[y]
  <2>1. IsRegistry(p)
    BY <1>2, PutType
  <2> QED BY <2>1 DEF Put
<1> HIDE DEF p
<1>5. p[x].ip # Null
  BY <1>1, <1>2, <1>4 DEF OrElse
<1>6. Touch(r, d, ip, mac) = q /\ q[x].ip = Null
  BY <1>3, <1>5
<1>7. /\ \A y \in DOMAIN p : y \notin StaleClaimants(p) => q[y] = p[y]
      /\ q[x].ip # p[x].ip => x \in StaleClaimants(p)
      /\ \A y, o \in DOMAIN p : Outranks(p, o, y) => ~Outranks(p, y, o)
      /\ DOMAIN q = DOMAIN p
  <2>1. /\ \A y \in DOMAIN p : y \notin StaleClaimants(p) => q[y] = p[y]
        /\ \A y \in DOMAIN p : q[y].ip # p[y].ip => y \in StaleClaimants(p)
        /\ \A y, o \in DOMAIN p : Outranks(p, o, y) => ~Outranks(p, y, o)
    BY <1>4, ResolveEntries
  <2>2. DOMAIN q = DOMAIN p
    BY <1>4, ResolveIsDistinct
  <2> QED BY <1>4, <2>1, <2>2
<1>8. PICK o \in DOMAIN p : Outranks(p, o, x)
  BY <1>5, <1>6, <1>7 DEF StaleClaimants
<1>9. /\ p[o].ip = p[x].ip /\ p[o].ip # Null /\ ~Outranks(p, x, o)
      /\ \/ p[o].age < p[x].age
         \/ p[o].age = p[x].age /\ o < x
  BY <1>4, <1>7, <1>8 DEF Outranks
\* Whoever else claims that ip is none of r's: x and o are the only claimants.
<1>10. o # x /\ (o = d \/ x = d)
  <2>1. o # x
    BY <1>8, <1>7
  <2> QED BY <2>1, <1>4, <1>9 DEF Distinct
<1>11. o \notin StaleClaimants(p)
  <2> SUFFICES ASSUME NEW y \in DOMAIN p, Outranks(p, y, o) PROVE FALSE
    BY DEF StaleClaimants
  <2>1. p[y].ip = p[o].ip /\ y # x /\ y # o
    BY <1>7, <1>9 DEF Outranks
  <2> QED BY <2>1, <1>4, <1>9, <1>10 DEF Distinct
<1>12. q[o] = p[o]
  BY <1>7, <1>11
<1>13. CASE o = d
  <2>1. r[x].ip = p[x].ip
    BY <1>4, <1>10, <1>13
  <2>2. q[d].ip = r[x].ip /\ q[d].age = 0
    BY <1>2, <1>4, <1>9, <1>12, <1>13, <2>1
  <2> QED BY <1>4, <1>6, <1>7, <2>2 DEF Evidence
<1>14. CASE x = d
  <2>1. p[o] = r[o] /\ o \in DOMAIN r
    BY <1>4, <1>10, <1>14
  <2>2. p[o].age \in Nat /\ p[x].age = 0
    BY <1>2, <1>4, <1>14, OfflineAssumption DEF IsRegistry, Entry, Never
  <2>3. p[o].age = 0 /\ o < x
    BY <1>9, <2>2
  <2>4. r[o].ip = ip
    <3>1. r[o].ip = OrElse(ip, r[x].ip)
      BY <1>1, <1>2, <1>4, <1>9, <1>14, <2>1
    <3>2. r[o].ip # r[x].ip
      BY <1>9, <1>10, <2>1 DEF Distinct
    <3> QED BY <3>1, <3>2 DEF OrElse
  <2> QED BY <1>4, <1>6, <1>7, <1>9, <1>12, <2>1, <2>3, <2>4 DEF Evidence
<1> QED BY <1>10, <1>13, <1>14

\* No entry is stale while every ip belongs to one.
LEMMA NoneStale ==
  ASSUME NEW r, Distinct(r), IsRegistry(r)
  PROVE  StaleClaimants(r) = {}
<1>1. \A x \in DOMAIN r : x \in Int /\ r[x].age \in Int
  BY IdsAssumption, OfflineAssumption DEF IsRegistry, Entry, Never
<1>2. \A x, o \in DOMAIN r : ~Outranks(r, o, x)
  BY <1>1 DEF Distinct, Outranks
<1> QED BY <1>2 DEF StaleClaimants

\* Contact that brings neither ip nor MAC changes neither of any entry.
LEMMA BareTouchEntries ==
  ASSUME NEW r, IsRegistry(r), Distinct(r), NEW d \in Ids
  PROVE  \A x \in DOMAIN r : /\ Touch(r, d, Null, Null)[x].mac = r[x].mac
                             /\ Touch(r, d, Null, Null)[x].ip = r[x].ip
<1> DEFINE c == Contacted(EntryOf(r, d), Null, Null)
           p == Put(r, d, c)
<1>1. EntryOf(r, d) \in Entry
  BY EntryOfType
<1>2. c \in Entry /\ c.ip = EntryOf(r, d).ip /\ c.mac = EntryOf(r, d).mac
  <2>1. Null \in Ips \cup {Null} /\ Null \in Macs \cup {Null}
    OBVIOUS
  <2>2. c \in Entry
    BY <1>1, <2>1, ContactedType
  <2>3. c.ip = OrElse(Null, EntryOf(r, d).ip) /\ c.mac = OrElse(Null, EntryOf(r, d).mac)
    BY <1>1, ContactedFields
  <2> QED BY <2>2, <2>3 DEF OrElse
<1>3. Touch(r, d, Null, Null) = IF p[d].ip = Null THEN p ELSE ResolveDuplicateIps(p)
  BY DEF Touch
<1> HIDE DEF c
<1>4. IsRegistry(p) /\ DOMAIN p = DOMAIN r \cup {d} /\ p[d] = c
      /\ \A x \in DOMAIN r \ {d} : p[x] = r[x]
  <2>1. IsRegistry(p)
    BY <1>2, PutType
  <2> QED BY <2>1 DEF Put
<1> HIDE DEF p
<1>5. \A x \in DOMAIN r : p[x].ip = r[x].ip /\ p[x].mac = r[x].mac
  BY <1>2, <1>4 DEF EntryOf
<1>6. d \notin DOMAIN r => p[d].ip = Null
  BY <1>2, <1>4 DEF EntryOf, BlankEntry
<1>7. Distinct(p)
  BY <1>4, <1>5, <1>6 DEF Distinct
<1>8. \A x \in DOMAIN p : ResolveDuplicateIps(p)[x] = p[x]
  BY <1>4, <1>7, NoneStale, ResolveEntries
<1> QED BY <1>3, <1>4, <1>5, <1>8

-----------------------------------------------------------------------------
(* What a step may not do to the addresses and chips. *)

ChipSafe ==
  \A d \in known \cap known' :
    registry[d].mac \notin {Null, registry'[d].mac} => held[d] # Null

LiveSafe ==
  \A d \in known \cap known' :
    /\ Online(registry[d]) /\ registry[d].ip # Null
    /\ registry'[d].ip \notin {Null, registry[d].ip}
    => \/ OwnPollAnswered(d, registry'[d].ip)
       \/ /\ registry[d].mac # Null
          /\ {mac \in Macs \cup {Null} : Claims(d, registry'[d].ip, mac)}
               = {registry[d].mac}

IpSafe ==
  \A d \in known \cap known' :
    registry[d].ip # Null /\ registry'[d].ip = Null
    => \/ \E o \in known' : LostTo(d, o)
       \/ \E o \in known \cap known' : LostATie(d, o)
       \/ MetStranger(d)

Safe == ChipSafe /\ LiveSafe /\ IpSafe

\* A step that keeps the ip and the MAC of every entry that stays is safe.
LEMMA UntouchedSafe ==
  ASSUME \A x \in known \cap known' : /\ registry'[x].mac = registry[x].mac
                                      /\ registry'[x].ip = registry[x].ip
  PROVE  Safe
BY DEF Safe, ChipSafe, LiveSafe, IpSafe

LEMMA BareTouchSafe ==
  ASSUME RegistryInv, NEW d \in Ids, registry' = Touch(registry, d, Null, Null)
  PROVE  Safe
BY BareTouchEntries, UntouchedSafe DEF RegistryInv, known

\* A contact takes an ip on evidence, also when the entry was adopted before.
LEMMA ContactIpSafe ==
  ASSUME NEW r, IsRegistry(r), Distinct(r), NEW d \in Ids,
         NEW ip \in Ips \cup {Null}, NEW mac \in Macs \cup {Null},
         registry' = Touch(r, d, ip, mac),
         \A x \in (known \cap DOMAIN r) \ {d} : r[x] = registry[x],
         d \in known => r = registry /\ ContactAt(d, ip),
         known \cap known' \subseteq DOMAIN r
  PROVE  IpSafe
<1> SUFFICES ASSUME NEW x \in known \cap known', registry[x].ip # Null, registry'[x].ip = Null
             PROVE  \/ \E o \in known' : LostTo(x, o)
                    \/ \E o \in known \cap known' : LostATie(x, o)
  BY DEF IpSafe
<1>1. x \in DOMAIN r /\ r[x] = registry[x]
  OBVIOUS
<1>2. Evidence(r, registry', d, ip, x)
  BY <1>1, TouchEvidence
<1>3. CASE \E o \in DOMAIN registry' : registry'[o].ip = r[x].ip /\ registry'[o].age = 0
  BY <1>1, <1>3 DEF LostTo, known
<1>4. CASE x = d /\ \E o \in DOMAIN r \cap DOMAIN registry' :
             o < x /\ r[o].age = 0 /\ registry'[o] = r[o] /\ r[o].ip # Null /\ r[o].ip = ip
  BY <1>4 DEF LostATie, known
<1> QED BY <1>2, <1>3, <1>4 DEF Evidence

\* A guarded claim: register, mDNS.
LEMMA ClaimForm ==
  ASSUME NEW id, NEW ip, NEW mac, Claims(id, ip, mac)
  PROVE  ~IdentityConflict(registry, id, ip, mac) /\ registry' = Touch(registry, id, ip, mac)
BY DEF Claims, Advertised, RegisterPlain

LEMMA ClaimSafe ==
  ASSUME RegistryInv, NEW id \in Ids,
         NEW ip \in Ips \cup {Null}, NEW mac \in Macs \cup {Null},
         Claims(id, ip, mac)
  PROVE  Safe
<1>1. IsRegistry(registry) /\ Distinct(registry)
  BY DEF RegistryInv
<1>2. ~IdentityConflict(registry, id, ip, mac) /\ registry' = Touch(registry, id, ip, mac)
  BY ClaimForm
<1>3. /\ registry'[id].mac = OrElse(mac, EntryOf(registry, id).mac)
      /\ registry'[id].ip \in {Null, OrElse(ip, EntryOf(registry, id).ip)}
      /\ \A x \in known \ {id} : /\ registry'[x].mac = registry[x].mac
                                 /\ registry'[x].ip \in {Null, registry[x].ip}
  BY <1>1, <1>2, TouchEntries DEF known
<1>4. ChipSafe
  BY <1>2, <1>3 DEF ChipSafe, IdentityConflict, EntryOf, OrElse, known
\* A claim that moves an online entry names the entry's chip, whichever of the
\* claims at this ip the step is taken for.
<1>5. LiveSafe
  <2> SUFFICES ASSUME id \in known, Online(registry[id]), registry[id].ip # Null,
                      registry'[id].ip \notin {Null, registry[id].ip}
               PROVE  /\ registry[id].mac # Null
                      /\ {m \in Macs \cup {Null} : Claims(id, registry'[id].ip, m)}
                           = {registry[id].mac}
    BY <1>3 DEF LiveSafe
  <2>1. registry'[id].ip = ip
    BY <1>3 DEF EntryOf, OrElse, known
  <2>2. \A m : Claims(id, ip, m) => m = registry[id].mac /\ m # Null
    BY <2>1, ClaimForm DEF IdentityConflict, known
  <2>3. mac = registry[id].mac /\ mac # Null
    BY <2>2
  <2> QED BY <2>1, <2>2, <2>3
<1>6. IpSafe
  <2>1. ContactAt(id, ip)
    BY DEF ContactAt
  <2> QED BY <1>1, <1>2, <2>1, ContactIpSafe DEF known
<1> QED BY <1>4, <1>5, <1>6 DEF Safe

LEMMA PollFoundUnitSafe ==
  ASSUME RegistryInv, RestType, NEW d \in Ids,
         NEW ip \in Ips \cup {Null}, NEW mac \in Macs \cup {Null},
         PollFoundUnit(d, ip, mac)
  PROVE  Safe
<1>1. IsRegistry(registry) /\ Distinct(registry)
  BY DEF RegistryInv
<1>2. /\ stage[d] = "health" /\ stage'[d] = "config"
      /\ ~(mac # Null /\ Captured(d).mac # Null /\ Captured(d).mac # mac)
      /\ registry' = Touch(registry, d, ip, mac)
  BY DEF PollFoundUnit, Await, RestType
<1>3. /\ registry'[d].mac = OrElse(mac, EntryOf(registry, d).mac)
      /\ registry'[d].ip \in {Null, OrElse(ip, EntryOf(registry, d).ip)}
      /\ \A x \in known \ {d} : /\ registry'[x].mac = registry[x].mac
                                /\ registry'[x].ip \in {Null, registry[x].ip}
  BY <1>1, <1>2, TouchEntries DEF known
<1>4. ChipSafe
  BY <1>2, <1>3 DEF ChipSafe, Captured, EntryOf, OrElse, known
<1>5. LiveSafe
  <2> SUFFICES ASSUME d \in known, registry'[d].ip \notin {Null, registry[d].ip}
               PROVE  OwnPollAnswered(d, registry'[d].ip)
    BY <1>3 DEF LiveSafe
  <2>1. registry'[d].ip = ip
    BY <1>3 DEF EntryOf, OrElse, known
  <2> QED BY <2>1 DEF OwnPollAnswered
<1>6. IpSafe
  <2>1. ContactAt(d, ip)
    BY DEF ContactAt, OwnPollAnswered
  <2> QED BY <1>1, <1>2, <2>1, ContactIpSafe DEF known
<1> QED BY <1>4, <1>5, <1>6 DEF Safe

LEMMA RegisterAdoptsSafe ==
  ASSUME RegistryInv, NEW id \in Ids, NEW ip \in Ips \cup {Null},
         NEW mac \in Macs \cup {Null}, NEW legacy, RegisterAdopts(id, ip, mac, legacy)
  PROVE  Safe
<1>1. PICK p \in Predecessors(id, mac, legacy) :
        registry' = Touch(Rekeyed(registry, p, id), id, ip, mac)
  BY Zenon DEF RegisterAdopts
<1>2. p \in known /\ id \notin known
  BY DEF Predecessors
<1> DEFINE r == Rekeyed(registry, p, id)
<1>3. /\ IsRegistry(r) /\ Distinct(r)
      /\ DOMAIN r = (known \ {p}) \cup {id}
      /\ \A x \in known \ {p, id} : r[x] = registry[x]
  <2>1. IsRegistry(r) /\ Distinct(r) /\ Moves(registry, r, p, id)
    BY <1>2, RegistryRekeyed
  <2> HIDE DEF r
  <2> QED BY <2>1 DEF Moves, known
<1> HIDE DEF r
<1>4. registry' = Touch(r, id, ip, mac)
  BY <1>1 DEF r
<1>5. known' = (known \ {p}) \cup {id}
  <2>1. DOMAIN Touch(r, id, ip, mac) = DOMAIN r \cup {id}
    BY DEF Touch, Put, ResolveDuplicateIps
  <2> QED BY <1>3, <1>4, <2>1 DEF known
<1>6. \A x \in known \cap known' : /\ registry'[x].mac = registry[x].mac
                                   /\ registry'[x].ip \in {Null, registry[x].ip}
  <2>1. \A x \in DOMAIN r \ {id} : /\ registry'[x].mac = r[x].mac
                                   /\ registry'[x].ip \in {Null, r[x].ip}
    BY <1>3, <1>4, TouchEntries
  <2> QED BY <1>2, <1>3, <1>5, <2>1
<1>7. IpSafe
  <2>1. \A x \in (known \cap DOMAIN r) \ {id} : r[x] = registry[x]
    BY <1>3
  <2>2. known \cap known' \subseteq DOMAIN r
    BY <1>3, <1>5
  <2> QED BY <1>2, <1>3, <1>4, <2>1, <2>2, ContactIpSafe
<1> QED BY <1>6, <1>7 DEF Safe, ChipSafe, LiveSafe

LEMMA RekeyDeviceSafe ==
  ASSUME RegistryInv, NEW d \in Ids, NEW new \in Ids, RekeyDevice(d, new)
  PROVE  Safe
<1>1. d \in known /\ new # d /\ registry' = Rekeyed(registry, d, new)
  BY DEF RekeyDevice
<1>2. \A x \in known \ {d, new} : registry'[x] = registry[x]
  <2>1. Moves(registry, registry', d, new)
    BY <1>1, RegistryRekeyed
  <2> QED BY <2>1 DEF Moves, known
<1>3. d \notin known'
  BY <1>1 DEF Rekeyed, Put, Drop, known
<1>4. new \in known => registry'[new] = Merged(registry[d], registry[new])
  BY <1>1 DEF Rekeyed, Put, Drop, known
<1>5. new \in known => /\ registry'[new].mac = OrElse(registry[new].mac, registry[d].mac)
                       /\ registry'[new].ip = OrElse(registry[new].ip, registry[d].ip)
  BY <1>4 DEF Merged
<1> QED BY <1>2, <1>3, <1>5 DEF Safe, ChipSafe, LiveSafe, IpSafe, OrElse

LEMMA PollStepSafe ==
  ASSUME RegistryInv, RestType, NEW d \in Ids, PollStep(d)
  PROVE  Safe
<1>1. ASSUME NEW ip \in Ips \cup {Null}, NEW mac \in Macs \cup {Null},
             PollFoundUnit(d, ip, mac)
      PROVE  Safe
  BY <1>1, PollFoundUnitSafe
<1>2. ASSUME NEW id \in Ids \cup {Null}, NEW mac \in Macs \cup {Null},
             PollFoundStranger(d, id, mac)
      PROVE  Safe
  <2>1. registry' = ReleaseIp(registry, d) /\ stage[d] = "health" /\ stage'[d] = "idle"
    BY <1>2 DEF PollFoundStranger, Await, RestType
  <2>2. \A x \in known \ {d} : registry'[x] = registry[x]
    BY <2>1 DEF ReleaseIp, Put, known
  <2>3. d \in known => /\ registry'[d].mac = registry[d].mac
                       /\ registry'[d].ip = Null
    <3>1. d \in known => registry[d] \in Entry
      BY DEF RegistryInv, IsRegistry, known
    <3> QED BY <2>1, <3>1, ReleasedKeeps, ReleasedType DEF ReleaseIp, Put, known
  <2>4. ChipSafe /\ LiveSafe
    BY <2>2, <2>3 DEF ChipSafe, LiveSafe
  <2>5. IpSafe
    <3> SUFFICES ASSUME d \in known, registry[d].ip # Null, registry'[d].ip = Null
                 PROVE  MetStranger(d)
      BY <2>2 DEF IpSafe
    <3>1. ~PollFailed(d)
      BY DEF PollFailed
    <3>2. \A i \in Ids \cup {Null}, m \in Macs \cup {Null} :
            PollFoundStranger(d, i, m) => \/ i \notin {d, Null}
                                          \/ /\ Null \notin {m, Captured(d).mac}
                                             /\ m # Captured(d).mac
      BY DEF PollFoundStranger
    <3> QED BY <1>2, <3>1, <3>2 DEF MetStranger
  <2> QED BY <2>4, <2>5 DEF Safe
<1>3. ASSUME registry' = registry PROVE Safe
  BY <1>3, UntouchedSafe
<1>4. ASSUME NEW next, PollConfigAnswered(d, next)
      PROVE  Safe
  BY <1>4, UntouchedSafe DEF PollConfigAnswered, Put, EntryOf, known
<1>5. CASE Reasserted(d)
  BY <1>5, BareTouchSafe DEF Reasserted
<1> QED
  BY <1>1, <1>2, <1>3, <1>4, <1>5
  DEF PollStep, PollFailed, PollConfigFailed, ReassertFailed

LEMMA UnitStepSafe ==
  ASSUME RegistryInv, UnitStep
  PROVE  Safe
<1>1. ASSUME NEW id \in Ids, NEW ip \in Ips \cup {Null}, NEW mac \in Macs \cup {Null},
             NEW legacy \in Ids \cup {Null},
             RegisterPlain(id, ip, mac, legacy) \/ Advertised(id, ip, mac)
      PROVE  Safe
  <2>1. Claims(id, ip, mac)
    BY <1>1 DEF Claims
  <2> QED BY <2>1, ClaimSafe
<1> QED BY <1>1, RegisterAdoptsSafe, BareTouchSafe DEF UnitStep, Observed

LEMMA UserStepSafe ==
  ASSUME RegistryInv, UserStep
  PROVE  Safe
<1>1. ASSUME NEW D, registry' = Drop(registry, D)
      PROVE  Safe
  BY <1>1, UntouchedSafe DEF Drop, known
<1>2. ASSUME NEW d \in Ids, NEW g, SetOutdoorUnit(d, g)
      PROVE  Safe
  <2>1. \A x \in known : registry[x] \in Entry
    BY DEF RegistryInv, IsRegistry, known
  <2> QED BY <1>2, <2>1, UntouchedSafe DEF SetOutdoorUnit, Entry, known
<1>3. ASSUME NEW d \in Ids, NEW c \in Configs, ConfigPushed(d, c)
      PROVE  Safe
  <2> DEFINE e == [EntryOf(registry, d) EXCEPT !.desired = c]
             r == Put(registry, d, e)
  <2>1. EntryOf(registry, d) \in Entry
    BY EntryOfType DEF RegistryInv
  <2>2. /\ e \in Entry /\ e.ip = EntryOf(registry, d).ip
        /\ e.mac = EntryOf(registry, d).mac
    BY <2>1 DEF Entry
  <2>3. registry' = Touch(r, d, Null, Null)
    BY <1>3 DEF ConfigPushed
  <2> HIDE DEF e
  <2>4. IsRegistry(r)
    BY <2>2, PutType DEF RegistryInv
  <2>5. Distinct(r)
    BY <2>2 DEF RegistryInv, Distinct, Put, EntryOf, BlankEntry
  <2>6. /\ known \subseteq DOMAIN r
        /\ \A x \in known : r[x].ip = registry[x].ip /\ r[x].mac = registry[x].mac
    BY <2>2 DEF Put, EntryOf, known
  <2> HIDE DEF r
  <2>7. \A x \in DOMAIN r : registry'[x].ip = r[x].ip /\ registry'[x].mac = r[x].mac
    BY <2>3, <2>4, <2>5, BareTouchEntries
  <2> QED BY <2>6, <2>7, UntouchedSafe
<1>4. ASSUME registry' = registry PROVE Safe
  BY <1>4, UntouchedSafe
<1> QED
  BY <1>1, <1>2, <1>3, <1>4, RekeyDeviceSafe
  DEF UserStep, DeleteDevice, Dedupe, PutSchedule, DeleteSchedule

LEMMA CommandStepSafe ==
  ASSUME RegistryInv, CommandStep
  PROVE  Safe
<1>1. ASSUME NEW d \in Ids, ProxyAnswered(d)
      PROVE  Safe
  BY <1>1, BareTouchSafe DEF ProxyAnswered
<1>2. ASSUME NEW d, NEW c, SendCommand(d, c) \/ CommandFailed(d, c)
      PROVE  Safe
  BY <1>2, UntouchedSafe DEF SendCommand, CommandFailed
<1>3. ASSUME NEW d, NEW c, SendToRemoved(d, c)
      PROVE  Safe
  BY <1>3, UntouchedSafe DEF SendToRemoved, Put, known
<1> QED BY <1>1, <1>2, <1>3 DEF CommandStep

LEMMA TickStepSafe ==
  ASSUME RegistryInv, StartTick \/ ClockTick
  PROVE  Safe
<1>1. CASE StartTick
  BY <1>1, NoneStale, ResolveEntries, UntouchedSafe DEF StartTick, RegistryInv, known
<1>2. CASE ClockTick
  <2>1. \A x \in known : registry[x] \in Entry
    BY DEF RegistryInv, IsRegistry, known
  <2>2. \A x \in known : /\ registry'[x].ip = registry[x].ip
                         /\ registry'[x].mac = registry[x].mac
    BY <1>2, <2>1 DEF ClockTick, Entry
  <2> QED BY <2>2, UntouchedSafe
<1> QED BY <1>1, <1>2

LEMMA StepSafe == Inv /\ [Next]_vars => Safe
<1> SUFFICES ASSUME RegistryInv, RestType, [Next]_vars PROVE Safe
  BY InvForm
<1>1. CASE UNCHANGED vars
  BY <1>1, UntouchedSafe DEF vars
<1> QED BY <1>1, PollStepSafe, UnitStepSafe, UserStepSafe, CommandStepSafe,
           TickStepSafe DEF Next

-----------------------------------------------------------------------------
(* What an automatic step may not do to the user's configuration. *)

KeptInPlace ==
  /\ members' = members
  /\ \A d \in known : d \in known' /\ Keeps(d, d)

CarriedOver ==
  \E old \in known, new \in Ids \ known :
    /\ known' = (known \ {old}) \cup {new}
    /\ Keeps(old, new)
    /\ \A d \in known \ {old} : Keeps(d, d)
    /\ members' = Renamed(members, old, new)

\* Contact keeps every configuration where it is.
LEMMA TouchKeeps ==
  ASSUME RegistryInv, NEW d \in Ids, members' = members,
         NEW ip \in Ips \cup {Null}, NEW mac \in Macs \cup {Null},
         registry' = Touch(registry, d, ip, mac)
  PROVE  KeptInPlace
<1>1. /\ DOMAIN registry' = known \cup {d}
      /\ \A x \in known \cup {d} :
           /\ registry'[x].desired = EntryOf(registry, x).desired
           /\ registry'[x].group = EntryOf(registry, x).group
  BY TouchIsDistinct DEF RegistryInv, known
<1> QED BY <1>1 DEF KeptInPlace, Keeps, EntryOf, known

LEMMA SameEntriesKept ==
  ASSUME members' = members, \A x \in known : x \in known' /\ registry'[x] = registry[x]
  PROVE  KeptInPlace
BY DEF KeptInPlace, Keeps

LEMMA AdoptionCarries ==
  ASSUME RegistryInv, NEW id \in Ids, NEW ip \in Ips \cup {Null},
         NEW mac \in Macs \cup {Null}, NEW legacy, RegisterAdopts(id, ip, mac, legacy)
  PROVE  CarriedOver
<1>1. PICK p \in Predecessors(id, mac, legacy) :
        /\ registry' = Touch(Rekeyed(registry, p, id), id, ip, mac)
        /\ members' = Renamed(members, p, id)
  BY Zenon DEF RegisterAdopts
<1>2. p \in known /\ id \notin known
  BY DEF Predecessors
<1> DEFINE r == Rekeyed(registry, p, id)
<1>3. IsRegistry(r) /\ Distinct(r) /\ Moves(registry, r, p, id)
  BY <1>2, RegistryRekeyed
<1>4. IsRegistry(r) /\ Distinct(r)
  BY <1>3
<1>8. registry' = Touch(r, id, ip, mac)
  BY <1>1
<1> HIDE DEF r
<1>5. DOMAIN r = (known \ {p}) \cup {id}
  BY <1>3 DEF Moves, known
<1>6. r[id].desired = registry[p].desired /\ r[id].group = registry[p].group
  BY <1>3 DEF Moves
<1>7. \A x \in known \ {p, id} : r[x] = registry[x]
  BY <1>3 DEF Moves, known
<1>9. /\ DOMAIN registry' = DOMAIN r \cup {id}
      /\ \A x \in DOMAIN r \cup {id} : /\ registry'[x].desired = EntryOf(r, x).desired
                                       /\ registry'[x].group = EntryOf(r, x).group
  BY <1>4, <1>8, TouchIsDistinct
<1>10. \A x \in DOMAIN r : /\ registry'[x].desired = r[x].desired
                           /\ registry'[x].group = r[x].group
  BY <1>9 DEF EntryOf
<1>11. known' = (known \ {p}) \cup {id}
  BY <1>5, <1>9 DEF known
<1>12. Keeps(p, id) /\ \A x \in known \ {p} : Keeps(x, x)
  BY <1>2, <1>5, <1>6, <1>7, <1>10 DEF Keeps
<1> QED BY <1>1, <1>2, <1>11, <1>12 DEF CarriedOver

LEMMA PollKeeps ==
  ASSUME RegistryInv, NEW d \in Ids, PollStep(d)
  PROVE  KeptInPlace
<1>1. ASSUME NEW ip \in Ips \cup {Null}, NEW mac \in Macs \cup {Null},
             PollFoundUnit(d, ip, mac)
      PROVE  KeptInPlace
  BY <1>1, TouchKeeps DEF PollFoundUnit
<1>2. ASSUME NEW id, NEW mac, PollFoundStranger(d, id, mac)
      PROVE  KeptInPlace
  BY <1>2, ReleaseIpIsDistinct DEF PollFoundStranger, RegistryInv, KeptInPlace, Keeps, known
<1>3. ASSUME registry' = registry, members' = members
      PROVE  KeptInPlace
  BY <1>3, SameEntriesKept DEF known
<1>4. ASSUME NEW next, PollConfigAnswered(d, next)
      PROVE  KeptInPlace
  BY <1>4, SameEntriesKept DEF PollConfigAnswered, AfterConfig, Put, EntryOf, known
<1>5. CASE Reasserted(d)
  BY <1>5, TouchKeeps DEF Reasserted
<1> QED
  BY <1>1, <1>2, <1>3, <1>4, <1>5
  DEF PollStep, PollFailed, PollConfigFailed, AfterConfig, ReassertFailed

LEMMA UnitKeeps ==
  ASSUME RegistryInv, UnitStep
  PROVE  KeptInPlace \/ CarriedOver
<1>1. ASSUME NEW id \in Ids, NEW ip \in Ips \cup {Null}, NEW mac \in Macs \cup {Null},
             NEW legacy, RegisterAdopts(id, ip, mac, legacy)
      PROVE  CarriedOver
  BY <1>1, AdoptionCarries
<1>2. ASSUME NEW id \in Ids, NEW ip \in Ips \cup {Null}, NEW mac \in Macs \cup {Null},
             registry' = Touch(registry, id, ip, mac), members' = members
      PROVE  KeptInPlace
  BY <1>2, TouchKeeps
<1> QED BY <1>1, <1>2 DEF UnitStep, RegisterPlain, Advertised, Observed

LEMMA CommandKeeps ==
  ASSUME RegistryInv, CommandStep
  PROVE  KeptInPlace
<1>1. ASSUME NEW d \in Ids, ProxyAnswered(d)
      PROVE  KeptInPlace
  BY <1>1, TouchKeeps DEF ProxyAnswered
<1>2. ASSUME NEW d, NEW c, SendCommand(d, c) \/ CommandFailed(d, c)
      PROVE  KeptInPlace
  BY <1>2, SameEntriesKept DEF SendCommand, CommandFailed, known
<1>3. ASSUME NEW d, NEW c, SendToRemoved(d, c)
      PROVE  KeptInPlace
  BY <1>3, SameEntriesKept DEF SendToRemoved, Put, known
<1> QED BY <1>1, <1>2, <1>3 DEF CommandStep

LEMMA TickKeeps ==
  ASSUME RegistryInv, StartTick \/ ClockTick
  PROVE  KeptInPlace
<1>1. CASE StartTick
  BY <1>1, ResolveIsDistinct DEF StartTick, RegistryInv, KeptInPlace, Keeps, known
<1>2. CASE ClockTick
  <2>1. \A x \in known : registry[x] \in Entry
    BY DEF RegistryInv, IsRegistry, known
  <2> QED BY <1>2, <2>1 DEF ClockTick, KeptInPlace, Keeps, Entry, known
<1> QED BY <1>1, <1>2

LEMMA AutomaticKeeps ==
  Inv /\ [Next]_vars => [~UserStep => KeptInPlace \/ CarriedOver]_vars
<1> SUFFICES ASSUME RegistryInv, Next, ~UserStep PROVE KeptInPlace \/ CarriedOver
  BY InvForm
<1> QED BY PollKeeps, UnitKeeps, CommandKeeps, TickKeeps DEF Next

-----------------------------------------------------------------------------

\* A known chip MAC is overwritten by no other chip's, except by a poll that
\* holds an entry the registry has dropped since (identityConflict, pollOne).
THEOREM ChipsKeepTheirIds == Spec => ChipKeepsItsId
<1>1. Inv /\ [Next]_vars => [ChipSafe]_vars
  BY StepSafe DEF Safe
<1> QED BY <1>1, InitInv, NextInv, PTL DEF Spec, ChipKeepsItsId, ChipSafe

\* An online entry changes its ip for another one only by a claim with its own
\* chip MAC, never by one without, or by the answer of its poll (identityConflict,
\* rekeyEntry).
THEOREM LiveDevicesStay == Spec => OnlineEntryIsNotHijacked
<1>1. Inv /\ [Next]_vars => [LiveSafe]_vars
  BY StepSafe DEF Safe
<1> QED BY <1>1, InitInv, NextInv, PTL DEF Spec, OnlineEntryIsNotHijacked, LiveSafe

\* An entry loses its ip only to an entry contacted there, to a poll that met a
\* stranger, or to the smaller id contacted at the same moment at the ip it claims
\* (resolveDuplicateIps, releaseIp).
THEOREM IpsAreReleasedOnEvidence == Spec => IpReleasedOnEvidence
<1>1. Inv /\ [Next]_vars => [IpSafe]_vars
  BY StepSafe DEF Safe
<1> QED BY <1>1, InitInv, NextInv, PTL DEF Spec, IpReleasedOnEvidence, IpSafe

\* Nothing the bridge infers loses a desired config, an outdoor unit or a
\* schedule's device: an automatic step keeps them or carries them to the id a
\* chip comes back under (register's migration, releaseIp, touch).
THEOREM AutomaticStepsKeep == Spec => AutomaticStepsKeepIntent
BY AutomaticKeeps, InitInv, NextInv, PTL
DEF Spec, AutomaticStepsKeepIntent, KeptInPlace, CarriedOver
=============================================================================
