------------------------- MODULE PersistenceProofs -------------------------
(***************************************************************************)
(* Proofs about Persistence: what the files say while nothing is due, that *)
(* each file is a write-behind copy of its store, and that a quiet end of  *)
(* the process loses nothing.                                              *)
(***************************************************************************)
EXTENDS Persistence, TLAPS

\* While the process is down no timer is set and memory is gone; a store it left
\* quiet is in its file. No timer is left behind after it fired.
Inv ==
  /\ TypeOK
  /\ QuietMeansSaved
  /\ \A f \in Stores : timer[f] # "spent"
  /\ run = "down" => /\ intent = NoDevices /\ members = {}
                     /\ timer = [f \in Stores |-> "none"]
                     /\ last.quiet \subseteq Stores
                     /\ \A f \in last.quiet : InFile(f) = last[f]

\* A handler that changes the stores only as far as their writes are due.
Noted ==
  /\ run # "down"
  /\ intent' \in Intents /\ members' \in Memberships
  /\ \E F \in SUBSET Stores :
       /\ Persist(F)
       /\ "devices" \in F \/ Configured(intent)' = Configured(intent)
       /\ "schedules" \in F \/ members' = members
  /\ Handler

-----------------------------------------------------------------------------
(* The stores as functions. *)

\* A map of entries is a member of Intents exactly when its ids and its entries
\* are ones.
LEMMA IntentsAre ==
  ASSUME NEW D \in SUBSET Ids, NEW i, i \in [D -> Intent]
  PROVE  i \in Intents
BY DEF Intents

LEMMA IntentsHave ==
  ASSUME NEW i \in Intents
  PROVE  /\ DOMAIN i \subseteq Ids
         /\ i \in [DOMAIN i -> Intent]
BY DEF Intents

LEMMA UnsetIsIntent == Live!Unset \in Intent
BY DEF Live!Unset, Intent

LEMMA NoDevicesIsTyped == NoDevices \in Intents
<1>1. NoDevices \in [{} -> Intent]
  BY DEF NoDevices
<1> QED
  BY <1>1, IntentsAre

LEMMA ConfiguredIsTyped ==
  ASSUME NEW i \in Intents
  PROVE  Configured(i) \in [Ids -> Intent]
BY IntentsHave, UnsetIsIntent DEF Configured

\* What Directory's assignment leaves is a map of entries.
LEMMA AssignIsTyped ==
  ASSUME intent \in Intents, NEW d \in Ids, NEW v \in Intent, NEW D \in SUBSET Ids,
         Live!Assign(d, v, D)
  PROVE  intent' \in Intents
<1> DEFINE S == (DOMAIN intent \cup {d}) \ D
<1>1. S \in SUBSET Ids
  BY IntentsHave
<1>2. intent' \in [S -> Intent]
  BY IntentsHave DEF Live!Assign
<1> QED
  BY <1>1, <1>2, IntentsAre

LEMMA IntentOfIsTyped ==
  ASSUME intent \in Intents, NEW d \in Ids
  PROVE  Live!IntentOf(d) \in Intent
BY IntentsHave, UnsetIsIntent DEF Live!IntentOf

-----------------------------------------------------------------------------
(* Every handler is noted. *)

LEMMA TouchedIsNoted ==
  ASSUME TypeOK, NEW d \in Ids, Touched(d)
  PROVE  Noted
<1>1. intent' \in Intents
  BY AssignIsTyped, UnsetIsIntent DEF TypeOK, Touched, Live!Learn
<1>2. Configured(intent)' = Configured(intent)
  BY DEF Touched, Live!Learn, Live!Assign, Configured
<1>3. Persist({})
  BY DEF Touched, Persist, TypeOK
<1> QED
  BY <1>1, <1>2, <1>3 DEF Noted, Touched, Live!Learn, TypeOK

LEMMA RecordedIsNoted ==
  ASSUME TypeOK, NEW d \in Ids, Recorded(d)
  PROVE  Noted
<1>1. intent' \in Intents /\ members' = members
  BY AssignIsTyped, UnsetIsIntent DEF TypeOK, Recorded, Live!Learn, memory
<1> QED
  BY <1>1 DEF Noted, Recorded, TypeOK, Stores

LEMMA CommandDoneIsNoted ==
  ASSUME TypeOK, NEW d \in Ids, NEW c \in Configs, CommandDone(d, c)
  PROVE  Noted
<1>1. [Live!IntentOf(d) EXCEPT !.desired = c] \in Intent
  BY IntentOfIsTyped DEF TypeOK, Intent
<1>2. intent' \in Intents
  BY <1>1, AssignIsTyped DEF TypeOK, CommandDone, Live!SetDesired
<1> QED
  BY <1>2 DEF Noted, CommandDone, Live!SetDesired, TypeOK, Stores

LEMMA OutdoorUnitSetIsNoted ==
  ASSUME TypeOK, NEW d \in Ids, NEW g \in Groups \cup {Null}, OutdoorUnitSet(d, g)
  PROVE  Noted
<1>1. [intent[d] EXCEPT !.group = g] \in Intent
  BY IntentsHave DEF TypeOK, OutdoorUnitSet, Live!SetGroup, Intent
<1>2. intent' \in Intents
  BY <1>1, AssignIsTyped DEF TypeOK, OutdoorUnitSet, Live!SetGroup
<1> QED
  BY <1>2 DEF Noted, OutdoorUnitSet, Live!SetGroup, TypeOK, Stores

LEMMA DeviceDeletedIsNoted ==
  ASSUME TypeOK, NEW d \in Ids, DeviceDeleted(d)
  PROVE  Noted
<1>1. intent' \in Intents
  <2>1. intent' \in [DOMAIN intent \ {d} -> Intent]
    BY IntentsHave DEF TypeOK, DeviceDeleted, Live!Forget
  <2> QED
    BY <2>1, IntentsHave, IntentsAre DEF TypeOK
<1>2. members' \in Memberships
  BY DEF TypeOK, DeviceDeleted, Live!Forget, Memberships
<1>3. Drives(d) \/ members' = members
  BY DEF TypeOK, DeviceDeleted, Live!Forget, Memberships, Drives
<1>4. WithSchedules(d) \in SUBSET Stores /\ "devices" \in WithSchedules(d)
  BY DEF WithSchedules, Stores
<1>5. "schedules" \in WithSchedules(d) \/ members' = members
  BY <1>3 DEF WithSchedules, Stores
<1> QED
  BY <1>1, <1>2, <1>4, <1>5 DEF Noted, DeviceDeleted

LEMMA DeviceMovedIsNoted ==
  ASSUME TypeOK, NEW d \in Ids, NEW new \in Ids, DeviceMoved(d, new)
  PROVE  Noted
<1>1. intent' \in Intents
  BY AssignIsTyped, IntentsHave DEF TypeOK, DeviceMoved, Live!Move
<1>2. members' \in Memberships
  BY DEF TypeOK, DeviceMoved, Live!Move, Memberships
<1>3. Drives(d) \/ members' = members
  BY DEF TypeOK, DeviceMoved, Live!Move, Memberships, Drives
<1>4. WithSchedules(d) \in SUBSET Stores /\ "devices" \in WithSchedules(d)
  BY DEF WithSchedules, Stores
<1>5. "schedules" \in WithSchedules(d) \/ members' = members
  BY <1>3 DEF WithSchedules, Stores
<1> QED
  BY <1>1, <1>2, <1>4, <1>5 DEF Noted, DeviceMoved

LEMMA ScheduleEditedIsNoted ==
  ASSUME TypeOK, NEW s \in Schedules, NEW D \in SUBSET Ids, ScheduleEdited(s, D)
  PROVE  Noted
<1>1. members' \in Memberships
  BY DEF TypeOK, ScheduleEdited, Live!EditSchedule, Memberships
<1>2. intent' = intent
  BY DEF ScheduleEdited, Live!EditSchedule
<1> QED
  BY <1>1, <1>2 DEF Noted, ScheduleEdited, TypeOK, Stores, Configured

LEMMA HandlersAreNoted ==
  ASSUME TypeOK, DeviceStep \/ ScheduleStep
  PROVE  Noted
BY TouchedIsNoted, RecordedIsNoted, CommandDoneIsNoted, OutdoorUnitSetIsNoted,
   DeviceDeletedIsNoted, DeviceMovedIsNoted, ScheduleEditedIsNoted
   DEF DeviceStep, ScheduleStep

-----------------------------------------------------------------------------
(* The invariant. *)

LEMMA InitInv ==
  ASSUME Init
  PROVE  Inv
<1>1. TypeOK
  BY NoDevicesIsTyped
  DEF Init, Live!Init, TypeOK, Empty, NoDevices, Stores, Memberships
<1>2. \A f \in Stores : Saved(f)
  BY DEF Init, Live!Init, Empty, NoDevices, Saved, InFile, InMemory, Stores
<1> QED
  BY <1>1, <1>2 DEF Init, Inv, QuietMeansSaved

\* A store whose write is not asked for is as saved as it was, and one whose
\* write is asked for is not quiet.
LEMMA NotedKeepsInv ==
  ASSUME Inv, Noted
  PROVE  Inv'
<1> PICK F \in SUBSET Stores :
      /\ Persist(F)
      /\ "devices" \in F \/ Configured(intent)' = Configured(intent)
      /\ "schedules" \in F \/ members' = members
  BY DEF Noted
<1>1. /\ timer' \in [Stores -> {"none", "set", "spent"}]
      /\ missed' \subseteq Stores
      /\ \A f \in Stores : timer[f]' # "spent"
      /\ \A f \in F : timer[f]' # "none"
      /\ \A f \in Stores \ F : timer[f]' = timer[f] /\ (f \in missed' <=> f \in missed)
  BY DEF Persist, Inv, TypeOK
<1>2. \A f \in Stores \ F : InMemory(f)' = InMemory(f)
  BY DEF InMemory, Stores
<1>3. \A f \in Stores : InFile(f)' = InFile(f)
  BY DEF Noted, Handler, InFile
<1>4. TypeOK'
  BY <1>1 DEF Noted, Handler, Inv, TypeOK
<1>5. QuietMeansSaved'
  BY <1>1, <1>2, <1>3 DEF Noted, Handler, Inv, QuietMeansSaved, Saved
<1> QED
  BY <1>1, <1>4, <1>5 DEF Noted, Handler, Inv

LEMMA WriteKeepsInv ==
  ASSUME Inv, NEW f \in Stores, Write(f)
  PROVE  Inv'
<1>1. TypeOK'
  BY DEF Write, Inv, TypeOK, Stores, memory, history
<1>2. /\ InFile(f)' = InMemory(f)
      /\ \A g \in Stores \ {f} : InFile(g)' = InFile(g)
  BY DEF Write, InFile, InMemory, Stores, Inv, TypeOK
<1>3. \A g \in Stores : InMemory(g)' = InMemory(g)
  BY DEF Write, InMemory, memory
<1>4. \A g \in Stores \ {f} : timer[g]' = timer[g]
  BY DEF Write, Inv, TypeOK
<1>5. QuietMeansSaved'
  BY <1>2, <1>3, <1>4 DEF Write, Inv, QuietMeansSaved, Saved, history
<1> QED
  BY <1>1, <1>5 DEF Write, Inv, TypeOK

LEMMA WriteFailsKeepsInv ==
  ASSUME Inv, NEW f \in Stores, WriteFails(f)
  PROVE  Inv'
<1>1. TypeOK'
  BY DEF WriteFails, Inv, TypeOK, memory
<1>2. \A g \in Stores : Saved(g)' = Saved(g)
  BY DEF WriteFails, Saved, InFile, InMemory, memory
<1>3. QuietMeansSaved'
  BY <1>2 DEF WriteFails, Inv, QuietMeansSaved, TypeOK
<1> QED
  BY <1>1, <1>3 DEF WriteFails, Inv, TypeOK

LEMMA ShutdownKeepsInv ==
  ASSUME Inv, Shutdown
  PROVE  Inv'
<1>1. \A f \in Stores : Saved(f)' = Saved(f)
  BY DEF Shutdown, Saved, InFile, InMemory, memory
<1> QED
  BY <1>1 DEF Shutdown, Inv, TypeOK, QuietMeansSaved, memory, history

\* What the process left quiet is in the file it leaves.
LEMMA ExitKeepsInv ==
  ASSUME Inv, Exit
  PROVE  Inv'
<1>1. TypeOK'
  BY NoDevicesIsTyped DEF Exit, Inv, TypeOK, Memberships
<1>2. \A f \in Quiet : Saved(f)
  BY DEF Exit, Inv, QuietMeansSaved, Quiet
<1>3. \A f \in Stores : InFile(f)' = InFile(f)
  BY DEF Exit, InFile
<1>4. /\ last'.quiet = Quiet
      /\ last'.devices = Configured(intent)
      /\ last'.schedules = members
  BY DEF Exit
<1>5. \A f \in Stores : last'[f] = InMemory(f)
  BY <1>4 DEF InMemory, Stores
<1> QED
  BY <1>1, <1>2, <1>3, <1>4, <1>5
  DEF Exit, Inv, QuietMeansSaved, Quiet, Saved

\* A store that loads is what its file says; one that does not is missed.
LEMMA StartLoads ==
  ASSUME TypeOK, NEW F \in SUBSET Stores, Start(F)
  PROVE  \A f \in Stores \ F : InMemory(f)' = InFile(f)
BY DEF Start, InMemory, InFile, Stores

LEMMA StartKeepsInv ==
  ASSUME Inv, NEW F \in SUBSET Stores, Start(F)
  PROVE  Inv'
<1>1. TypeOK'
  BY NoDevicesIsTyped DEF Start, Inv, TypeOK, Memberships
<1>2. \A f \in Stores : InFile(f)' = InFile(f)
  BY DEF Start, InFile
<1>3. QuietMeansSaved'
  BY <1>2, StartLoads DEF Start, Inv, QuietMeansSaved, Saved
<1> QED
  BY <1>1, <1>3 DEF Start, Inv

LEMMA StepKeepsInv ==
  ASSUME Inv, [Next]_vars
  PROVE  Inv'
<1>1. CASE DeviceStep \/ ScheduleStep
  BY <1>1, HandlersAreNoted, NotedKeepsInv DEF Inv
<1>2. CASE FileStep
  BY <1>2, WriteKeepsInv, WriteFailsKeepsInv DEF FileStep
<1>3. CASE ProcessStep
  BY <1>3, ShutdownKeepsInv, ExitKeepsInv, StartKeepsInv DEF ProcessStep
<1>4. CASE UNCHANGED vars
  <2>1. \A f \in Stores : InFile(f)' = InFile(f) /\ InMemory(f)' = InMemory(f)
    BY <1>4 DEF vars, InFile, InMemory
  <2> QED
    BY <1>4, <2>1 DEF vars, Inv, TypeOK, QuietMeansSaved, Saved
<1> QED
  BY <1>1, <1>2, <1>3, <1>4 DEF Next

LEMMA Invariant == Spec => []Inv
BY InitInv, StepKeepsInv, PTL DEF Spec

\* Every reachable state is well typed: among others, what a crash leaves in a
\* file is always what memory may hold, so every start finds it readable.
THEOREM PersistenceTypes == Spec => []TypeOK
<1>1. Inv => TypeOK
  BY DEF Inv
<1> QED
  BY <1>1, Invariant, PTL

\* Whatever users, units and polls do, and however writes fail and the process
\* ends: a store with no write due and none missed is in its file.
THEOREM QuietIsSaved == Spec => []QuietMeansSaved
<1>1. Inv => QuietMeansSaved
  BY DEF Inv
<1> QED
  BY <1>1, Invariant, PTL

\* A store left quiet comes back as it was, whenever and however the process
\* ended.
THEOREM QuietStopsLoseNothing == Spec => QuietStopLosesNothing
<1> DEFINE Kept == \A F \in SUBSET Stores : Start(F) =>
                     \A f \in last.quiet \ F : InMemory(f)' = last[f]
<1>1. ASSUME Inv, [Next]_vars
      PROVE  [Kept]_vars
  <2>1. SUFFICES ASSUME NEW F \in SUBSET Stores, Start(F), NEW f \in last.quiet \ F
                 PROVE  InMemory(f)' = last[f]
    OBVIOUS
  <2>2. f \in Stores /\ InFile(f) = last[f]
    BY <1>1, <2>1 DEF Inv, Start
  <2> QED
    BY <1>1, <2>1, <2>2, StartLoads DEF Inv
<1> QED
  BY <1>1, Invariant, PTL DEF Spec, QuietStopLosesNothing

-----------------------------------------------------------------------------
(* Each file is a write-behind copy of its store. *)

LEMMA InitMapsToInit ==
  ASSUME Init
  PROVE  DeviceFile!Init /\ ScheduleFile!Init
BY DEF Init, Live!Init, DeviceFile!Init, ScheduleFile!Init, InMemory, InFile, Empty,
       Configured, NoDevices, Stores

\* A noted handler is a change where it asks for a write, else a stutter.
LEMMA NotedMaps ==
  ASSUME Inv, Noted
  PROVE  [DeviceFile!Next]_(DeviceFile!wbvars) /\ [ScheduleFile!Next]_(ScheduleFile!wbvars)
<1> PICK F \in SUBSET Stores :
      /\ Persist(F)
      /\ "devices" \in F \/ Configured(intent)' = Configured(intent)
      /\ "schedules" \in F \/ members' = members
  BY DEF Noted
<1>1. /\ \A f \in F : timer[f]' = "set"
      /\ \A f \in Stores \ F : timer[f]' = timer[f]
  BY DEF Persist, Inv, TypeOK
<1>2. Configured(intent)' \in [Ids -> Intent]
  BY ConfiguredIsTyped DEF Noted, Configured
<1>3. InFile("devices")' = InFile("devices") /\ InFile("schedules")' = InFile("schedules")
  BY DEF Noted, Handler, InFile
<1>4. [DeviceFile!Next]_(DeviceFile!wbvars)
  <2>1. CASE "devices" \in F
    BY <1>1, <1>2, <1>3, <2>1
    DEF Noted, Handler, DeviceFile!Next, DeviceFile!Change, InMemory
  <2>2. CASE "devices" \notin F
    BY <1>1, <1>3, <2>2 DEF Noted, Handler, DeviceFile!wbvars, InMemory, Stores
  <2> QED
    BY <2>1, <2>2
<1>5. [ScheduleFile!Next]_(ScheduleFile!wbvars)
  <2>1. CASE "schedules" \in F
    BY <1>1, <1>3, <2>1
    DEF Noted, Handler, ScheduleFile!Next, ScheduleFile!Change, InMemory
  <2>2. CASE "schedules" \notin F
    BY <1>1, <1>3, <2>2 DEF Noted, Handler, ScheduleFile!wbvars, InMemory, Stores
  <2> QED
    BY <2>1, <2>2
<1> QED
  BY <1>4, <1>5

\* A write of one store is a save, or a failure, there and a stutter in the other.
LEMMA FileStepMaps ==
  ASSUME Inv, FileStep
  PROVE  [DeviceFile!Next]_(DeviceFile!wbvars) /\ [ScheduleFile!Next]_(ScheduleFile!wbvars)
<1>1. ASSUME NEW f \in Stores, Write(f)
      PROVE  [DeviceFile!Next]_(DeviceFile!wbvars) /\ [ScheduleFile!Next]_(ScheduleFile!wbvars)
  <2>1. /\ InMemory("devices")' = InMemory("devices")
        /\ InMemory("schedules")' = InMemory("schedules")
        /\ run' = run
    BY <1>1 DEF Write, InMemory, memory
  <2>2. CASE f = "devices"
    BY <1>1, <2>1, <2>2
    DEF Write, Inv, TypeOK, Stores, InFile, InMemory, DeviceFile!Next, DeviceFile!Save,
        ScheduleFile!wbvars
  <2>3. CASE f = "schedules"
    BY <1>1, <2>1, <2>3
    DEF Write, Inv, TypeOK, Stores, InFile, InMemory, ScheduleFile!Next,
        ScheduleFile!Save, DeviceFile!wbvars
  <2> QED
    BY <2>2, <2>3 DEF Stores
<1>2. ASSUME NEW f \in Stores, WriteFails(f)
      PROVE  [DeviceFile!Next]_(DeviceFile!wbvars) /\ [ScheduleFile!Next]_(ScheduleFile!wbvars)
  <2>1. /\ InMemory("devices")' = InMemory("devices")
        /\ InMemory("schedules")' = InMemory("schedules")
        /\ InFile("devices")' = InFile("devices")
        /\ InFile("schedules")' = InFile("schedules")
        /\ run' = run
    BY <1>2 DEF WriteFails, InMemory, InFile, memory
  <2>2. CASE f = "devices"
    BY <1>2, <2>1, <2>2
    DEF WriteFails, Inv, TypeOK, Stores, DeviceFile!Next, DeviceFile!Fail,
        ScheduleFile!wbvars
  <2>3. CASE f = "schedules"
    BY <1>2, <2>1, <2>3
    DEF WriteFails, Inv, TypeOK, Stores, ScheduleFile!Next, ScheduleFile!Fail,
        DeviceFile!wbvars
  <2> QED
    BY <2>2, <2>3 DEF Stores
<1> QED
  BY <1>1, <1>2 DEF FileStep

LEMMA ProcessStepMaps ==
  ASSUME Inv, ProcessStep
  PROVE  [DeviceFile!Next]_(DeviceFile!wbvars) /\ [ScheduleFile!Next]_(ScheduleFile!wbvars)
<1>1. CASE Shutdown
  BY <1>1 DEF Shutdown, memory, DeviceFile!wbvars, ScheduleFile!wbvars, InMemory, InFile
<1>2. CASE Exit
  BY <1>2
  DEF Exit, DeviceFile!Next, DeviceFile!Stop, ScheduleFile!Next, ScheduleFile!Stop,
      InMemory, InFile, Configured, NoDevices, Stores
<1>3. ASSUME NEW F \in SUBSET Stores, Start(F)
      PROVE  [DeviceFile!Next]_(DeviceFile!wbvars) /\ [ScheduleFile!Next]_(ScheduleFile!wbvars)
  <2>1. InMemory("devices")' \in {InFile("devices"), [d \in Ids |-> Live!Unset]}
    BY <1>3 DEF Start, InMemory, InFile, Configured, NoDevices
  <2>2. InMemory("schedules")' \in {InFile("schedules"), {}}
    BY <1>3 DEF Start, InMemory, InFile
  <2>3. InFile("devices")' = InFile("devices") /\ InFile("schedules")' = InFile("schedules")
    BY <1>3 DEF Start, InFile
  <2> QED
    BY <1>3, <2>1, <2>2, <2>3
    DEF Start, DeviceFile!Next, DeviceFile!Start, ScheduleFile!Next, ScheduleFile!Start
<1> QED
  BY <1>1, <1>2, <1>3 DEF ProcessStep

LEMMA StepMapsToStep ==
  ASSUME Inv, [Next]_vars
  PROVE  [DeviceFile!Next]_(DeviceFile!wbvars) /\ [ScheduleFile!Next]_(ScheduleFile!wbvars)
<1>1. CASE DeviceStep \/ ScheduleStep
  BY <1>1, HandlersAreNoted, NotedMaps DEF Inv
<1>2. CASE FileStep
  BY <1>2, FileStepMaps
<1>3. CASE ProcessStep
  BY <1>3, ProcessStepMaps
<1>4. CASE UNCHANGED vars
  BY <1>4 DEF vars, DeviceFile!wbvars, ScheduleFile!wbvars, InMemory, InFile
<1> QED
  BY <1>1, <1>2, <1>3, <1>4 DEF Next

\* Both files are write-behind copies of their stores, for any sets of devices,
\* configs, outdoor units and schedules.
THEOREM FilesAreWriteBehind == Spec => ImplementsWriteBehind
<1>1. Init => DeviceFile!Init /\ ScheduleFile!Init
  BY InitMapsToInit
<1>2. Inv /\ [Next]_vars =>
        [DeviceFile!Next]_(DeviceFile!wbvars) /\ [ScheduleFile!Next]_(ScheduleFile!wbvars)
  BY StepMapsToStep
<1> QED
  BY <1>1, <1>2, Invariant, PTL
  DEF Spec, ImplementsWriteBehind, DeviceFile!Spec, ScheduleFile!Spec
=============================================================================
