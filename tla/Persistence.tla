---------------------------- MODULE Persistence ----------------------------
(***************************************************************************)
(* The two files of the bridge and the process around them: persist and    *)
(* load of store.js (state.json) and scheduleStore.js (schedules.json),    *)
(* start and shutdown of index.js.  The stores in memory are Directory,    *)
(* which Registry implements: here every handler that changes one also     *)
(* says which files it has written, 100 ms later.                          *)
(*                                                                         *)
(* A write renames a complete temporary file over the old one, so a crash  *)
(* in the middle of it leaves the old file and is a crash before it.       *)
(* What is only learned from units (addresses, chips, readings, configIds) *)
(* is left out: the question is the user's configuration.  A deleted       *)
(* schedule is one that drives nothing.                                    *)
(***************************************************************************)
CONSTANTS
  Ids, Configs, Groups, Schedules,
  Null         \* a field without a value

VARIABLES
  intent,   \* devices in memory, and what the user configured on them
  members,  \* schedules in memory: <<s, d>>, schedule s drives device d
  file,     \* what state.json and schedules.json hold
  timer,    \* persistTimer of each store: "none", "set", or left non-null
            \* after it fired ("spent")
  run,      \* the process: up, stopping (shutdown has begun), down
  missed,   \* history: stores whose last write or load failed, until the next
            \* persist
  last      \* history, while down: the stores as the process left them, and
            \* those it left quiet

memory == <<intent, members>>
history == <<missed, last>>
vars == <<intent, members, file, timer, run, missed, last>>

Live == INSTANCE Directory

Stores == {"devices", "schedules"}

NoDevices == [d \in {} |-> Live!Unset]

Empty == [devices |-> NoDevices, schedules |-> {}]

\* What a device entry says of the user's intent; an entry that was never
\* configured says as little as one that is not there.
Configured(i) == [d \in Ids |-> IF d \in DOMAIN i THEN i[d] ELSE Live!Unset]

InMemory(f) == IF f = "devices" THEN Configured(intent) ELSE members
InFile(f) == IF f = "devices" THEN Configured(file.devices) ELSE file.schedules

Saved(f) == InFile(f) = InMemory(f)

Init ==
  /\ Live!Init
  /\ file = Empty
  /\ timer = [f \in Stores |-> "none"]
  /\ run = "up"
  /\ missed = {}
  /\ last = Null

-----------------------------------------------------------------------------
(* Handlers. *)

\* persist() of the stores F: a timer that is there already is left alone.
Persist(F) ==
  /\ timer' = [f \in Stores |-> IF f \in F /\ timer[f] = "none" THEN "set" ELSE timer[f]]
  /\ missed' = missed \ F

Handler == UNCHANGED <<file, run, last>>

\* Contact that is not worth a write: a poll that is answered, an identify, the
\* start of a command. It may bring back an entry that was deleted meanwhile.
Touched(d) ==
  /\ run # "down"
  /\ Live!Learn(d)
  /\ UNCHANGED <<timer, missed>>
  /\ Handler

\* Contact that is written: register, observed, mDNS, a released ip, a failed
\* command, resend, a reassert.
Recorded(d) ==
  /\ run # "down"
  /\ \/ Live!Learn(d)
     \/ d \in DOMAIN intent /\ UNCHANGED memory
  /\ Persist({"devices"})
  /\ Handler

CommandDone(d, c) ==
  /\ run # "down"
  /\ Live!SetDesired(d, c)
  /\ Persist({"devices"})
  /\ Handler

\* Variant: the group is assigned but nothing written.
GroupUnwritten(d, g) ==
  /\ run = "up"
  /\ Live!SetGroup(d, g)
  /\ UNCHANGED <<timer, missed>>
  /\ Handler

OutdoorUnitSet(d, g) ==
  /\ run = "up"
  /\ Live!SetGroup(d, g)
  /\ Persist({"devices"})
  /\ Handler

Drives(d) == \E s \in Schedules : <<s, d>> \in members

\* The schedule file is written only when a schedule changed.
WithSchedules(d) == IF Drives(d) THEN Stores ELSE {"devices"}

DeviceDeleted(d) ==
  /\ run = "up"
  /\ Live!Forget(d)
  /\ Persist(WithSchedules(d))
  /\ Handler

\* Variant: a rekey writes the registry only.
MovedDevicesOnly(old, new) ==
  /\ run = "up"
  /\ Live!Move(old, new)
  /\ Persist({"devices"})
  /\ Handler

\* A rekey by the user or by a register that migrates.
DeviceMoved(old, new) ==
  /\ run = "up"
  /\ Live!Move(old, new)
  /\ Persist(WithSchedules(old))
  /\ Handler

ScheduleEdited(s, D) ==
  /\ run = "up"
  /\ Live!EditSchedule(s, D)
  /\ Persist({"schedules"})
  /\ Handler

-----------------------------------------------------------------------------
(* The files. *)

\* The value a write takes is the store's of that moment, not of the change.
Write(f) ==
  /\ run # "down"
  /\ timer[f] = "set"
  /\ timer' = [timer EXCEPT ![f] = "none"]
  /\ file' = [file EXCEPT ![f] = IF f = "devices" THEN intent ELSE members]
  /\ UNCHANGED <<memory, run, history>>

\* Variant: persistTimer is reset only after a write that succeeded.
WriteFailsStuck(f) ==
  /\ run # "down"
  /\ timer[f] = "set"
  /\ timer' = [timer EXCEPT ![f] = "spent"]
  /\ missed' = missed \cup {f}
  /\ UNCHANGED <<memory, file, run, last>>

\* Variant: the timer keeps no value of its own.
WriteFailsUnset(f) ==
  /\ run # "down"
  /\ timer[f] = "set"
  /\ timer' = [timer EXCEPT ![f] = Null]
  /\ missed' = missed \cup {f}
  /\ UNCHANGED <<memory, file, run, last>>

\* Logged, and not tried again.
WriteFails(f) ==
  /\ run # "down"
  /\ timer[f] = "set"
  /\ timer' = [timer EXCEPT ![f] = "none"]
  /\ missed' = missed \cup {f}
  /\ UNCHANGED <<memory, file, run, last>>

-----------------------------------------------------------------------------
(* The process. *)

\* SIGTERM: no new requests, while what is in flight and the timers go on
\* until the connections are closed.
Shutdown ==
  /\ run = "up"
  /\ run' = "stopping"
  /\ UNCHANGED <<memory, file, timer, history>>

Quiet == {f \in Stores \ missed : timer[f] = "none"}

\* The process ends, killed or at the end of its shutdown: nothing is flushed.
Exit ==
  /\ run # "down"
  /\ run' = "down"
  /\ intent' = NoDevices /\ members' = {}
  /\ timer' = [f \in Stores |-> "none"]
  /\ missed' = {}
  /\ last' = [devices |-> Configured(intent), schedules |-> members,
              quiet |-> Quiet, gracefully |-> run = "stopping"]
  /\ UNCHANGED file

\* Variant: load spreads the blank entry over the loaded one.
StartBlanked(F) ==
  /\ run = "down"
  /\ run' = "up"
  /\ intent' = [d \in DOMAIN file.devices |-> Live!Unset]
  /\ members' = file.schedules
  /\ missed' = F
  /\ last' = Null
  /\ UNCHANGED <<file, timer>>

\* The stores of F cannot be read and start empty, their files untouched.
Start(F) ==
  /\ run = "down"
  /\ run' = "up"
  /\ intent' = IF "devices" \in F THEN NoDevices ELSE file.devices
  /\ members' = IF "schedules" \in F THEN {} ELSE file.schedules
  /\ missed' = F
  /\ last' = Null
  /\ UNCHANGED <<file, timer>>

-----------------------------------------------------------------------------
DeviceStep ==
  \E d \in Ids :
    \/ Touched(d) \/ Recorded(d) \/ DeviceDeleted(d)
    \/ \E c \in Configs : CommandDone(d, c)
    \/ \E g \in Groups \cup {Null} : OutdoorUnitSet(d, g)
    \/ \E new \in Ids : DeviceMoved(d, new)

ScheduleStep == \E s \in Schedules, D \in SUBSET Ids : ScheduleEdited(s, D)

FileStep == \E f \in Stores : Write(f) \/ WriteFails(f)

ProcessStep == Shutdown \/ Exit \/ \E F \in SUBSET Stores : Start(F)

Next == DeviceStep \/ ScheduleStep \/ FileStep \/ ProcessStep

\* A timer that is set fires while the process lives. Users, units and the end
\* of the process are not fair, nor is its next start.
Fairness == \A f \in Stores : WF_vars(Write(f) \/ WriteFails(f))

Spec == Init /\ [][Next]_vars /\ Fairness

-----------------------------------------------------------------------------
(* Properties. *)

Intent == [desired : Configs \cup {Null}, group : Groups \cup {Null}]
Intents == UNION {[D -> Intent] : D \in SUBSET Ids}
Memberships == SUBSET (Schedules \X Ids)

\* Types of the stores, the files, the timers and the history.
TypeOK ==
  /\ intent \in Intents
  /\ members \in Memberships
  /\ file \in [devices : Intents, schedules : Memberships]
  /\ timer \in [Stores -> {"none", "set", "spent"}]
  /\ run \in {"up", "stopping", "down"}
  /\ missed \subseteq Stores

\* While no write is due and none was missed, the file says of the user's
\* configuration what the memory says: every handler that changes it, a rekey
\* and a delete in both stores, has its write, although polls, identifies and
\* the start of a command change the registry without one.
QuietMeansSaved ==
  run # "down" => \A f \in Stores \ missed : timer[f] = "none" => Saved(f)

\* Again and again, each file catches up with its store, unless the process is
\* gone or the last write failed and nothing changed since: a write that failed
\* does not keep later changes from being written.
EventuallySaved ==
  \A f \in Stores : []<>(run = "down" \/ f \in missed \/ Saved(f))

\* A process that ends, however, while nothing is due is continued by the next
\* one: the stores it left quiet and that load come back as they were, both of
\* them when both were quiet.
QuietStopLosesNothing ==
  [][\A F \in SUBSET Stores : Start(F) =>
       \A f \in last.quiet \ F : InMemory(f)' = last[f]]_vars

\* Each file is a write-behind copy of its store (WriteBehind).
DeviceFile == INSTANCE WriteBehind WITH
  Values <- [Ids -> Intent],
  Empty <- [d \in Ids |-> Live!Unset],
  up <- run # "down", live <- InMemory("devices"),
  durable <- InFile("devices"), due <- timer["devices"] = "set"

ScheduleFile == INSTANCE WriteBehind WITH
  Values <- Memberships, Empty <- {},
  up <- run # "down", live <- InMemory("schedules"),
  durable <- InFile("schedules"), due <- timer["schedules"] = "set"

ImplementsWriteBehind == DeviceFile!Spec /\ ScheduleFile!Spec

\* README.md:44-45, of state.json: "reloaded on restart, so a bridge restart
\* doesn't lose your intended configs". A shutdown in good order and a start
\* without failures bring back what was intended.
RestartKeepsIntendedConfigs ==
  [][Start({}) /\ last.gracefully => InMemory("devices")' = last.devices]_vars
=============================================================================
