----------------------------- MODULE Directory -----------------------------
(***************************************************************************)
(* What the bridge promises about the user's configuration, as store.js    *)
(* and scheduleStore.js document it: per device a desired config and an    *)
(* outdoor unit, and the schedules that drive it.  Devices become known    *)
(* and are forgotten; configuration changes only by these steps, and a     *)
(* device that changes id takes its configuration and its schedules along. *)
(* Addresses, chips, liveness and unfinished calls are no part of it.      *)
(***************************************************************************)
CONSTANTS Ids, Configs, Groups, Schedules, Null

VARIABLES
  intent,   \* id -> what the user configured, for the ids the bridge knows
  members   \* <<s, d>>: schedule s drives device d

Unset == [desired |-> Null, group |-> Null]

IntentOf(d) == IF d \in DOMAIN intent THEN intent[d] ELSE Unset

\* d holds the intent i, the devices of D are unknown, the rest is unchanged.
Assign(d, i, D) ==
  intent' = [x \in (DOMAIN intent \cup {d}) \ D |-> IF x = d THEN i ELSE intent[x]]

Init ==
  /\ intent = [d \in {} |-> Unset]
  /\ members = {}

Learn(d) ==
  /\ d \notin DOMAIN intent
  /\ Assign(d, Unset, {})
  /\ UNCHANGED members

SetDesired(d, c) ==
  /\ Assign(d, [IntentOf(d) EXCEPT !.desired = c], {})
  /\ UNCHANGED members

SetGroup(d, g) ==
  /\ d \in DOMAIN intent
  /\ Assign(d, [intent[d] EXCEPT !.group = g], {})
  /\ UNCHANGED members

\* Only the user forgets a device, one at a time, and the schedules with it.
Forget(d) ==
  /\ d \in DOMAIN intent
  /\ intent' = [x \in DOMAIN intent \ {d} |-> intent[x]]
  /\ members' = {m \in members : m[2] # d}

\* The device known as old is known as new from now on.
Move(old, new) ==
  /\ old \in DOMAIN intent /\ new # old
  /\ Assign(new, intent[old], {old})
  /\ members' = {m \in members : m[2] # old}
                  \cup {<<m[1], new>> : m \in {x \in members : x[2] = old}}

EditSchedule(s, D) ==
  /\ members' = {m \in members : m[1] # s} \cup ({s} \X D)
  /\ UNCHANGED intent

Next ==
  \/ \E d \in Ids :
       \/ Learn(d)
       \/ Forget(d)
       \/ \E c \in Configs : SetDesired(d, c)
       \/ \E g \in Groups \cup {Null} : SetGroup(d, g)
       \/ \E new \in Ids : Move(d, new)
  \/ \E s \in Schedules, D \in SUBSET Ids : EditSchedule(s, D)

Spec == Init /\ [][Next]_<<intent, members>>
=============================================================================
