---------------------------- MODULE WriteBehind ----------------------------
(***************************************************************************)
(* What each of the bridge's two files promises, as store.js and           *)
(* scheduleStore.js document their debounced persist: a change of the live *)
(* value makes a write due; a write takes the live value of its own moment *)
(* and replaces the file at once, or fails and is not repeated; a process  *)
(* that ends takes what was due with it; the next one starts from the      *)
(* file, or from nothing when it cannot be read.                           *)
(***************************************************************************)
CONSTANTS Values, Empty

VARIABLES
  up,       \* a process is running
  live,     \* the value in memory; Empty while no process runs
  durable,  \* the value in the file; Empty while there is none
  due       \* a write is due

wbvars == <<up, live, durable, due>>

Init ==
  /\ up = TRUE
  /\ live = Empty
  /\ durable = Empty
  /\ due = FALSE

Change ==
  /\ up
  /\ live' \in Values
  /\ due' = TRUE
  /\ UNCHANGED <<up, durable>>

Save ==
  /\ up /\ due
  /\ durable' = live
  /\ due' = FALSE
  /\ UNCHANGED <<up, live>>

Fail ==
  /\ up /\ due
  /\ due' = FALSE
  /\ UNCHANGED <<up, live, durable>>

Stop ==
  /\ up
  /\ up' = FALSE
  /\ live' = Empty
  /\ due' = FALSE
  /\ UNCHANGED durable

Start ==
  /\ ~up
  /\ up' = TRUE
  /\ live' \in {durable, Empty}
  /\ UNCHANGED <<durable, due>>

Next == Change \/ Save \/ Fail \/ Stop \/ Start

Spec == Init /\ [][Next]_wbvars
=============================================================================
