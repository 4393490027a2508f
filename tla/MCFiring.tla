------------------------------ MODULE MCFiring ------------------------------
(* Instances of Firing for TLC. *)
EXTENDS Firing

CONSTANTS d1, d2, d3, g1

Known(desired, reported, group) ==
  [desired |-> desired, reported |-> reported, group |-> group]

\* One outdoor unit for all; each device was switched to the other side by its
\* remote.
SomeEntries == {Known("cool", "heat", Null), Known("heat", "cool", Null)}

\* Two devices that heat, and one of them that cools.
SomePlans ==
  {[devices |-> <<d1, d2>>, config |-> "heat"],
   [devices |-> <<d2>>, config |-> "cool"]}
=============================================================================
