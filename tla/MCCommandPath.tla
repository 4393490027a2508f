-------------------------- MODULE MCCommandPath --------------------------
(* CommandPath with one unit and two configs. *)
EXTENDS CommandPath, TLC

CONSTANTS C1, C2

Symmetric == Permutations({C1, C2})
=============================================================================
