---------------------------- MODULE MCRegistry ----------------------------
(* Registry on small instances; the .cfg files choose the input sets. *)
EXTENDS Registry, TLC

CONSTANTS M1, M2, IpA, IpB, C1, G1, S1

Chips == Permutations({M1, M2})
Addresses == Permutations({IpA, IpB})
Symmetric == Chips \cup Addresses
=============================================================================
