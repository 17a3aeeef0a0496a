------------------------------ MODULE MCRooms ---------------------------------
(* Instances of Rooms for TLC. *)
EXTENDS Rooms, TLC

CONSTANTS a1, a2

Symmetry == Permutations({a1, a2})
=============================================================================
