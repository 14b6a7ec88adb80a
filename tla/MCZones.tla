------------------------------- MODULE MCZones -------------------------------
(* Small instances of Zones.                                                 *)
EXTENDS Zones, TLC

Symmetry == Permutations(Building)

=============================================================================
