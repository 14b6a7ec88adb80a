--------------------------- MODULE MCShiftEvidence ---------------------------
(* Small instances of ShiftEvidence for TLC. *)
EXTENDS ShiftEvidence, TLC

Symmetry == Permutations(Phone)
=============================================================================
