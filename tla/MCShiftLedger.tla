----------------------------- MODULE MCShiftLedger -----------------------------
(* Small instances of ShiftLedger for TLC.                                     *)
EXTENDS ShiftLedger, TLC

Symmetry == Permutations(Worker)

=============================================================================
