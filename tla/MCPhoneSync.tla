----------------------------- MODULE MCPhoneSync -----------------------------
(***************************************************************************)
(* Small instances of PhoneSync for TLC: one phone, used by w1 and, where  *)
(* an account changes hands, by w2 (who owns k2).                          *)
(***************************************************************************)
EXTENDS PhoneSync, TLC

CONSTANTS w1, w2, k2

OwnerOfKey == [k \in Key |-> IF k = k2 THEN w2 ELSE w1]

\* Nothing tells one building from another.
EitherBuilding == Permutations(Building)

=============================================================================
