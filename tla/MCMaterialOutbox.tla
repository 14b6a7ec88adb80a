-------------------------- MODULE MCMaterialOutbox --------------------------
(* Small instances of MaterialOutbox: one phone, the office beside it, and   *)
(* the split of small pots.                                                  *)
EXTENDS MaterialOutbox, ProRata, TLC

Symmetry == Permutations(Admin) \cup Permutations(Pass) \cup Permutations(Worker)

\* A fact about values, not about states: TLC evaluates it once, for every small pot.
ASSUME SmallPotsAreSplit == SplitIsExact

=============================================================================
