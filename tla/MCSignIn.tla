------------------------------- MODULE MCSignIn -------------------------------
(* Small instances of SignIn.                                                 *)
EXTENDS SignIn, TLC

Symmetry == Permutations(Code) \cup Permutations(Request)

\* Operators are there to share an address: the office leaves their codes and their rows
\* alone, which it treats as it treats the workers'.
OfficeAboutWorkers ==
    /\ Operator \subseteq active
    /\ \A r \in Request :
         req[r] # None /\ req[r].kind \in {"mint", "destroy"} => req[r].who \in Worker

=============================================================================
