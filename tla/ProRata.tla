------------------------------- MODULE ProRata -------------------------------
(***************************************************************************)
(* lib/prorata.js: a pot of cents split over buildings by the seconds of   *)
(* labour each of them had.  Everyone gets the floor of their share; the   *)
(* cents left over go one by one to the largest remainders.                *)
(***************************************************************************)
EXTENDS Integers, FiniteSets, FiniteSetsExt

CONSTANTS
    Building,    \* numbers, in the order of their keys
    MaxCents,    \* bounds of the pots
    MaxSeconds   \* and of the labour that are tried

ASSUME ProRataAssumption ==
    Building \subseteq Int /\ IsFiniteSet(Building) /\ MaxCents \in Nat /\ MaxSeconds \in Nat

Sum(f) == MapThenSumSet(LAMBDA b : f[b], DOMAIN f)

Floors(total, labour) ==
    [b \in DOMAIN labour |-> (total * labour[b]) \div Sum(labour)]

\* The place of b in the queue for the cents left over, from 0.
Rank(total, labour, b) ==
    LET Remainder(c) == (total * labour[c]) % Sum(labour)
    IN  Cardinality({c \in DOMAIN labour :
                       \/ Remainder(c) > Remainder(b)
                       \/ Remainder(c) = Remainder(b) /\ c < b})

\* splitProRata: the loop over `order`, wrapping around, until nothing is left.
SplitProRata(total, labour) ==
    LET floors == Floors(total, labour)
        leftover == total - Sum(floors)
        Visits(b) == {n \in 0 .. leftover - 1 :
                        n % Cardinality(DOMAIN labour) = Rank(total, labour, b)}
    IN  [b \in DOMAIN labour |-> floors[b] + Cardinality(Visits(b))]

-----------------------------------------------------------------------------

\* "Sum is EXACTLY total, always", nobody is a whole cent away from the exact share,
\* who worked more never pays less, and who did not work pays nothing.
IsExactSplit(total, labour, cents) ==
    LET all == Sum(labour)
    IN  /\ Sum(cents) = total
        /\ \A b \in Building :
             /\ cents[b] * all \in total * labour[b] - all + 1 .. total * labour[b] + all - 1
             /\ \A c \in Building : labour[b] > labour[c] => cents[b] >= cents[c]
             /\ labour[b] = 0 => cents[b] = 0

\* Every pot that is split at all is split exactly.  (Without any labour there is no
\* split; the pot is reported as unallocated.)
SplitIsExact ==
    \A total \in 0 .. MaxCents, labour \in [Building -> 0 .. MaxSeconds] :
      Sum(labour) > 0 => IsExactSplit(total, labour, SplitProRata(total, labour))

=============================================================================
