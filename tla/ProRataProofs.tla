---------------------------- MODULE ProRataProofs ----------------------------
(***************************************************************************)
(* SplitIsExact for every pot, every finite set of buildings and every     *)
(* labour.                                                                 *)
(***************************************************************************)
EXTENDS ProRata, FiniteSetTheorems, WellFoundedInduction, TLAPS

\* Induction over a set of naturals rather than a predicate.
LEMMA NatBySet ==
    ASSUME NEW S, 0 \in S, \A n \in Nat : n \in S => n + 1 \in S
    PROVE  Nat \subseteq S
<1>. DEFINE rest == Nat \ S
<1>1. SUFFICES ASSUME rest # {} PROVE FALSE
  OBVIOUS
<1>2. rest \subseteq Nat
  OBVIOUS
<1>. HIDE DEF rest
<1>3. PICK n \in rest : \A m \in rest : <<m, n>> \notin OpToRel(<, Nat)
  BY <1>1, <1>2, NatLessThanWellFounded, WFMin, Zenon
<1>4. \A m \in rest : ~(m < n)
  BY <1>2, <1>3, Zenon DEF OpToRel
<1>5. n \in Nat /\ n # 0 /\ n - 1 \in Nat /\ n - 1 \notin S
  BY <1>2 DEF rest
<1>6. n - 1 \in rest
  BY <1>5 DEF rest
<1>. QED BY <1>4, <1>5, <1>6

\* The element a fold takes out of a set first.
Chosen(s) == CHOOSE x \in s : TRUE

LEMMA ChosenIsIn == ASSUME NEW s, s # {} PROVE Chosen(s) \in s
BY DEF Chosen

\* A finite set is built from the empty one by adding what a fold takes out.
LEMMA SubsetsBySet ==
    ASSUME NEW D, IsFiniteSet(D), NEW T, {} \in T,
           \A s \in SUBSET D : s # {} /\ s \ {Chosen(s)} \in T => s \in T
    PROVE  SUBSET D \subseteq T
<1>. DEFINE done == {n \in Nat : \A s \in SUBSET D : Cardinality(s) <= n => s \in T}
<1>1. \A s \in SUBSET D : IsFiniteSet(s) /\ Cardinality(s) \in Nat
  BY FS_Subset, FS_CardinalityType
<1>2. 0 \in done
  <2>1. ASSUME NEW s \in SUBSET D, Cardinality(s) <= 0 PROVE s \in T
    <3>1. Cardinality(s) = 0
      BY <1>1, <2>1
    <3>2. s = {}
      BY <1>1, <3>1, FS_EmptySet
    <3>. QED BY <3>2
  <2>. QED BY <2>1
<1>3. \A n \in Nat : n \in done => n + 1 \in done
  <2>1. ASSUME NEW n \in Nat, n \in done, NEW s \in SUBSET D, Cardinality(s) <= n + 1, s # {}
        PROVE  s \in T
    <3>1. Chosen(s) \in s
      BY <2>1, ChosenIsIn
    <3>2. Cardinality(s \ {Chosen(s)}) = Cardinality(s) - 1
      BY <1>1, <3>1, FS_RemoveElement
    <3>3. s \ {Chosen(s)} \in SUBSET D /\ Cardinality(s \ {Chosen(s)}) <= n
      BY <1>1, <2>1, <3>2
    <3>4. s \ {Chosen(s)} \in T
      BY <2>1, <3>3
    <3>. QED BY <2>1, <3>4
  <2>. QED BY <2>1
<1>. HIDE DEF done
<1>4. Nat \subseteq done
  BY <1>2, <1>3, NatBySet
<1>5. ASSUME NEW s \in SUBSET D PROVE s \in T
  <2>1. Cardinality(s) \in Nat
    BY <1>1
  <2>2. Cardinality(s) \in done
    BY <1>4, <2>1
  <2>. QED BY <2>1, <2>2 DEF done
<1>. QED BY <1>5

-----------------------------------------------------------------------------
(* What Sum computes                                                       *)

\* The sums of f over all subsets of its domain, and of those up to a size.
SumsUpTo(f, n, sum) ==
    /\ sum \in [SUBSET DOMAIN f -> Int] /\ sum[{}] = 0
    /\ \A s \in SUBSET DOMAIN f :
         s # {} /\ Cardinality(s) <= n => sum[s] = f[Chosen(s)] + sum[s \ {Chosen(s)}]

IsSum(f, sum) ==
    /\ sum \in [SUBSET DOMAIN f -> Int] /\ sum[{}] = 0
    /\ \A s \in SUBSET DOMAIN f : s # {} => sum[s] = f[Chosen(s)] + sum[s \ {Chosen(s)}]

\* A recursive definition says nothing unless such a function exists.
LEMMA SumsExist ==
    ASSUME NEW D, IsFiniteSet(D), NEW f \in [D -> Int]
    PROVE  \E sum : IsSum(f, sum)
<1>. DEFINE done == {n \in Nat : \E sum : SumsUpTo(f, n, sum)}
<1>1. \A s \in SUBSET D : IsFiniteSet(s) /\ Cardinality(s) \in Nat /\ Cardinality(s) <= Cardinality(D)
  BY FS_Subset, FS_CardinalityType
<1>2. ASSUME NEW s \in SUBSET D, s # {}
      PROVE  /\ Chosen(s) \in D /\ s \ {Chosen(s)} \in SUBSET D
             /\ Cardinality(s \ {Chosen(s)}) = Cardinality(s) - 1
  BY <1>1, <1>2, ChosenIsIn, FS_RemoveElement
<1>3. 0 \in done
  <2>. DEFINE sum == [s \in SUBSET D |-> 0]
  <2>1. \A s \in SUBSET D : Cardinality(s) <= 0 => s = {}
    BY <1>1, FS_EmptySet
  <2>2. SumsUpTo(f, 0, sum)
    BY <2>1 DEF SumsUpTo
  <2>. QED BY <2>2
<1>4. ASSUME NEW n \in Nat, n \in done PROVE n + 1 \in done
  <2>1. PICK old : SumsUpTo(f, n, old)
    BY <1>4
  <2>. DEFINE sum == [s \in SUBSET D |-> IF s = {} THEN 0 ELSE f[Chosen(s)] + old[s \ {Chosen(s)}]]
  <2>2. old \in [SUBSET D -> Int] /\ old[{}] = 0
    BY <2>1 DEF SumsUpTo
  <2>3. sum \in [SUBSET D -> Int] /\ sum[{}] = 0
    <3>1. ASSUME NEW s \in SUBSET D, s # {}
          PROVE  f[Chosen(s)] + old[s \ {Chosen(s)}] \in Int
      <4>1. f[Chosen(s)] \in Int /\ old[s \ {Chosen(s)}] \in Int
        BY <1>2, <2>2, <3>1
      <4>. QED BY <4>1
    <3>. QED BY <3>1
  <2>4. ASSUME NEW s \in SUBSET D, Cardinality(s) <= n PROVE sum[s] = old[s]
    BY <2>1, <2>2, <2>4 DEF SumsUpTo
  <2>5. ASSUME NEW s \in SUBSET D, s # {}, Cardinality(s) <= n + 1
        PROVE  sum[s] = f[Chosen(s)] + sum[s \ {Chosen(s)}]
    <3>1. Cardinality(s \ {Chosen(s)}) <= n /\ s \ {Chosen(s)} \in SUBSET D
      BY <1>1, <1>2, <2>5
    <3>2. sum[s \ {Chosen(s)}] = old[s \ {Chosen(s)}]
      BY <2>4, <3>1
    <3>3. sum[s] = f[Chosen(s)] + old[s \ {Chosen(s)}]
      BY <2>5
    <3>. QED BY <3>2, <3>3
  <2>. HIDE DEF sum
  <2>6. SumsUpTo(f, n + 1, sum)
    BY <2>3, <2>5 DEF SumsUpTo
  <2>. QED BY <2>6
<1>. HIDE DEF done
<1>5. Cardinality(D) \in done
  BY <1>1, <1>3, <1>4, NatBySet
<1>6. PICK sum : SumsUpTo(f, Cardinality(D), sum)
  BY <1>5 DEF done
<1>7. IsSum(f, sum)
  BY <1>1, <1>6 DEF SumsUpTo, IsSum
<1>. QED BY <1>7

\* Sum is the last of them.
LEMMA SumIsSum ==
    ASSUME NEW D, IsFiniteSet(D), NEW f \in [D -> Int]
    PROVE  \E sum : IsSum(f, sum) /\ Sum(f) = sum[D]
<1>. DEFINE body(g) == [s \in SUBSET D |-> IF s = {} THEN 0
                                           ELSE f[Chosen(s)] + g[s \ {Chosen(s)}]]
            sum == CHOOSE g : g = body(g)
<1>1. PICK g : IsSum(f, g)
  BY SumsExist
<1>2. g = body(g)
  BY <1>1 DEF IsSum
<1>3. sum = body(sum)
  BY <1>2
<1>4. Sum(f) = sum[D]
  BY DEF Sum, MapThenSumSet, MapThenFoldSet, Chosen
<1>5. /\ \A s \in SUBSET D : sum[s] = IF s = {} THEN 0 ELSE f[Chosen(s)] + sum[s \ {Chosen(s)}]
      /\ sum = [s \in SUBSET D |-> sum[s]]
  BY <1>3
<1>. HIDE DEF sum, body
<1>6. sum \in [SUBSET D -> Int] /\ sum[{}] = 0
  <2>. DEFINE T == {s \in SUBSET D : sum[s] \in Int}
  <2>1. sum[{}] = 0
    BY <1>5
  <2>2. ASSUME NEW s \in SUBSET D, s # {}, s \ {Chosen(s)} \in T PROVE s \in T
    <3>1. sum[s] = f[Chosen(s)] + sum[s \ {Chosen(s)}]
      BY <1>5, <2>2
    <3>2. f[Chosen(s)] \in Int
      BY <2>2, ChosenIsIn
    <3>. QED BY <2>2, <3>1, <3>2
  <2>3. {} \in T
    BY <2>1
  <2>4. SUBSET D \subseteq T
    <3>. HIDE DEF T
    <3>. QED BY <2>2, <2>3, SubsetsBySet
  <2>5. \A s \in SUBSET D : sum[s] \in Int
    BY <2>4
  <2>. QED BY <1>5, <2>1, <2>5
<1>7. IsSum(f, sum)
  BY <1>5, <1>6 DEF IsSum
<1>. QED BY <1>4, <1>7

LEMMA SumIsInt ==
    ASSUME NEW D, IsFiniteSet(D), NEW f \in [D -> Int]
    PROVE  Sum(f) \in Int
<1>1. PICK sum : IsSum(f, sum) /\ Sum(f) = sum[D]
  BY SumIsSum
<1>2. sum \in [SUBSET D -> Int]
  BY <1>1 DEF IsSum
<1>. QED BY <1>1, <1>2

\* What holds of every summand holds of the sums, when it is linear.
LEMMA SumsCombine ==
    ASSUME NEW D, IsFiniteSet(D), NEW f \in [D -> Int], NEW g \in [D -> Int],
           NEW h \in [D -> Int], NEW i \in Int, NEW j \in Int, NEW k \in Int,
           \A b \in D : i * f[b] + j * g[b] + k * h[b] <= 0
    PROVE  i * Sum(f) + j * Sum(g) + k * Sum(h) <= 0
<1>1. PICK F : IsSum(f, F) /\ Sum(f) = F[D]
  BY SumIsSum
<1>2. PICK G : IsSum(g, G) /\ Sum(g) = G[D]
  BY SumIsSum
<1>3. PICK H : IsSum(h, H) /\ Sum(h) = H[D]
  BY SumIsSum
<1>. DEFINE T == {s \in SUBSET D : i * F[s] + j * G[s] + k * H[s] <= 0}
<1>4. {} \in T
  BY <1>1, <1>2, <1>3 DEF IsSum
<1>5. ASSUME NEW s \in SUBSET D, s # {}, s \ {Chosen(s)} \in T PROVE s \in T
  <2>. DEFINE b == Chosen(s)
              r == s \ {b}
  <2>1. b \in D /\ r \in SUBSET D
    BY <1>5, ChosenIsIn
  <2>2. /\ F[s] = f[b] + F[r] /\ G[s] = g[b] + G[r] /\ H[s] = h[b] + H[r]
        /\ F[r] \in Int /\ G[r] \in Int /\ H[r] \in Int
    BY <1>1, <1>2, <1>3, <1>5, <2>1 DEF IsSum
  <2>3. i * F[r] + j * G[r] + k * H[r] <= 0
    BY <1>5
  <2>4. i * f[b] + j * g[b] + k * h[b] <= 0 /\ f[b] \in Int /\ g[b] \in Int /\ h[b] \in Int
    BY <2>1
  <2>. HIDE DEF b, r
  <2>5. ASSUME NEW f1 \in Int, NEW g1 \in Int, NEW h1 \in Int, NEW F1 \in Int, NEW G1 \in Int,
               NEW H1 \in Int, i * f1 + j * g1 + k * h1 <= 0, i * F1 + j * G1 + k * H1 <= 0
        PROVE  i * (f1 + F1) + j * (g1 + G1) + k * (h1 + H1) <= 0
    <3>1. /\ i * (f1 + F1) = i * f1 + i * F1 /\ j * (g1 + G1) = j * g1 + j * G1
          /\ k * (h1 + H1) = k * h1 + k * H1
      OBVIOUS
    <3>2. /\ i * f1 \in Int /\ j * g1 \in Int /\ k * h1 \in Int
          /\ i * F1 \in Int /\ j * G1 \in Int /\ k * H1 \in Int
      OBVIOUS
    <3>. QED BY <2>5, <3>1, <3>2
  <2>6. i * (f[b] + F[r]) + j * (g[b] + G[r]) + k * (h[b] + H[r]) <= 0
    BY <2>2, <2>3, <2>4, <2>5
  <2>. QED BY <2>2, <2>6
<1>6. SUBSET D \subseteq T
  <2>. HIDE DEF T
  <2>. QED BY <1>4, <1>5, SubsetsBySet
<1>. QED BY <1>1, <1>2, <1>3, <1>6

\* Equations, as two inequalities.
Balanced(D, i, f, j, g, h) == \A b \in D : i * f[b] = j * g[b] + h[b]
SumsBalanced(i, f, j, g, h) == i * Sum(f) = j * Sum(g) + Sum(h)

LEMMA SumsAgree ==
    ASSUME NEW D, IsFiniteSet(D), NEW f \in [D -> Int], NEW g \in [D -> Int],
           NEW h \in [D -> Int], NEW i \in Int, NEW j \in Int, Balanced(D, i, f, j, g, h)
    PROVE  SumsBalanced(i, f, j, g, h)
<1>1. Sum(f) \in Int /\ Sum(g) \in Int /\ Sum(h) \in Int
  BY SumIsInt
<1>2. PICK ni \in Int, nj \in Int, one \in Int, none \in Int :
        ni = -i /\ nj = -j /\ one = 1 /\ none = -1
  OBVIOUS
<1>3. ASSUME NEW x \in Int, NEW y \in Int, NEW z \in Int
      PROVE  i * x = j * y + z <=> /\ i * x + nj * y + none * z <= 0
                                   /\ ni * x + j * y + one * z <= 0
  <2>1. i * x \in Int /\ j * y \in Int /\ nj * y = -(j * y) /\ ni * x = -(i * x)
        /\ none * z = -z /\ one * z = z
    BY <1>2
  <2>2. PICK p \in Int, q \in Int : p = i * x /\ q = j * y
    BY <2>1
  <2>3. /\ i * x + nj * y + none * z = p + (-q) + (-z)
        /\ ni * x + j * y + one * z = (-p) + q + z
    BY <2>1, <2>2
  <2>4. p = q + z <=> p + (-q) + (-z) <= 0 /\ (-p) + q + z <= 0
    OBVIOUS
  <2>. QED BY <2>2, <2>3, <2>4, Zenon
<1>4. \A b \in D : f[b] \in Int /\ g[b] \in Int /\ h[b] \in Int
  OBVIOUS
<1>5. \A b \in D : i * f[b] + nj * g[b] + none * h[b] <= 0
  BY <1>3, <1>4 DEF Balanced
<1>6. \A b \in D : ni * f[b] + j * g[b] + one * h[b] <= 0
  BY <1>3, <1>4 DEF Balanced
<1>7. i * Sum(f) + nj * Sum(g) + none * Sum(h) <= 0
  BY <1>5, SumsCombine
<1>8. ni * Sum(f) + j * Sum(g) + one * Sum(h) <= 0
  BY <1>6, SumsCombine
<1>9. i * Sum(f) = j * Sum(g) + Sum(h) <=>
        /\ i * Sum(f) + nj * Sum(g) + none * Sum(h) <= 0
        /\ ni * Sum(f) + j * Sum(g) + one * Sum(h) <= 0
  BY <1>1, <1>3, Zenon
<1>. QED BY <1>7, <1>8, <1>9, Zenon DEF SumsBalanced

\* A sum of zeros and ones counts the ones.
Ones(D, f) == {b \in D : f[b] = 1}

LEMMA SumCounts ==
    ASSUME NEW D, IsFiniteSet(D), NEW f \in [D -> {0, 1}]
    PROVE  Sum(f) = Cardinality(Ones(D, f))
<1>1. f \in [D -> Int]
  OBVIOUS
<1>2. PICK F : IsSum(f, F) /\ Sum(f) = F[D]
  BY <1>1, SumIsSum
<1>. DEFINE T == {s \in SUBSET D : F[s] = Cardinality({b \in s : f[b] = 1})}
<1>3. {} \in T
  <2>1. {b \in {} : f[b] = 1} = {}
    OBVIOUS
  <2>. QED BY <1>2, <2>1, FS_EmptySet DEF IsSum
<1>4. ASSUME NEW s \in SUBSET D, s # {}, s \ {Chosen(s)} \in T PROVE s \in T
  <2>. DEFINE c == Chosen(s)
              ones == {b \in s : f[b] = 1}
              rest == {b \in s \ {c} : f[b] = 1}
  <2>1. c \in s /\ c \in D
    BY <1>4, ChosenIsIn
  <2>2. F[s] = f[c] + Cardinality(rest)
    BY <1>2, <1>4 DEF IsSum
  <2>3. IsFiniteSet(rest) /\ Cardinality(rest) \in Nat
    <3>1. rest \in SUBSET D
      OBVIOUS
    <3>. QED BY <3>1, FS_Subset, FS_CardinalityType
  <2>4. CASE f[c] = 1
    <3>1. ones = rest \cup {c} /\ c \notin rest
      BY <2>1, <2>4
    <3>2. Cardinality(ones) = Cardinality(rest) + 1
      BY <2>3, <3>1, FS_AddElement
    <3>. QED BY <2>2, <2>3, <2>4, <3>2
  <2>5. CASE f[c] = 0
    <3>1. ones = rest
      BY <2>1, <2>5
    <3>2. Cardinality(ones) = Cardinality(rest)
      BY <3>1
    <3>. QED BY <2>2, <2>3, <2>5, <3>2
  <2>. QED BY <2>1, <2>4, <2>5
<1>5. SUBSET D \subseteq T
  <2>. HIDE DEF T
  <2>. QED BY <1>3, <1>4, SubsetsBySet
<1>. QED BY <1>2, <1>5 DEF Ones

-----------------------------------------------------------------------------
(* The queue for the cents left over                                       *)

\* c comes before b in `order`: more of a remainder, or the same and a smaller key.
Before(rem, c, b) == rem[c] > rem[b] \/ (rem[c] = rem[b] /\ c < b)

RankBy(D, rem) == [b \in D |-> Cardinality({c \in D : Before(rem, c, b)})]

LEMMA BeforeIsAnOrder ==
    ASSUME NEW D, D \subseteq Int, NEW rem \in [D -> Int], NEW a \in D, NEW b \in D, NEW c \in D
    PROVE  /\ ~Before(rem, a, a)
           /\ Before(rem, a, b) /\ Before(rem, b, c) => Before(rem, a, c)
           /\ a # b => Before(rem, a, b) \/ Before(rem, b, a)
<1>1. /\ rem[a] \in Int /\ rem[b] \in Int /\ rem[c] \in Int
      /\ a \in Int /\ b \in Int /\ c \in Int
  OBVIOUS
<1>. QED BY <1>1 DEF Before

\* Each place of the queue is somebody's, so n places are the first n.
LEMMA RanksAreTaken ==
    ASSUME NEW D, D \subseteq Int, IsFiniteSet(D), NEW rem \in [D -> Int]
    PROVE  LET rank == RankBy(D, rem)
           IN  /\ \A b \in D : rank[b] \in 0 .. Cardinality(D) - 1
               /\ \A b, c \in D : Before(rem, c, b) => rank[c] < rank[b]
               /\ \A n \in 0 .. Cardinality(D) : Cardinality({b \in D : rank[b] < n}) = n
<1>. DEFINE rank == RankBy(D, rem)
            ahead(b) == {c \in D : Before(rem, c, b)}
<1>1. Cardinality(D) \in Nat /\ \A b \in D : rank[b] = Cardinality(ahead(b))
  BY FS_CardinalityType DEF RankBy
<1>2. ASSUME NEW b \in D
      PROVE  IsFiniteSet(ahead(b)) /\ rank[b] \in Nat /\ rank[b] < Cardinality(D)
  <2>1. ahead(b) \in SUBSET D /\ ahead(b) # D
    BY BeforeIsAnOrder
  <2>2. IsFiniteSet(ahead(b)) /\ Cardinality(ahead(b)) \in Nat
        /\ Cardinality(ahead(b)) <= Cardinality(D) /\ Cardinality(ahead(b)) # Cardinality(D)
    BY <2>1, FS_Subset, FS_CardinalityType
  <2>. QED BY <1>1, <2>2
<1>3. ASSUME NEW b \in D, NEW c \in D, Before(rem, c, b) PROVE rank[c] < rank[b]
  <2>1. ahead(c) \in SUBSET ahead(b) /\ c \in ahead(b) /\ c \notin ahead(c)
    BY <1>3, BeforeIsAnOrder
  <2>2. Cardinality(ahead(c)) <= Cardinality(ahead(b))
        /\ Cardinality(ahead(c)) # Cardinality(ahead(b))
    BY <1>2, <2>1, FS_Subset
  <2>. QED BY <1>1, <1>2, <2>2
<1>. HIDE DEF rank, ahead
<1>4. \A b, c \in D : rank[b] = rank[c] => b = c
  <2>1. ASSUME NEW b \in D, NEW c \in D, b # c PROVE rank[b] # rank[c]
    <3>1. Before(rem, b, c) \/ Before(rem, c, b)
      BY <2>1, BeforeIsAnOrder
    <3>2. rank[b] < rank[c] \/ rank[c] < rank[b]
      BY <1>3, <3>1
    <3>3. rank[b] \in Nat /\ rank[c] \in Nat
      BY <1>2
    <3>. QED BY <3>2, <3>3
  <2>. QED BY <2>1
<1>5. \A n \in 0 .. Cardinality(D) - 1 : \E b \in D : rank[b] = n
  <2>. DEFINE N == Cardinality(D)
              places == 0 .. N - 1
  <2>1. rank = [b \in D |-> rank[b]]
    BY DEF rank, RankBy
  <2>2. rank \in Injection(D, places)
    <3>1. \A b \in D : rank[b] \in places
      BY <1>1, <1>2
    <3>2. rank \in [D -> places]
      BY <2>1, <3>1
    <3>. QED BY <1>4, <3>2 DEF Injection, IsInjective
  <2>3. IsFiniteSet(places) /\ Cardinality(places) = N
    <3>1. N - 1 \in Int
      BY <1>1
    <3>2. IsFiniteSet(places) /\ Cardinality(places) = IF 0 > N - 1 THEN 0 ELSE (N - 1) - 0 + 1
      BY <3>1, FS_Interval
    <3>. QED BY <1>1, <3>2
  <2>4. rank \in Surjection(D, places)
    <3>. HIDE DEF places
    <3>. QED BY <2>2, <2>3, FS_Injection
  <2>. QED BY <2>4 DEF Surjection
<1>6. ASSUME NEW n \in 0 .. Cardinality(D) PROVE Cardinality({b \in D : rank[b] < n}) = n
  <2>. DEFINE first == {b \in D : rank[b] < n}
              places == 0 .. n - 1
              g == [b \in first |-> rank[b]]
  <2>1. g \in [first -> places]
    <3>1. ASSUME NEW b \in first PROVE rank[b] \in places
      <4>1. rank[b] \in Nat /\ rank[b] < n /\ n \in Nat
        BY <1>1, <1>2
      <4>. QED BY <4>1
    <3>. QED BY <3>1
  <2>2. g \in Injection(first, places)
    BY <1>4, <2>1 DEF Injection, IsInjective
  <2>3. g \in Surjection(first, places)
    <3>1. ASSUME NEW k \in places PROVE \E b \in first : g[b] = k
      <4>1. k \in 0 .. Cardinality(D) - 1 /\ k < n
        BY <1>1
      <4>2. PICK b \in D : rank[b] = k
        BY <1>5, <4>1
      <4>. QED BY <4>1, <4>2
    <3>. QED BY <2>1, <3>1 DEF Surjection
  <2>4. n \in Int /\ n >= 0 /\ n - 1 \in Int
    BY <1>1
  <2>5. IsFiniteSet(places) /\ Cardinality(places) = IF 0 > n - 1 THEN 0 ELSE (n - 1) - 0 + 1
    BY <2>4, FS_Interval
  <2>6. Cardinality(places) = n
    BY <2>4, <2>5
  <2>. HIDE DEF g, places, first
  <2>7. Cardinality(first) = Cardinality(places)
    BY <2>2, <2>3, <2>5, FS_Injection
  <2>. QED BY <2>6, <2>7 DEF first
<1>7. \A b \in D : rank[b] \in 0 .. Cardinality(D) - 1
  BY <1>1, <1>2
<1>. QED BY <1>3, <1>6, <1>7 DEF rank

-----------------------------------------------------------------------------
(* The split                                                               *)

LEMMA Division ==
    ASSUME NEW p \in Nat, NEW w \in Nat \ {0}
    PROVE  /\ p \div w \in Nat /\ p % w \in 0 .. w - 1
           /\ p = w * (p \div w) + (p % w)
OBVIOUS

\* One split: a pot, the labour it is split by, and somebody worked.
Splits(total, labour) == total \in Nat /\ labour \in [Building -> Nat] /\ Sum(labour) > 0

Remainders(total, labour) == [b \in Building |-> (total * labour[b]) % Sum(labour)]
LeftOver(total, labour) == total - Sum(Floors(total, labour))
Queue(total, labour) == RankBy(Building, Remainders(total, labour))
Fractions(total, labour) == {b \in Building : Remainders(total, labour)[b] > 0}

LEMMA FloorsAndRemainders ==
    ASSUME NEW total, NEW labour, Splits(total, labour)
    PROVE  LET all == Sum(labour)
               floors == Floors(total, labour)
               rem == Remainders(total, labour)
           IN  /\ all \in Nat \ {0}
               /\ floors \in [Building -> Nat] /\ rem \in [Building -> 0 .. all - 1]
               /\ \A b \in Building : total * labour[b] = all * floors[b] + rem[b]
<1>. USE ProRataAssumption
<1>. DEFINE all == Sum(labour)
<1>1. total \in Nat /\ labour \in [Building -> Nat] /\ labour \in [Building -> Int]
  BY DEF Splits
<1>2. all \in Nat \ {0}
  <2>1. all \in Int
    BY <1>1, SumIsInt
  <2>. QED BY <2>1 DEF Splits
<1>. HIDE DEF all
<1>3. ASSUME NEW b \in Building
      PROVE  LET p == total * labour[b]
             IN  p \div all \in Nat /\ p % all \in 0 .. all - 1 /\ p = all * (p \div all) + (p % all)
  <2>1. total * labour[b] \in Nat
    BY <1>1
  <2>. QED BY <1>2, <2>1, Division
<1>4. /\ Floors(total, labour) = [b \in Building |-> (total * labour[b]) \div all]
      /\ Remainders(total, labour) = [b \in Building |-> (total * labour[b]) % all]
  BY <1>1 DEF Floors, Remainders, all
<1>5. /\ Floors(total, labour) \in [Building -> Nat]
      /\ Remainders(total, labour) \in [Building -> 0 .. all - 1]
      /\ \A b \in Building :
           total * labour[b] = all * Floors(total, labour)[b] + Remainders(total, labour)[b]
  BY <1>3, <1>4
<1>. QED BY <1>2, <1>5 DEF all

\* Products of naturals, for steps that need no more of them.
LEMMA Products ==
    ASSUME NEW w \in Nat \ {0}, NEW x \in Int, NEW y \in Int
    PROVE  /\ w * x \in Int /\ (w - 1) * x = w * x - x /\ w * (x - y) = w * x - w * y
           /\ w * x >= 0 => x >= 0
           /\ x <= y => w * x <= w * y
           /\ w * (x + 1) = w * x + w
OBVIOUS

\* "strictly less than entries.length": there are fewer cents left over than shares
\* with a fraction, unless no cent is left.
LEMMA FewAreLeft ==
    ASSUME NEW total \in Nat, NEW labour \in [Building -> Nat], NEW all \in Nat \ {0},
           all = Sum(labour), NEW floors \in [Building -> Nat],
           NEW rem \in [Building -> 0 .. all - 1],
           \A b \in Building : total * labour[b] = all * floors[b] + rem[b],
           NEW left, left = total - Sum(floors),
           NEW few, few = Cardinality({b \in Building : rem[b] > 0})
    PROVE  /\ left \in Nat /\ few \in Nat /\ few <= Cardinality(Building)
           /\ left <= few /\ (left > 0 => left < few)
<1>. USE ProRataAssumption
<1>1. /\ floors \in [Building -> Int] /\ rem \in [Building -> Int] /\ labour \in [Building -> Int]
      /\ total \in Int /\ all \in Int /\ IsFiniteSet(Building)
  OBVIOUS
<1>2. PICK one \in [Building -> {0, 1}] : \A b \in Building : one[b] = 1 <=> rem[b] > 0
  <2>. DEFINE f == [b \in Building |-> IF rem[b] > 0 THEN 1 ELSE 0]
  <2>1. f \in [Building -> {0, 1}] /\ \A b \in Building : f[b] = 1 <=> rem[b] > 0
    OBVIOUS
  <2>. QED BY <2>1
<1>3. PICK nil \in [Building -> {0}] : TRUE
  <2>1. [b \in Building |-> 0] \in [Building -> {0}]
    OBVIOUS
  <2>. QED BY <2>1
<1>4. one \in [Building -> Int] /\ nil \in [Building -> Int]
  OBVIOUS
<1>5. few \in Nat /\ few <= Cardinality(Building) /\ Sum(one) = few
  <2>. DEFINE broken == {b \in Building : rem[b] > 0}
  <2>1. broken \in SUBSET Building
    OBVIOUS
  <2>2. Cardinality(broken) \in Nat /\ Cardinality(broken) <= Cardinality(Building)
    BY <2>1, FS_Subset, FS_CardinalityType
  <2>3. Ones(Building, one) = broken
    BY <1>2 DEF Ones
  <2>4. Sum(one) = Cardinality(Ones(Building, one))
    BY <1>1, SumCounts
  <2>. QED BY <2>2, <2>3, <2>4
<1>6. /\ Sum(floors) \in Int /\ Sum(rem) \in Int /\ Sum(nil) \in Int /\ Sum(one) \in Int
      /\ left \in Int
  <2>1. Sum(floors) \in Int /\ Sum(rem) \in Int /\ Sum(nil) \in Int /\ Sum(one) \in Int
    BY <1>1, <1>4, SumIsInt
  <2>. QED BY <2>1
<1>7. total * all = all * Sum(floors) + Sum(rem)
  <2>1. Balanced(Building, total, labour, all, floors, rem)
    BY DEF Balanced
  <2>2. SumsBalanced(total, labour, all, floors, rem)
    BY <1>1, <2>1, SumsAgree, Zenon
  <2>. QED BY <2>2 DEF SumsBalanced
<1>8. 0 <= Sum(rem) /\ Sum(rem) <= (all - 1) * few
  <2>1. PICK m1 \in Int, p1 \in Int, z \in Int, w \in Int :
          m1 = -1 /\ p1 = 1 /\ z = 0 /\ w = -(all - 1)
    OBVIOUS
  <2>2. ASSUME NEW b \in Building
        PROVE  /\ m1 * rem[b] + z * one[b] + z * nil[b] <= 0
               /\ p1 * rem[b] + w * one[b] + z * nil[b] <= 0
    <3>1. rem[b] \in 0 .. all - 1 /\ one[b] \in {0, 1} /\ nil[b] = 0
      OBVIOUS
    <3>2. CASE one[b] = 1
      BY <2>1, <3>1, <3>2
    <3>3. CASE one[b] = 0
      BY <1>2, <2>1, <3>1, <3>3
    <3>. QED BY <3>1, <3>2, <3>3
  <2>3. m1 * Sum(rem) + z * Sum(one) + z * Sum(nil) <= 0
    BY <1>1, <1>4, <2>2, SumsCombine
  <2>4. p1 * Sum(rem) + w * Sum(one) + z * Sum(nil) <= 0
    BY <1>1, <1>4, <2>2, SumsCombine
  <2>5. PICK r \in Int, n \in Int, o \in Int : r = Sum(rem) /\ n = Sum(nil) /\ o = Sum(one)
    BY <1>6, Zenon
  <2>. QED BY <1>5, <2>1, <2>3, <2>4, <2>5
<1>9. PICK r \in Int, F \in Int : r = Sum(rem) /\ F = Sum(floors)
  BY <1>6
<1>10. all * left = r
  BY <1>1, <1>6, <1>7, <1>9
<1>11. r >= 0 /\ r <= (all - 1) * few
  BY <1>8, <1>9
<1>12. left >= 0 /\ all * left <= all * few - few
  BY <1>5, <1>6, <1>10, <1>11, Products
<1>13. few <= left => few = 0 /\ left = 0
  <2>1. ASSUME few <= left PROVE few = 0 /\ left = 0
    <3>1. all * few <= all * left
      BY <1>5, <1>6, <2>1, Products
    <3>2. few = 0
      BY <1>5, <1>6, <1>12, <3>1
    <3>3. all * left <= 0
      BY <1>12, <3>2
    <3>. QED BY <1>6, <1>12, <3>2, <3>3
  <2>. QED BY <2>1
<1>. QED BY <1>5, <1>6, <1>12, <1>13

\* The loop over `order` never wraps around: it gives one cent to each of the first.
LEMMA OneCentEach ==
    ASSUME NEW total, NEW labour, Splits(total, labour), NEW b \in Building,
           NEW left \in Nat, left = LeftOver(total, labour), left <= Cardinality(Building),
           NEW place, place = Queue(total, labour)[b]
    PROVE  SplitProRata(total, labour)[b]
             = Floors(total, labour)[b] + (IF place < left THEN 1 ELSE 0)
<1>. USE ProRataAssumption
<1>. DEFINE size == Cardinality(Building)
            rem == Remainders(total, labour)
            visits == {n \in 0 .. left - 1 : n % size = place}
<1>1. /\ DOMAIN labour = Building /\ rem \in [Building -> Int] /\ size \in Nat
      /\ total \in Nat /\ labour \in [Building -> Nat]
  BY FloorsAndRemainders, FS_CardinalityType DEF Splits
<1>2. place = Rank(total, labour, b) /\ place \in 0 .. size - 1
  <2>1. place = Cardinality({c \in Building : Before(rem, c, b)})
    BY DEF Queue, RankBy
  <2>2. {c \in Building : Before(rem, c, b)}
          = {c \in DOMAIN labour :
               \/ (total * labour[c]) % Sum(labour) > (total * labour[b]) % Sum(labour)
               \/ (total * labour[c]) % Sum(labour) = (total * labour[b]) % Sum(labour) /\ c < b}
    BY <1>1 DEF Before, Remainders
  <2>3. Queue(total, labour)[b] \in 0 .. size - 1
    <3>. HIDE DEF rem
    <3>1. RankBy(Building, rem)[b] \in 0 .. size - 1
      BY <1>1, RanksAreTaken
    <3>. QED BY <3>1 DEF Queue, rem
  <2>. QED BY <2>1, <2>2, <2>3 DEF Rank
<1>3. SplitProRata(total, labour)[b] = Floors(total, labour)[b] + Cardinality(visits)
  BY <1>1, <1>2 DEF SplitProRata, LeftOver
<1>4. \A n \in 0 .. left - 1 : n % size = n
  BY <1>1
<1>5. Cardinality(visits) = IF place < left THEN 1 ELSE 0
  <2>1. CASE place < left
    <3>1. visits = {place}
      BY <1>1, <1>2, <1>4, <2>1
    <3>. QED BY <2>1, <3>1, FS_Singleton
  <2>2. CASE ~(place < left)
    <3>1. visits = {}
      BY <1>1, <1>2, <1>4, <2>2
    <3>2. Cardinality(visits) = 0
      BY <3>1, FS_EmptySet
    <3>. QED BY <2>2, <3>2
  <2>. QED BY <2>1, <2>2
<1>. QED BY <1>3, <1>5

\* Only a share with a fraction gets one of the cents left over.
LEMMA OnlyFractionsGet ==
    ASSUME NEW rem \in [Building -> Nat], NEW left \in Nat, NEW b \in Building,
           left <= Cardinality({c \in Building : rem[c] > 0}),
           RankBy(Building, rem)[b] < left
    PROVE  rem[b] > 0
<1>. USE ProRataAssumption
<1>. DEFINE ahead == {c \in Building : Before(rem, c, b)}
            broken == {c \in Building : rem[c] > 0}
<1>1. IsFiniteSet(ahead) /\ Cardinality(ahead) \in Nat
      /\ IsFiniteSet(broken) /\ Cardinality(broken) \in Nat
  <2>1. ahead \in SUBSET Building /\ broken \in SUBSET Building
    OBVIOUS
  <2>. HIDE DEF ahead, broken
  <2>. QED BY <2>1, FS_Subset, FS_CardinalityType
<1>2. Cardinality(ahead) < left
  BY DEF RankBy
<1>3. SUFFICES ASSUME rem[b] = 0 PROVE FALSE
  OBVIOUS
<1>4. broken \in SUBSET ahead
  BY <1>3 DEF Before
<1>5. Cardinality(broken) <= Cardinality(ahead)
  BY <1>1, <1>4, FS_Subset
<1>. QED BY <1>1, <1>2, <1>5

\* One building's part: its labour, floor and remainder, and the cent it gets or not.
IsPart(total, all, lab, floor, rem, extra) ==
    /\ lab \in Nat /\ floor \in Nat /\ rem \in 0 .. all - 1 /\ extra \in {0, 1}
    /\ total * lab = all * floor + rem
    /\ extra = 1 => rem > 0

\* The larger remainder gets its cent first.
GoesFirst(rem1, extra1, rem2, extra2) == rem1 > rem2 => extra1 >= extra2

\* What b pays next to its exact share, and next to what c pays.
PaysFairly(total, all, lab, cents, lac, other) ==
    /\ cents * all \in total * lab - all + 1 .. total * lab + all - 1
    /\ lab > lac => cents >= other
    /\ lab = 0 => cents = 0

LEMMA SharesAreFair ==
    ASSUME NEW all \in Nat \ {0}, NEW total \in Nat,
           NEW lab, NEW flb, NEW reb, NEW exb, IsPart(total, all, lab, flb, reb, exb),
           NEW lac, NEW flc, NEW rec, NEW exc, IsPart(total, all, lac, flc, rec, exc),
           GoesFirst(reb, exb, rec, exc)
    PROVE  PaysFairly(total, all, lab, flb + exb, lac, flc + exc)
<1>0. /\ lab \in Nat /\ lac \in Nat /\ flb \in Nat /\ flc \in Nat
      /\ reb \in 0 .. all - 1 /\ rec \in 0 .. all - 1 /\ exb \in {0, 1} /\ exc \in {0, 1}
      /\ total * lab = all * flb + reb /\ total * lac = all * flc + rec
      /\ exb = 1 => reb > 0
      /\ exc = 1 => rec > 0
      /\ reb > rec => exb >= exc
  BY DEF IsPart, GoesFirst
<1>1. PICK pb \in Nat, pc \in Nat, fb \in Nat, fc \in Nat :
        pb = total * lab /\ pc = total * lac /\ fb = all * flb /\ fc = all * flc
  BY <1>0
<1>2. pb = fb + reb /\ pc = fc + rec
  BY <1>0, <1>1
<1>3. (flb + exb) * all \in pb - all + 1 .. pb + all - 1
  <2>1. (flb + 0) * all = fb /\ (flb + 1) * all = fb + all
    BY <1>0, <1>1
  <2>2. CASE exb = 0
    BY <1>0, <1>2, <2>1, <2>2
  <2>3. CASE exb = 1
    BY <1>0, <1>2, <2>1, <2>3
  <2>. QED BY <1>0, <2>2, <2>3
<1>4. ASSUME lab > lac PROVE flb + exb >= flc + exc
  <2>1. pb >= pc /\ (pb = pc => pb = 0 /\ pc = 0)
    <3>1. pb = pc + total * (lab - lac) /\ lab - lac \in Nat \ {0}
      BY <1>0, <1>1, <1>4
    <3>2. PICK d \in Nat : d = total * (lab - lac) /\ (d = 0 => total = 0)
      BY <1>0, <3>1
    <3>3. total = 0 => pb = 0 /\ pc = 0
      BY <1>0, <1>1
    <3>. QED BY <1>0, <3>1, <3>2, <3>3
  <2>2. CASE flb > flc
    BY <1>0, <2>2
  <2>3. CASE flb = flc
    <3>1. fb = fc
      BY <1>0, <1>1, <2>3
    <3>2. CASE pb = pc
      <4>1. reb = 0 /\ rec = 0
        BY <1>0, <1>2, <2>1, <3>2
      <4>. QED BY <1>0, <2>3, <4>1
    <3>3. CASE pb > pc
      <4>1. reb > rec
        BY <1>0, <1>2, <3>1, <3>3
      <4>. QED BY <1>0, <2>3, <4>1
    <3>. QED BY <1>0, <2>1, <3>2, <3>3
  <2>4. CASE flb < flc
    <3>1. fc >= fb + all
      <4>1. flb + 1 <= flc /\ flb + 1 \in Int
        BY <1>0, <2>4
      <4>2. all * (flb + 1) <= all * flc /\ all * (flb + 1) = all * flb + all
        BY <1>0, <4>1, Products
      <4>. QED BY <1>0, <1>1, <4>2
    <3>. QED BY <1>0, <1>2, <2>1, <3>1
  <2>. QED BY <1>0, <2>2, <2>3, <2>4
<1>5. ASSUME lab = 0 PROVE flb + exb = 0
  <2>1. pb = 0
    BY <1>0, <1>1, <1>5
  <2>2. fb = 0 /\ reb = 0
    BY <1>0, <1>2, <2>1
  <2>3. flb = 0
    BY <1>0, <1>1, <2>2
  <2>. QED BY <1>0, <2>2, <2>3
<1>. QED BY <1>1, <1>3, <1>4, <1>5 DEF PaysFairly

\* splitProRata pays a pot out to the cent, whatever the labour, the remainders and the
\* ties: the shares sum to the pot, nobody is a whole cent away from the exact share,
\* who worked more never gets less, and who did not work gets nothing.
THEOREM AnyPotIsSplitExactly ==
    ASSUME NEW total \in Nat, NEW labour \in [Building -> Nat], Sum(labour) > 0
    PROVE  IsExactSplit(total, labour, SplitProRata(total, labour))
<1>. USE ProRataAssumption
<1>1. Splits(total, labour)
  BY DEF Splits
<1>2. PICK all, floors, rem :
        /\ all = Sum(labour) /\ floors = Floors(total, labour)
        /\ rem = Remainders(total, labour)
        /\ all \in Nat \ {0} /\ floors \in [Building -> Nat] /\ rem \in [Building -> 0 .. all - 1]
        /\ \A b \in Building : total * labour[b] = all * floors[b] + rem[b]
  BY <1>1, FloorsAndRemainders
<1>3. PICK left, few : /\ left = total - Sum(floors)
                       /\ few = Cardinality({b \in Building : rem[b] > 0})
  OBVIOUS
<1>4. left \in Nat /\ few \in Nat /\ few <= Cardinality(Building) /\ left <= few
  BY <1>2, <1>3, FewAreLeft
<1>5. rem \in [Building -> Nat] /\ rem \in [Building -> Int] /\ floors \in [Building -> Int]
  BY <1>2
<1>6. PICK rank : rank = RankBy(Building, rem)
  OBVIOUS
<1>7. /\ \A b \in Building : rank[b] \in 0 .. Cardinality(Building) - 1
      /\ \A b, c \in Building : Before(rem, c, b) => rank[c] < rank[b]
      /\ \A n \in 0 .. Cardinality(Building) : Cardinality({b \in Building : rank[b] < n}) = n
  <2>1. LET q == RankBy(Building, rem)
        IN  /\ \A b \in Building : q[b] \in 0 .. Cardinality(Building) - 1
            /\ \A b, c \in Building : Before(rem, c, b) => q[c] < q[b]
            /\ \A n \in 0 .. Cardinality(Building) : Cardinality({b \in Building : q[b] < n}) = n
    BY <1>5, RanksAreTaken, Zenon
  <2>. QED BY <1>6, <2>1, Zenon
<1>8. PICK extra \in [Building -> {0, 1}] : \A b \in Building : extra[b] = 1 <=> rank[b] < left
  <2>. DEFINE f == [b \in Building |-> IF rank[b] < left THEN 1 ELSE 0]
  <2>1. f \in [Building -> {0, 1}] /\ \A b \in Building : f[b] = 1 <=> rank[b] < left
    OBVIOUS
  <2>. QED BY <2>1
<1>9. PICK cents : cents = SplitProRata(total, labour)
  OBVIOUS
<1>10. cents \in [Building -> Int] /\ \A b \in Building : cents[b] = floors[b] + extra[b]
  <2>1. ASSUME NEW b \in Building PROVE cents[b] = floors[b] + extra[b]
    <3>1. left = LeftOver(total, labour) /\ rank[b] = Queue(total, labour)[b]
          /\ left <= Cardinality(Building)
      <4>1. Cardinality(Building) \in Nat
        BY FS_CardinalityType
      <4>. QED BY <1>2, <1>3, <1>4, <1>6, <4>1 DEF LeftOver, Queue
    <3>2. cents[b] = floors[b] + (IF rank[b] < left THEN 1 ELSE 0)
      BY <1>1, <1>2, <1>4, <1>9, <3>1, OneCentEach
    <3>3. extra[b] = IF rank[b] < left THEN 1 ELSE 0
      BY <1>8
    <3>. QED BY <3>2, <3>3
  <2>2. cents = [b \in Building |-> cents[b]]
    BY <1>9 DEF SplitProRata
  <2>3. \A b \in Building : cents[b] \in Int
    <3>1. \A b \in Building : floors[b] \in Int /\ extra[b] \in Int
      BY <1>5, <1>8
    <3>. QED BY <2>1, <3>1
  <2>. QED BY <2>1, <2>2, <2>3
<1>11. Sum(cents) = total
  <2>1. extra \in [Building -> Int]
    OBVIOUS
  <2>2. Sum(extra) = left
    <3>1. Sum(extra) = Cardinality(Ones(Building, extra))
      BY SumCounts
    <3>2. Ones(Building, extra) = {b \in Building : rank[b] < left}
      BY <1>8 DEF Ones
    <3>3. left \in 0 .. Cardinality(Building)
      <4>1. Cardinality(Building) \in Nat
        BY FS_CardinalityType
      <4>. QED BY <1>4, <4>1
    <3>. QED BY <1>7, <3>1, <3>2, <3>3
  <2>3. Balanced(Building, 1, cents, 1, floors, extra)
    <3>1. ASSUME NEW b \in Building PROVE 1 * cents[b] = 1 * floors[b] + extra[b]
      <4>1. cents[b] = floors[b] + extra[b] /\ floors[b] \in Int /\ extra[b] \in Int
        BY <1>5, <1>10, <2>1
      <4>. QED BY <4>1
    <3>. QED BY <3>1 DEF Balanced
  <2>4. 1 \in Int
    OBVIOUS
  <2>5. SumsBalanced(1, cents, 1, floors, extra)
    BY <1>5, <1>10, <2>1, <2>3, <2>4, SumsAgree, Zenon
  <2>6. Sum(cents) \in Int /\ Sum(floors) \in Int
    BY <1>5, <1>10, SumIsInt
  <2>7. 1 * Sum(cents) = 1 * Sum(floors) + left
    BY <2>2, <2>5 DEF SumsBalanced
  <2>. QED BY <1>3, <1>4, <2>6, <2>7
<1>12. \A b \in Building : extra[b] = 1 => rem[b] > 0
  BY <1>3, <1>4, <1>5, <1>6, <1>8, OnlyFractionsGet
<1>13. ASSUME NEW b \in Building, NEW c \in Building
       PROVE  PaysFairly(total, all, labour[b], cents[b], labour[c], cents[c])
  <2>1. GoesFirst(rem[b], extra[b], rem[c], extra[c])
    <3>1. ASSUME rem[b] > rem[c], extra[c] = 1 PROVE extra[b] = 1
      <4>1. rank[b] < rank[c] /\ rank[c] < left
        BY <1>7, <1>8, <3>1 DEF Before
      <4>2. rank[b] \in Int /\ rank[c] \in Int
        BY <1>7
      <4>. QED BY <1>4, <1>8, <4>1, <4>2
    <3>2. extra[b] \in {0, 1} /\ extra[c] \in {0, 1}
      BY <1>8
    <3>. QED BY <3>1, <3>2 DEF GoesFirst
  <2>2. \A e \in Building : IsPart(total, all, labour[e], floors[e], rem[e], extra[e])
    BY <1>2, <1>8, <1>12 DEF IsPart
  <2>3. PaysFairly(total, all, labour[b], floors[b] + extra[b], labour[c], floors[c] + extra[c])
    BY <1>2, <2>1, <2>2, SharesAreFair, Zenon
  <2>. QED BY <1>10, <2>3, Zenon
<1>. QED BY <1>2, <1>9, <1>11, <1>13 DEF IsExactSplit, PaysFairly

\* So are the pots that TLC tries, and those of any other bounds.
THEOREM SplitsAreExact == SplitIsExact
<1>1. ASSUME NEW total \in 0 .. MaxCents, NEW labour \in [Building -> 0 .. MaxSeconds],
             Sum(labour) > 0
      PROVE  IsExactSplit(total, labour, SplitProRata(total, labour))
  <2>1. total \in Nat /\ labour \in [Building -> Nat]
    BY ProRataAssumption
  <2>. QED BY <1>1, <2>1, AnyPotIsSplitExactly
<1>. QED BY <1>1 DEF SplitIsExact

=============================================================================
