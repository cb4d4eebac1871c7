--------------------------- MODULE IterationLemmas ---------------------------
(***************************************************************************)
(* Facts about numbers, iteration and selections that the other proofs     *)
(* need.  A loop of the code is a recursive function on numbers: the loop  *)
(* that collects the lineage of a review applies one round as often as     *)
(* there are ids, a loop over a sequence has one round for each element.   *)
(* The lemmas say that such a function exists, that every round keeps what *)
(* each round keeps, and that a round that only adds has nothing to add    *)
(* any more at the end.                                                    *)
(***************************************************************************)
EXTENDS Integers, Sequences, Selections, FiniteSetTheorems, WellFoundedInduction, TLAPS

Lesser == {p \in Nat \X Nat : p[1] < p[2]}

LEMMA LesserIsWellFounded == IsWellFoundedOn(Lesser, Nat)
  <1>1. OpToRel(<, Nat) = Lesser
    BY Zenon DEF OpToRel, Lesser
  <1> QED
    BY <1>1, NatLessThanWellFounded

\* Every set of numbers has a least one.
LEMMA LeastNumber ==
  ASSUME NEW S \in SUBSET Nat, S # {}
  PROVE  \E x \in S : \A y \in S : x <= y
  <1>1. PICK x \in S : \A y \in S : ~(<<y, x>> \in Lesser)
    BY LesserIsWellFounded, WFMin
  <1>2. ASSUME NEW y \in S PROVE x <= y
    <2>1. x \in Nat /\ y \in Nat
      OBVIOUS
    <2>2. <<y, x>> \in Nat \X Nat /\ <<y, x>>[1] = y /\ <<y, x>>[2] = x
      BY <2>1
    <2>3. ~(y < x)
      BY <1>1, <2>2 DEF Lesser
    <2> QED
      BY <2>1, <2>3
  <1> QED
    BY <1>2

\* Induction over the numbers, as a statement about a set.
LEMMA EveryNumber ==
  ASSUME NEW S \in SUBSET Nat, 0 \in S, \A n \in S : n + 1 \in S
  PROVE  \A n \in Nat : n \in S
  <1>1. SUFFICES ASSUME Nat \ S # {} PROVE FALSE
    OBVIOUS
  <1>2. PICK m \in Nat \ S : \A y \in Nat \ S : m <= y
    BY <1>1, LeastNumber
  <1>3. m \in Nat /\ m # 0 /\ m \notin S
    BY <1>2
  <1>4. m - 1 \in Nat /\ (m - 1) + 1 = m /\ ~(m <= m - 1)
    BY <1>3
  <1>5. m - 1 \in S
    BY <1>2, <1>4
  <1> QED
    BY <1>3, <1>4, <1>5

-----------------------------------------------------------------------------
\* The beginnings of length n + 1 of the iteration of G from a.
Beginning(S, a, G, n) ==
    {g \in [0..n -> S] : g[0] = a /\ \A k \in Nat : k < n => g[k + 1] = G[g[k]]}

LEMMA BeginningsExist ==
  ASSUME NEW S, NEW a \in S, NEW G \in [S -> S]
  PROVE  \A n \in Nat : Beginning(S, a, G, n) # {}
  <1> DEFINE Good == {n \in Nat : Beginning(S, a, G, n) # {}}
  <1>1. 0 \in Good
    <2> DEFINE g == [k \in 0..0 |-> a]
    <2>1. g \in Beginning(S, a, G, 0)
      BY DEF Beginning
    <2> QED
      BY <2>1
  <1>2. ASSUME NEW n \in Good PROVE n + 1 \in Good
    <2>1. PICK g \in Beginning(S, a, G, n) : TRUE
      BY <1>2
    <2>2. g \in [0..n -> S] /\ g[0] = a /\ \A k \in Nat : k < n => g[k + 1] = G[g[k]]
      BY <2>1 DEF Beginning
    <2>3. n \in Nat
      OBVIOUS
    <2> DEFINE h == [k \in 0..(n + 1) |-> IF k = n + 1 THEN G[g[n]] ELSE g[k]]
    <2>4. g[n] \in S /\ G[g[n]] \in S
      BY <2>2, <2>3
    <2>5. h \in [0..(n + 1) -> S]
      BY <2>2, <2>3, <2>4
    <2>6. h[0] = a
      BY <2>2, <2>3
    <2>7. ASSUME NEW k \in Nat, k < n + 1 PROVE h[k + 1] = G[h[k]]
      <3>1. CASE k = n
        BY <2>3, <3>1
      <3>2. CASE k < n
        <4>1. h[k] = g[k] /\ h[k + 1] = g[k + 1]
          BY <2>3, <3>2
        <4> QED
          BY <2>2, <3>2, <4>1
      <3> QED
        BY <2>3, <2>7, <3>1, <3>2
    <2>8. h \in Beginning(S, a, G, n + 1)
      <3> HIDE DEF h
      <3> QED
        BY <2>5, <2>6, <2>7 DEF Beginning
    <2> QED
      BY <2>3, <2>8
  <1> QED
    <2> HIDE DEF Good
    <2>1. Good \in SUBSET Nat
      BY DEF Good
    <2>2. \A n \in Nat : n \in Good
      BY <1>1, <1>2, <2>1, EveryNumber
    <2> QED
      BY <2>2 DEF Good

LEMMA BeginningsAgree ==
  ASSUME NEW S, NEW a \in S, NEW G \in [S -> S], NEW n \in Nat,
         NEW g \in Beginning(S, a, G, n), NEW h \in Beginning(S, a, G, n + 1)
  PROVE  g[n] = h[n]
  <1> DEFINE Same == {k \in Nat : k <= n => g[k] = h[k]}
  <1>1. 0 \in Same
    BY DEF Beginning
  <1>2. ASSUME NEW k \in Same PROVE k + 1 \in Same
    <2>1. k \in Nat
      OBVIOUS
    <2>2. ASSUME k + 1 <= n PROVE g[k + 1] = h[k + 1]
      <3>1. k < n /\ k < n + 1 /\ k <= n
        BY <2>1, <2>2
      <3>2. g[k] = h[k]
        BY <3>1
      <3>3. g[k + 1] = G[g[k]] /\ h[k + 1] = G[h[k]]
        BY <2>1, <3>1 DEF Beginning
      <3> QED
        BY <3>2, <3>3
    <2> QED
      BY <2>1, <2>2
  <1> QED
    <2> HIDE DEF Same
    <2>1. Same \in SUBSET Nat
      BY DEF Same
    <2>2. n \in Same
      BY <1>1, <1>2, <2>1, EveryNumber
    <2> QED
      BY <2>2 DEF Same

\* The iteration of G from a exists as a function on Nat.
LEMMA IterationExists ==
  ASSUME NEW S, NEW a \in S, NEW G \in [S -> S]
  PROVE  \E f \in [Nat -> S] : f[0] = a /\ \A n \in Nat : f[n + 1] = G[f[n]]
  <1> DEFINE B(n) == CHOOSE g \in Beginning(S, a, G, n) : TRUE
             f == [n \in Nat |-> B(n)[n]]
  <1>1. ASSUME NEW n \in Nat PROVE B(n) \in Beginning(S, a, G, n)
    BY BeginningsExist
  <1>2. ASSUME NEW n \in Nat PROVE B(n)[n] \in S
    <2>1. B(n) \in Beginning(S, a, G, n)
      BY <1>1
    <2> HIDE DEF B
    <2>2. B(n) \in [0..n -> S]
      BY <2>1 DEF Beginning
    <2>3. n \in 0..n
      OBVIOUS
    <2> QED
      BY <2>2, <2>3
  <1>3. f \in [Nat -> S]
    <2> HIDE DEF B
    <2> QED
      BY <1>2
  <1>4. f[0] = a
    <2>1. B(0) \in Beginning(S, a, G, 0)
      BY <1>1
    <2> HIDE DEF B
    <2> QED
      BY <2>1 DEF Beginning
  <1>5. ASSUME NEW n \in Nat PROVE f[n + 1] = G[f[n]]
    <2>1. B(n + 1) \in Beginning(S, a, G, n + 1)
      BY <1>1
    <2>2. B(n + 1)[n + 1] = G[B(n + 1)[n]]
      <3>1. n < n + 1
        OBVIOUS
      <3> HIDE DEF B
      <3> QED
        BY <2>1, <3>1 DEF Beginning
    <2>3. B(n)[n] = B(n + 1)[n]
      <3> HIDE DEF B
      <3> QED
        BY <1>1, <2>1, BeginningsAgree
    <2>4. n + 1 \in Nat
      OBVIOUS
    <2> HIDE DEF B
    <2> QED
      BY <2>2, <2>3, <2>4
  <1> QED
    <2> HIDE DEF f
    <2> QED
      BY <1>3, <1>4, <1>5

-----------------------------------------------------------------------------
\* A round that only adds elements of a finite set has nothing left to add after as many
\* rounds as the set has elements, and what it started from is still there.
LEMMA LastRoundAddsNothing ==
  ASSUME NEW U, IsFiniteSet(U), NEW G \in [SUBSET U -> SUBSET U],
         \A L \in SUBSET U : L \subseteq G[L],
         NEW f \in [Nat -> SUBSET U], f[0] # {}, \A n \in Nat : f[n + 1] = G[f[n]]
  PROVE  /\ f[Cardinality(U)] \in SUBSET U
         /\ f[0] \subseteq f[Cardinality(U)]
         /\ G[f[Cardinality(U)]] = f[Cardinality(U)]
  <1> DEFINE Size(n) == Cardinality(f[n])
             Done(n) == G[f[n]] = f[n]
             Good == {n \in Nat : f[0] \subseteq f[n] /\ (Done(n) \/ n < Size(n))}
  <1>1. Cardinality(U) \in Nat
    BY FS_CardinalityType
  <1>2. ASSUME NEW n \in Nat
        PROVE  f[n] \in SUBSET U /\ IsFiniteSet(f[n]) /\ Size(n) \in Nat /\ Size(n) <= Cardinality(U)
    <2>1. f[n] \in SUBSET U
      OBVIOUS
    <2>2. IsFiniteSet(f[n]) /\ Size(n) <= Cardinality(U)
      BY <2>1, FS_Subset
    <2> QED
      BY <2>1, <2>2, FS_CardinalityType
  <1>3. 0 \in Good
    <2>1. Size(0) # 0
      BY <1>2, FS_EmptySet
    <2>2. Size(0) \in Nat
      BY <1>2
    <2> HIDE DEF Size
    <2> QED
      BY <2>1, <2>2
  <1>4. ASSUME NEW n \in Good PROVE n + 1 \in Good
    <2>1. n \in Nat /\ n + 1 \in Nat /\ f[n + 1] = G[f[n]]
      OBVIOUS
    <2>2. f[n] \subseteq f[n + 1]
      BY <1>2, <2>1
    <2>3. CASE Done(n)
      BY <2>1, <2>2, <2>3
    <2>4. CASE ~Done(n)
      <3>1. n < Size(n) /\ f[n] # f[n + 1]
        BY <2>1, <2>4
      <3>2. Size(n) <= Size(n + 1) /\ Size(n) # Size(n + 1)
        BY <1>2, <2>1, <2>2, <3>1, FS_Subset
      <3>3. Size(n) \in Nat /\ Size(n + 1) \in Nat
        BY <1>2, <2>1
      <3>4. \A x, y \in Nat : n < x /\ x <= y /\ x # y => n + 1 < y
        BY <2>1
      <3>5. n + 1 < Size(n + 1)
        <4> HIDE DEF Size
        <4> QED
          BY <3>1, <3>2, <3>3, <3>4
      <3> QED
        BY <2>1, <2>2, <3>5
    <2> QED
      BY <2>3, <2>4
  <1>5. Cardinality(U) \in Good
    <2> HIDE DEF Good
    <2>1. Good \in SUBSET Nat
      BY DEF Good
    <2> QED
      BY <1>1, <1>3, <1>4, <2>1, EveryNumber
  <1>6. Done(Cardinality(U))
    <2> DEFINE c == Cardinality(U)
    <2>1. ~(c < Size(c))
      <3>1. c \in Nat /\ Size(c) \in Nat /\ Size(c) <= c
        BY <1>1, <1>2
      <3> HIDE DEF c, Size
      <3> QED
        BY <3>1
    <2> QED
      BY <1>5, <2>1
  <1> QED
    BY <1>1, <1>2, <1>5, <1>6

Iterable(S, a, G) == a \in S /\ G \in [S -> S]

LEMMA IterationOfIterable ==
  ASSUME NEW S, NEW a, NEW G, Iterable(S, a, G)
  PROVE  \E f \in [Nat -> S] : f[0] = a /\ \A n \in Nat : f[n + 1] = G[f[n]]
  BY IterationExists, SMTT(30) DEF Iterable

-----------------------------------------------------------------------------
\* A loop of N rounds: what holds before it and is kept by each round holds of all rounds.
LEMMA EveryRound ==
  ASSUME NEW N \in Nat, NEW R, 0 \in R, \A n \in 1..N : n - 1 \in R => n \in R
  PROVE  \A n \in 0..N : n \in R
  <1> DEFINE Good == {n \in Nat : n <= N => n \in R}
  <1>1. 0 \in Good
    OBVIOUS
  <1>2. ASSUME NEW n \in Good PROVE n + 1 \in Good
    <2>1. n \in Nat /\ (n + 1) - 1 = n
      OBVIOUS
    <2>2. ASSUME n + 1 <= N PROVE n + 1 \in R
      <3>1. n + 1 \in 1..N /\ n <= N
        BY <2>1, <2>2
      <3> QED
        BY <2>1, <3>1
    <2> QED
      BY <2>1, <2>2
  <1> QED
    <2> HIDE DEF Good
    <2>1. Good \in SUBSET Nat
      BY DEF Good
    <2>2. \A n \in Nat : n \in Good
      BY <1>1, <1>2, <2>1, EveryNumber
    <2> QED
      BY <2>2 DEF Good

Loopable(S, a, N, G) == a \in S /\ N \in Nat /\ G \in [(1..N) \X S -> S]

\* A loop of N rounds, in which round n makes G[<<n, s>>] of s, exists as a function.
LEMMA LoopExists ==
  ASSUME NEW S, NEW a, NEW N, NEW G, Loopable(S, a, N, G)
  PROVE  \E f \in [0..N -> S] : f[0] = a /\ \A n \in 1..N : f[n] = G[<<n, f[n - 1]>>]
  <1> SUFFICES ASSUME a \in S, N \in Nat, G \in [(1..N) \X S -> S]
               PROVE  \E f \in [0..N -> S] :
                        f[0] = a /\ \A n \in 1..N : f[n] = G[<<n, f[n - 1]>>]
    BY DEF Loopable
  <1> DEFINE P == Nat \X S
             H == [p \in P |-> <<p[1] + 1, IF p[1] + 1 <= N THEN G[<<p[1] + 1, p[2]>>] ELSE p[2]>>]
  <1>1. H \in [P -> P]
    <2> SUFFICES ASSUME NEW m \in Nat, NEW s \in S
                 PROVE  <<m + 1, IF m + 1 <= N THEN G[<<m + 1, s>>] ELSE s>> \in P
      OBVIOUS
    <2>1. m + 1 <= N => <<m + 1, s>> \in (1..N) \X S
      OBVIOUS
    <2>2. m + 1 <= N => G[<<m + 1, s>>] \in S
      BY <2>1
    <2> QED
      BY <2>2
  <1>2. <<0, a>> \in P
    OBVIOUS
  <1>3. PICK g \in [Nat -> P] : g[0] = <<0, a>> /\ \A n \in Nat : g[n + 1] = H[g[n]]
    <2> DEFINE b == <<0, a>>
    <2>1. b \in P
      BY <1>2
    <2> HIDE DEF P, H, b
    <2>2. \E g \in [Nat -> P] : g[0] = b /\ \A n \in Nat : g[n + 1] = H[g[n]]
      <3>1. Iterable(P, b, H)
        BY <1>1, <2>1 DEF Iterable
      <3> QED
        BY <3>1, IterationOfIterable
    <2> QED
      BY <2>2 DEF b
  <1>4. ASSUME NEW n \in Nat PROVE g[n] = <<g[n][1], g[n][2]>> /\ g[n][1] \in Nat /\ g[n][2] \in S
    <2>1. g[n] \in P
      BY <1>3
    <2> QED
      BY <2>1
  <1>5. \A n \in 0..N : n \in {k \in Nat : g[k][1] = k}
    <2> DEFINE R == {k \in Nat : g[k][1] = k}
    <2>1. 0 \in R
      BY <1>3
    <2>2. ASSUME NEW n \in 1..N, n - 1 \in R PROVE n \in R
      <3>1. n - 1 \in Nat /\ (n - 1) + 1 = n /\ n \in Nat
        OBVIOUS
      <3>2. g[n] = H[g[n - 1]] /\ g[n - 1] \in P
        BY <1>3, <3>1
      <3> QED
        BY <2>2, <3>1, <3>2
    <2> HIDE DEF R
    <2>3. \A n \in 0..N : n \in R
      BY <2>1, <2>2, EveryRound
    <2> QED
      BY <2>3 DEF R
  <1> DEFINE f == [n \in 0..N |-> g[n][2]]
  <1>6. f \in [0..N -> S]
    BY <1>4
  <1>7. f[0] = a
    BY <1>3
  <1>8. ASSUME NEW n \in 1..N PROVE f[n] = G[<<n, f[n - 1]>>]
    <2>1. n - 1 \in Nat /\ n - 1 \in 0..N /\ n \in 0..N /\ (n - 1) + 1 = n /\ n \in Nat
      OBVIOUS
    <2>2. g[n] = H[g[n - 1]] /\ g[n - 1] \in P /\ g[n - 1][1] = n - 1
      BY <1>3, <1>5, <2>1
    <2>3. g[n] = <<(n - 1) + 1, G[<<(n - 1) + 1, g[n - 1][2]>>]>>
      <3>1. (n - 1) + 1 <= N
        OBVIOUS
      <3> QED
        BY <2>2, <3>1
    <2>4. g[n][2] = G[<<n, g[n - 1][2]>>]
      BY <2>1, <2>3
    <2> QED
      BY <2>1, <2>4
  <1> QED
    <2> HIDE DEF f
    <2> QED
      BY <1>6, <1>7, <1>8

-----------------------------------------------------------------------------
\* The places of the positions in keep.
LEMMA RankGrows ==
  ASSUME NEW N \in Nat, NEW keep \in SUBSET (1..N)
  PROVE  /\ IsFiniteSet(keep) /\ Cardinality(keep) \in Nat
         /\ \A m \in 0..N : Rank(keep, m) \in Nat /\ Rank(keep, m) <= Cardinality(keep)
         /\ Rank(keep, 0) = 0 /\ Rank(keep, N) = Cardinality(keep)
         /\ \A m \in 1..N : Rank(keep, m) = Rank(keep, m - 1) + IF m \in keep THEN 1 ELSE 0
  <1>0. keep \subseteq 1..N /\ \A j \in keep : j \in Int /\ 1 <= j /\ j <= N
    OBVIOUS
  <1>1. IsFiniteSet(keep)
    <2>1. 1 \in Int /\ N \in Int
      OBVIOUS
    <2>2. IsFiniteSet(1..N)
      BY <2>1, FS_Interval
    <2> QED
      BY <1>0, <2>2, FS_Subset
  <1>2. ASSUME NEW m \in 0..N
        PROVE  /\ IsFiniteSet({j \in keep : j <= m})
               /\ Rank(keep, m) \in Nat /\ Rank(keep, m) <= Cardinality(keep)
    BY <1>1, FS_Subset, FS_CardinalityType DEF Rank
  <1>3. Rank(keep, 0) = 0
    <2>1. \A j \in keep : ~(j <= 0)
      BY <1>0
    <2>2. {j \in keep : j <= 0} = {}
      BY <2>1, Zenon
    <2> QED
      BY <2>2, FS_EmptySet DEF Rank
  <1>4. Rank(keep, N) = Cardinality(keep)
    <2>1. {j \in keep : j <= N} = keep
      BY <1>0
    <2> QED
      BY <2>1 DEF Rank
  <1>5. ASSUME NEW m \in 1..N
        PROVE  Rank(keep, m) = Rank(keep, m - 1) + IF m \in keep THEN 1 ELSE 0
    <2> DEFINE B == {j \in keep : j <= m - 1}
    <2>0. m \in Int /\ m - 1 \in 0..N
      OBVIOUS
    <2>1. IsFiniteSet(B)
      BY <1>2, <2>0
    <2>a. \A j \in keep : j <= m <=> j <= m - 1 \/ j = m
      BY <1>0, <2>0
    <2>2. CASE m \in keep
      <3>0. ~(m <= m - 1) /\ m <= m
        BY <2>0
      <3>1. {j \in keep : j <= m} = B \union {m} /\ m \notin B
        BY <2>2, <2>a, <3>0
      <3>2. Cardinality(B \union {m}) = Cardinality(B) + 1
        <4> HIDE DEF B
        <4> QED
          BY <2>1, <3>1, FS_AddElement
      <3> QED
        BY <2>2, <3>1, <3>2 DEF Rank
    <2>3. CASE m \notin keep
      <3>1. {j \in keep : j <= m} = B
        BY <2>3, <2>a
      <3>2. Cardinality(B) \in Nat
        BY <2>1, FS_CardinalityType
      <3> QED
        BY <2>3, <3>1, <3>2 DEF Rank
    <2> QED
      BY <2>2, <2>3
  <1> QED
    BY <1>1, <1>2, <1>3, <1>4, <1>5, FS_CardinalityType

\* Each place is taken, and by one position only.
LEMMA RankIsOnto ==
  ASSUME NEW N \in Nat, NEW keep \in SUBSET (1..N)
  PROVE  \A k \in 1..Cardinality(keep) : \E i \in keep : Rank(keep, i) = k
  <1> DEFINE R == {m \in Nat : m <= N => \A k \in 1..Rank(keep, m) : \E i \in keep : Rank(keep, i) = k}
  <1>1. 0 \in R
    BY RankGrows
  <1>2. ASSUME NEW m \in 1..N, m - 1 \in R PROVE m \in R
    <2>1. m - 1 \in 0..N /\ m \in 0..N /\ m - 1 <= N /\ m \in Nat
      OBVIOUS
    <2>2. Rank(keep, m - 1) \in Nat /\ Rank(keep, m) \in Nat
          /\ Rank(keep, m) = Rank(keep, m - 1) + IF m \in keep THEN 1 ELSE 0
      BY <2>1, RankGrows
    <2>3. \A k \in 1..Rank(keep, m - 1) : \E i \in keep : Rank(keep, i) = k
      BY <1>2, <2>1
    <2>4. ASSUME NEW k \in 1..Rank(keep, m) PROVE \E i \in keep : Rank(keep, i) = k
      <3>1. CASE m \in keep /\ k = Rank(keep, m)
        BY <3>1
      <3>2. CASE k \in 1..Rank(keep, m - 1)
        BY <2>3, <3>2
      <3> QED
        BY <2>2, <3>1, <3>2
    <2> QED
      BY <2>1, <2>4
  <1>3. \A m \in 0..N : m \in R
    <2> HIDE DEF R
    <2> QED
      BY <1>1, <1>2, EveryRound
  <1>4. N \in R
    BY <1>3
  <1> QED
    BY <1>4, RankGrows

LEMMA RankIsOrder ==
  ASSUME NEW N \in Nat, NEW keep \in SUBSET (1..N)
  PROVE  \A i, j \in keep : i < j => Rank(keep, i) < Rank(keep, j)
  <1>1. /\ IsFiniteSet(keep)
        /\ \A m \in 0..N : Rank(keep, m) \in Nat
        /\ \A m \in 1..N : Rank(keep, m) = Rank(keep, m - 1) + IF m \in keep THEN 1 ELSE 0
    BY RankGrows
  <1>2. \A i \in keep : i \in Int /\ i \in 0..N /\ i \in 1..N /\ i - 1 \in 0..N
    OBVIOUS
  <1> SUFFICES ASSUME NEW i \in keep, NEW j \in keep, i < j
               PROVE  Rank(keep, i) < Rank(keep, j)
    OBVIOUS
  <1>3. {k \in keep : k <= i} \subseteq {k \in keep : k <= j - 1}
    <2>1. \A k \in keep : k <= i => k <= j - 1
      BY <1>2
    <2> QED
      BY <2>1
  <1>4. Rank(keep, i) <= Rank(keep, j - 1)
    <2>1. IsFiniteSet({k \in keep : k <= j - 1})
      BY <1>1, FS_Subset
    <2> QED
      BY <1>3, <2>1, FS_Subset DEF Rank
  <1>5. Rank(keep, j) = Rank(keep, j - 1) + 1
    <2>1. j \in 1..N
      BY <1>2
    <2> QED
      BY <1>1, <2>1
  <1>6. Rank(keep, j - 1) \in Nat /\ Rank(keep, i) \in Nat
    BY <1>1, <1>2
  <1> QED
    BY <1>4, <1>5, <1>6

\* Where the elements of a selection come from.
Places(s, keep, at) ==
  /\ \A k \in DOMAIN Selected(s, keep) : Selected(s, keep)[k] = s[at[k]]
  /\ \A k, l \in DOMAIN Selected(s, keep) : k < l => at[k] < at[l]
  /\ \A i \in keep : \E k \in DOMAIN Selected(s, keep) : at[k] = i

\* A selection has the elements at its positions, each once and in order.
LEMMA SelectedFacts ==
  ASSUME NEW T, NEW s \in Seq(T), NEW keep \in SUBSET DOMAIN s
  PROVE  /\ Selected(s, keep) \in Seq(T)
         /\ Len(Selected(s, keep)) = Cardinality(keep)
         /\ \E at \in [DOMAIN Selected(s, keep) -> keep] : Places(s, keep, at)
  <1> DEFINE n == Len(s)
             c == Cardinality(keep)
             at == [k \in 1..c |-> CHOOSE i \in keep : Rank(keep, i) = k]
  <1>1. n \in Nat /\ keep \in SUBSET (1..n)
    OBVIOUS
  <1>0. \A i, j \in keep : i < j => Rank(keep, i) < Rank(keep, j)
    <2> HIDE DEF n
    <2> QED
      BY <1>1, RankIsOrder
  <1>2. c \in Nat /\ \A i \in keep : Rank(keep, i) \in Nat /\ Rank(keep, i) <= c
    <2>1. \A i \in keep : i \in 0..n
      BY <1>1
    <2> HIDE DEF n
    <2> QED
      BY <1>1, <2>1, RankGrows
  <1>3. \A k \in 1..c : \E i \in keep : Rank(keep, i) = k
    <2> HIDE DEF n
    <2> QED
      BY <1>1, RankIsOnto
  <1>4. \A k \in 1..c : at[k] \in keep /\ Rank(keep, at[k]) = k
    BY <1>3
  <1>5. at \in [1..c -> keep]
    BY <1>4
  <1>6. Selected(s, keep) = [k \in 1..c |-> s[at[k]]]
    BY DEF Selected
  <1>7. \A k \in 1..c : s[at[k]] \in T
    <2> HIDE DEF at, c
    <2> QED
      BY <1>4
  <1>8. Selected(s, keep) \in Seq(T) /\ Len(Selected(s, keep)) = c /\ DOMAIN Selected(s, keep) = 1..c
    <2> HIDE DEF at, c
    <2> QED
      BY <1>2, <1>6, <1>7
  <1>9. ASSUME NEW k \in 1..c, NEW l \in 1..c, k < l PROVE at[k] < at[l]
    <2> DEFINE i == at[k]
               j == at[l]
    <2>1. i \in keep /\ j \in keep /\ Rank(keep, i) = k /\ Rank(keep, j) = l
      BY <1>4
    <2> HIDE DEF at, i, j, c
    <2>2. k \in Nat /\ l \in Nat /\ i \in Int /\ j \in Int
      BY <1>1, <1>2, <2>1
    <2>3. ~(j < i)
      <3> HIDE DEF n
      <3> QED
        BY <1>9, <2>1, <2>2, <1>0
    <2>4. i # j
      BY <1>9, <2>1, <2>2
    <2> QED
      BY <2>2, <2>3, <2>4 DEF i, j
  <1>10. ASSUME NEW i \in keep PROVE \E k \in 1..c : at[k] = i
    <2> DEFINE k == Rank(keep, i)
    <2>1. k \in Nat /\ k <= c
      BY <1>2
    <2>2. k # 0
      <3>1. {x \in keep : x <= i} # {}
        BY <1>1
      <3>2. IsFiniteSet({x \in keep : x <= i})
        <4> HIDE DEF n
        <4> QED
          BY <1>1, RankGrows, FS_Subset
      <3> QED
        BY <3>1, <3>2, FS_EmptySet DEF Rank
    <2>3. k \in 1..c
      <3> HIDE DEF k, c
      <3> QED
        BY <1>2, <2>1, <2>2
    <2>4. at[k] \in keep /\ Rank(keep, at[k]) = k
      BY <1>4, <2>3
    <2>5. at[k] = i
      <3> DEFINE j == at[k]
      <3>1. j \in keep /\ Rank(keep, j) = k
        BY <2>4
      <3> HIDE DEF at, j
      <3>2. i \in Int /\ j \in Int
        BY <1>1, <3>1
      <3>3. ~(i < j) /\ ~(j < i)
        <4> HIDE DEF n
        <4> QED
          BY <1>0, <1>2, <3>1, <3>2
      <3> QED
        BY <3>2, <3>3 DEF j
    <2> QED
      BY <2>3, <2>5
  <1> QED
    <2> HIDE DEF at, c
    <2> QED
      BY <1>5, <1>6, <1>8, <1>9, <1>10 DEF c, Places

\* What is selected are the elements at the positions in keep, no other and all of them.
LEMMA SelectedElements ==
  ASSUME NEW T, NEW s \in Seq(T), NEW keep \in SUBSET DOMAIN s,
         NEW U, \A i \in keep : s[i] \in U
  PROVE  /\ Selected(s, keep) \in Seq(U)
         /\ \A k \in DOMAIN Selected(s, keep) : \E i \in keep : Selected(s, keep)[k] = s[i]
         /\ \A i \in keep : \E k \in DOMAIN Selected(s, keep) : Selected(s, keep)[k] = s[i]
  <1> DEFINE r == Selected(s, keep)
  <1>1. r \in Seq(T) /\ \E at \in [DOMAIN r -> keep] :
              /\ \A k \in DOMAIN r : r[k] = s[at[k]]
              /\ \A i \in keep : \E k \in DOMAIN r : at[k] = i
    BY SelectedFacts DEF Places
  <1> HIDE DEF r
  <1>2. PICK at \in [DOMAIN r -> keep] :
              /\ \A k \in DOMAIN r : r[k] = s[at[k]]
              /\ \A i \in keep : \E k \in DOMAIN r : at[k] = i
    BY <1>1
  <1>3. \A k \in DOMAIN r : r[k] \in U
    BY <1>2
  <1>4. r \in Seq(U)
    BY <1>1, <1>3
  <1> QED
    BY <1>2, <1>4 DEF r

-----------------------------------------------------------------------------
(***************************************************************************)
(* Sums.                                                                   *)
(***************************************************************************)
\* The rounds of a sum.
Sums(s, keep, f) ==
  /\ f \in [0..Len(s) -> Nat] /\ f[0] = 0 /\ Total(s, keep) = f[Len(s)]
  /\ \A n \in 1..Len(s) : f[n] = f[n - 1] + (IF n \in keep THEN s[n] ELSE 0)

LEMMA TotalLoop ==
  ASSUME NEW s \in Seq(Nat), NEW keep
  PROVE  \E f : Sums(s, keep, f)
  <1> DEFINE N == Len(s)
             term == [n \in 1..N |-> IF n \in keep THEN s[n] ELSE 0]
             G == [p \in (1..N) \X Nat |-> p[2] + term[p[1]]]
             Fits(g) == g = [n \in 0..N |-> IF n = 0 THEN 0
                                            ELSE g[n - 1] + (IF n \in keep THEN s[n] ELSE 0)]
             r == CHOOSE g : Fits(g)
  <1>1. Total(s, keep) = r[N]
    BY DEF Total
  <1>2. N \in Nat /\ term \in [1..N -> Nat]
    OBVIOUS
  <1>3. \A n \in 1..N : term[n] = IF n \in keep THEN s[n] ELSE 0
    OBVIOUS
  <1> HIDE DEF r, N, term
  <1>4. G \in [(1..N) \X Nat -> Nat] /\ \A n \in 1..N : \A k \in Nat : G[<<n, k>>] = k + term[n]
    BY <1>2
  <1> HIDE DEF G
  <1>5. PICK f \in [0..N -> Nat] : f[0] = 0 /\ \A n \in 1..N : f[n] = G[<<n, f[n - 1]>>]
    <2>1. Loopable(Nat, 0, N, G)
      BY <1>2, <1>4 DEF Loopable
    <2> QED
      BY <2>1, LoopExists
  <1>6. \A n \in 0..N : n = 0 \/ (n \in 1..N /\ n - 1 \in 0..N)
    BY <1>2
  <1>7. \A n \in 1..N : n \in 0..N /\ n # 0 /\ n - 1 \in 0..N
    BY <1>2
  <1>8. \A n \in 1..N : f[n] = f[n - 1] + (IF n \in keep THEN s[n] ELSE 0)
    BY <1>3, <1>4, <1>5, <1>7
  <1>9. Fits(f)
    <2>1. \A n \in 0..N : f[n] = IF n = 0 THEN 0
                                 ELSE f[n - 1] + (IF n \in keep THEN s[n] ELSE 0)
      BY <1>5, <1>6, <1>8
    <2>2. f = [n \in 0..N |-> f[n]]
      BY <1>5
    <2> QED
      BY <2>1, <2>2
  <1>10. Fits(r)
    <2> HIDE DEF Fits
    <2> QED
      BY <1>9 DEF r
  <1>11. \A n \in 0..N : r[n] = IF n = 0 THEN 0 ELSE r[n - 1] + (IF n \in keep THEN s[n] ELSE 0)
    BY <1>10
  <1>12. r[0] = 0 /\ \A n \in 1..N : r[n] = r[n - 1] + (IF n \in keep THEN s[n] ELSE 0)
    <2>1. 0 \in 0..N
      BY <1>2
    <2> HIDE DEF Fits
    <2> QED
      BY <1>7, <1>11, <2>1
  <1>13. r = [n \in 0..N |-> r[n]]
    BY <1>10
  <1> HIDE DEF Fits
  <1>14. \A n \in 0..N : r[n] \in Nat
    <2> DEFINE R == {n \in 0..N : r[n] \in Nat}
    <2>1. 0 \in R
      BY <1>2, <1>12
    <2>2. ASSUME NEW n \in 1..N, n - 1 \in R PROVE n \in R
      <3>1. r[n] = r[n - 1] + term[n] /\ n \in 0..N
        BY <1>3, <1>7, <1>12
      <3>2. r[n - 1] \in Nat /\ term[n] \in Nat
        BY <1>2, <2>2
      <3> QED
        BY <3>1, <3>2
    <2> HIDE DEF R
    <2>3. \A n \in 0..N : n \in R
      BY <1>2, <2>1, <2>2, EveryRound
    <2> QED
      BY <2>3 DEF R
  <1>15. r \in [0..N -> Nat]
    BY <1>13, <1>14
  <1> QED
    BY <1>1, <1>12, <1>15 DEF Sums, N

LEMMA TotalType ==
  ASSUME NEW s \in Seq(Nat), NEW keep
  PROVE  Total(s, keep) \in Nat
  <1>1. PICK f : Sums(s, keep, f)
    BY TotalLoop
  <1>2. Len(s) \in 0..Len(s)
    OBVIOUS
  <1> QED
    BY <1>1, <1>2 DEF Sums

\* A relation between two sums that holds of no terms and is kept by each term.
LEMMA TotalsCompared ==
  ASSUME NEW s \in Seq(Nat), NEW t \in Seq(Nat), Len(s) = Len(t), NEW K, NEW L, NEW Rel,
         <<0, 0>> \in Rel,
         \A n \in 1..Len(s) : \A a, b \in Nat :
           <<a, b>> \in Rel => <<a + (IF n \in K THEN s[n] ELSE 0),
                                b + (IF n \in L THEN t[n] ELSE 0)>> \in Rel
  PROVE  <<Total(s, K), Total(t, L)>> \in Rel
  <1>1. PICK f : Sums(s, K, f)
    BY TotalLoop
  <1>2. PICK g : Sums(t, L, g)
    BY TotalLoop
  <1> DEFINE N == Len(s)
             R == {n \in 0..N : <<f[n], g[n]>> \in Rel}
  <1>3. N \in Nat /\ 0 \in R
    <2>1. f[0] = 0 /\ g[0] = 0
      BY <1>1, <1>2 DEF Sums
    <2> QED
      BY <2>1
  <1>4. ASSUME NEW n \in 1..N, n - 1 \in R PROVE n \in R
    <2>1. n - 1 \in 0..N /\ n \in 0..N
      OBVIOUS
    <2>2. f[n - 1] \in Nat /\ g[n - 1] \in Nat /\ <<f[n - 1], g[n - 1]>> \in Rel
      BY <1>1, <1>2, <1>4, <2>1 DEF Sums
    <2>3. /\ f[n] = f[n - 1] + (IF n \in K THEN s[n] ELSE 0)
          /\ g[n] = g[n - 1] + (IF n \in L THEN t[n] ELSE 0)
      BY <1>1, <1>2 DEF Sums
    <2> QED
      BY <2>1, <2>2, <2>3
  <1>5. N \in R
    <2> HIDE DEF R
    <2>1. \A n \in 0..N : n \in R
      BY <1>3, <1>4, EveryRound
    <2> QED
      BY <1>3, <2>1
  <1> QED
    BY <1>1, <1>2, <1>5 DEF Sums

LEMMA TotalOfNone ==
  ASSUME NEW s \in Seq(Nat)
  PROVE  Total(s, {}) = 0
  <1> DEFINE Rel == {p \in Nat \X Nat : p[1] = 0}
  <1>1. <<0, 0>> \in Rel
    OBVIOUS
  <1>2. \A n \in 1..Len(s) : \A a, b \in Nat :
          <<a, b>> \in Rel => <<a + (IF n \in {} THEN s[n] ELSE 0), b + (IF n \in {} THEN s[n] ELSE 0)>> \in Rel
    OBVIOUS
  <1> HIDE DEF Rel
  <1>3. <<Total(s, {}), Total(s, {})>> \in Rel
    BY <1>1, <1>2, TotalsCompared
  <1> QED
    BY <1>3 DEF Rel

\* More positions, each with as much or more, have a larger sum.
LEMMA TotalGrows ==
  ASSUME NEW s \in Seq(Nat), NEW t \in Seq(Nat), Len(s) = Len(t), NEW K, NEW L,
         \A n \in DOMAIN s : n \in K => n \in L /\ s[n] <= t[n]
  PROVE  Total(s, K) <= Total(t, L)
  <1> DEFINE Rel == {p \in Nat \X Nat : p[1] <= p[2]}
  <1>1. <<0, 0>> \in Rel
    OBVIOUS
  <1>2. ASSUME NEW n \in 1..Len(s), NEW a \in Nat, NEW b \in Nat, <<a, b>> \in Rel
        PROVE  <<a + (IF n \in K THEN s[n] ELSE 0), b + (IF n \in L THEN t[n] ELSE 0)>> \in Rel
    <2>1. n \in DOMAIN s /\ s[n] \in Nat /\ t[n] \in Nat /\ a <= b
      BY <1>2
    <2>2. CASE n \in K
      <3>1. n \in L /\ s[n] <= t[n]
        BY <2>1, <2>2
      <3> QED
        BY <2>1, <2>2, <3>1
    <2>3. CASE n \notin K /\ n \in L
      BY <2>1, <2>3
    <2>4. CASE n \notin K /\ n \notin L
      BY <2>1, <2>4
    <2> QED
      BY <2>2, <2>3, <2>4
  <1> HIDE DEF Rel
  <1>3. <<Total(s, K), Total(t, L)>> \in Rel
    BY <1>1, <1>2, TotalsCompared
  <1> QED
    BY <1>3 DEF Rel

LEMMA TotalSame ==
  ASSUME NEW s \in Seq(Nat), NEW t \in Seq(Nat), Len(s) = Len(t), NEW K, NEW L,
         \A n \in DOMAIN s : (n \in K <=> n \in L) /\ (n \in K => s[n] = t[n])
  PROVE  Total(s, K) = Total(t, L)
  <1>1. /\ \A n \in DOMAIN s : n \in K => n \in L /\ s[n] <= t[n]
        /\ \A n \in DOMAIN t : n \in L => n \in K /\ t[n] <= s[n]
    OBVIOUS
  <1>2. Total(s, K) <= Total(t, L) /\ Total(t, L) <= Total(s, K)
    BY <1>1, TotalGrows
  <1> QED
    BY <1>2, TotalType

\* A sum over two parts is the sum of the parts.
LEMMA TotalSplits ==
  ASSUME NEW s \in Seq(Nat), NEW K, NEW L, NEW M,
         \A n \in DOMAIN s : (n \in M <=> n \in K \/ n \in L) /\ ~(n \in K /\ n \in L)
  PROVE  Total(s, M) = Total(s, K) + Total(s, L)
  <1>1. PICK f : Sums(s, K, f)
    BY TotalLoop
  <1>2. PICK g : Sums(s, L, g)
    BY TotalLoop
  <1>3. PICK h : Sums(s, M, h)
    BY TotalLoop
  <1> DEFINE N == Len(s)
             R == {n \in 0..N : h[n] = f[n] + g[n]}
  <1>4. N \in Nat /\ 0 \in R
    <2>1. f[0] = 0 /\ g[0] = 0 /\ h[0] = 0
      BY <1>1, <1>2, <1>3 DEF Sums
    <2> QED
      BY <2>1
  <1>5. ASSUME NEW n \in 1..N, n - 1 \in R PROVE n \in R
    <2>1. n - 1 \in 0..N /\ n \in 0..N /\ n \in DOMAIN s /\ s[n] \in Nat
      OBVIOUS
    <2>2. f[n - 1] \in Nat /\ g[n - 1] \in Nat /\ h[n - 1] = f[n - 1] + g[n - 1]
      BY <1>1, <1>2, <1>5, <2>1 DEF Sums
    <2>3. /\ f[n] = f[n - 1] + (IF n \in K THEN s[n] ELSE 0)
          /\ g[n] = g[n - 1] + (IF n \in L THEN s[n] ELSE 0)
          /\ h[n] = h[n - 1] + (IF n \in M THEN s[n] ELSE 0)
      BY <1>1, <1>2, <1>3 DEF Sums
    <2>4. (n \in M <=> n \in K \/ n \in L) /\ ~(n \in K /\ n \in L)
      BY <2>1
    <2>5. h[n] = f[n] + g[n]
      <3>1. CASE n \in K
        BY <2>1, <2>2, <2>3, <2>4, <3>1
      <3>2. CASE n \in L
        BY <2>1, <2>2, <2>3, <2>4, <3>2
      <3>3. CASE n \notin K /\ n \notin L
        BY <2>1, <2>2, <2>3, <2>4, <3>3
      <3> QED
        BY <3>1, <3>2, <3>3
    <2> QED
      BY <2>1, <2>5
  <1>6. N \in R
    <2> HIDE DEF R
    <2>1. \A n \in 0..N : n \in R
      BY <1>4, <1>5, EveryRound
    <2> QED
      BY <1>4, <2>1
  <1> QED
    BY <1>1, <1>2, <1>3, <1>6 DEF Sums

LEMMA TotalOfOne ==
  ASSUME NEW s \in Seq(Nat), NEW i \in DOMAIN s
  PROVE  Total(s, {i}) = s[i]
  <1>1. PICK f : Sums(s, {i}, f)
    BY TotalLoop
  <1> DEFINE N == Len(s)
             R == {n \in 0..N : f[n] = IF n < i THEN 0 ELSE s[i]}
  <1>2. N \in Nat /\ i \in 1..N /\ s[i] \in Nat
    OBVIOUS
  <1>3. 0 \in R
    <2>1. f[0] = 0
      BY <1>1 DEF Sums
    <2> QED
      BY <1>2, <2>1
  <1>4. ASSUME NEW n \in 1..N, n - 1 \in R PROVE n \in R
    <2>1. n - 1 \in 0..N /\ n \in 0..N
      OBVIOUS
    <2>2. f[n] = f[n - 1] + (IF n \in {i} THEN s[n] ELSE 0)
      BY <1>1 DEF Sums
    <2>3. f[n - 1] = IF n - 1 < i THEN 0 ELSE s[i]
      BY <1>4
    <2>4. CASE n = i
      BY <1>2, <2>1, <2>2, <2>3, <2>4
    <2>5. CASE n # i
      BY <1>2, <2>1, <2>2, <2>3, <2>5
    <2> QED
      BY <2>4, <2>5
  <1>5. N \in R
    <2> HIDE DEF R
    <2>1. \A n \in 0..N : n \in R
      BY <1>2, <1>3, <1>4, EveryRound
    <2> QED
      BY <1>2, <2>1
  <1>6. Total(s, {i}) = f[N]
    BY <1>1 DEF Sums
  <1> QED
    BY <1>2, <1>5, <1>6

LEMMA TotalAdds ==
  ASSUME NEW s \in Seq(Nat), NEW K, NEW i \in DOMAIN s, i \notin K
  PROVE  Total(s, K \union {i}) = Total(s, K) + s[i]
  <1>1. \A n \in DOMAIN s : (n \in K \union {i} <=> n \in K \/ n \in {i}) /\ ~(n \in K /\ n \in {i})
    OBVIOUS
  <1>2. Total(s, K \union {i}) = Total(s, K) + Total(s, {i})
    BY <1>1, TotalSplits
  <1> QED
    BY <1>2, TotalOfOne

\* Counting is a sum of ones.
LEMMA TotalCounts ==
  ASSUME NEW s \in Seq(Nat), NEW keep \in SUBSET DOMAIN s,
         \A n \in DOMAIN s : s[n] = IF n \in keep THEN 1 ELSE 0
  PROVE  Total(s, DOMAIN s) = Cardinality(keep)
  <1>1. PICK f : Sums(s, DOMAIN s, f)
    BY TotalLoop
  <1> DEFINE N == Len(s)
             R == {n \in 0..N : f[n] = Rank(keep, n)}
  <1>2. N \in Nat /\ keep \in SUBSET (1..N) /\ DOMAIN s = 1..N
    OBVIOUS
  <1>3. /\ Rank(keep, 0) = 0 /\ Rank(keep, N) = Cardinality(keep)
        /\ \A m \in 1..N : Rank(keep, m) = Rank(keep, m - 1) + IF m \in keep THEN 1 ELSE 0
    BY <1>2, RankGrows
  <1>4. 0 \in R
    <2>1. f[0] = 0
      BY <1>1 DEF Sums
    <2> QED
      BY <1>2, <1>3, <2>1
  <1>5. ASSUME NEW n \in 1..N, n - 1 \in R PROVE n \in R
    <2>1. f[n] = f[n - 1] + (IF n \in DOMAIN s THEN s[n] ELSE 0)
      BY <1>1 DEF Sums
    <2>2. n \in 0..N /\ n \in DOMAIN s /\ f[n - 1] = Rank(keep, n - 1)
      BY <1>5
    <2> QED
      BY <1>3, <2>1, <2>2
  <1>6. N \in R
    <2> HIDE DEF R
    <2>1. \A n \in 0..N : n \in R
      BY <1>2, <1>4, <1>5, EveryRound
    <2> QED
      BY <1>2, <2>1
  <1> QED
    BY <1>1, <1>3, <1>6 DEF Sums

LEMMA TotalOfConcatenation ==
  ASSUME NEW s \in Seq(Nat), NEW t \in Seq(Nat)
  PROVE  /\ s \o t \in Seq(Nat)
         /\ Total(s \o t, DOMAIN (s \o t)) = Total(s, DOMAIN s) + Total(t, DOMAIN t)
  <1> DEFINE u == s \o t
             N == Len(s)
             M == Len(t)
  <1>1. /\ u \in Seq(Nat) /\ Len(u) = N + M /\ N \in Nat /\ M \in Nat
        /\ DOMAIN u = 1..N + M /\ DOMAIN s = 1..N /\ DOMAIN t = 1..M
        /\ \A n \in 1..N : u[n] = s[n]
        /\ \A n \in 1..M : u[N + n] = t[n]
    OBVIOUS
  <1> HIDE DEF u
  <1>2. PICK f : Sums(u, DOMAIN u, f)
    BY <1>1, TotalLoop
  <1>3. PICK g : Sums(s, DOMAIN s, g)
    BY TotalLoop
  <1>4. PICK h : Sums(t, DOMAIN t, h)
    BY TotalLoop
  <1>5. /\ f[0] = 0 /\ \A n \in 1..N + M : f[n] = f[n - 1] + u[n]
        /\ g[0] = 0 /\ \A n \in 1..N : g[n] = g[n - 1] + s[n]
        /\ h[0] = 0 /\ \A n \in 1..M : h[n] = h[n - 1] + t[n]
    BY <1>1, <1>2, <1>3, <1>4 DEF Sums
  <1>6. g \in [0..N -> Nat] /\ h \in [0..M -> Nat]
    BY <1>3, <1>4 DEF Sums
  <1>7. /\ Total(u, DOMAIN u) = f[N + M] /\ Total(s, DOMAIN s) = g[N] /\ Total(t, DOMAIN t) = h[M]
    BY <1>1, <1>2, <1>3, <1>4 DEF Sums
  <1> HIDE DEF N, M
  <1> DEFINE Q == {n \in 0..N : f[n] = g[n]}
             R == {n \in 0..M : f[N + n] = g[N] + h[n]}
  <1>8. 0 \in Q
    BY <1>1, <1>5
  <1>9. ASSUME NEW n \in 1..N, n - 1 \in Q PROVE n \in Q
    <2>1. n \in 1..N + M /\ n \in 0..N
      BY <1>1
    <2> QED
      BY <1>1, <1>5, <1>9, <2>1
  <1>10. N \in Q
    <2> HIDE DEF Q
    <2>1. \A n \in 0..N : n \in Q
      BY <1>1, <1>8, <1>9, EveryRound
    <2> QED
      BY <1>1, <2>1
  <1>11. 0 \in R
    <2>1. N \in 0..N
      BY <1>1
    <2> QED
      BY <1>1, <1>5, <1>6, <1>10, <2>1
  <1>12. ASSUME NEW n \in 1..M, n - 1 \in R PROVE n \in R
    <2>1. N + n \in 1..N + M /\ n \in 0..M /\ n - 1 \in 0..M /\ (N + n) - 1 = N + (n - 1) /\ N \in 0..N
      BY <1>1
    <2>2. f[N + n] = f[N + (n - 1)] + t[n] /\ h[n] = h[n - 1] + t[n]
      BY <1>1, <1>5, <2>1
    <2>3. f[N + (n - 1)] = g[N] + h[n - 1]
      BY <1>12
    <2>4. g[N] \in Nat /\ h[n - 1] \in Nat /\ t[n] \in Nat
      <3>1. g[N] \in Nat /\ h[n - 1] \in Nat
        BY <1>6, <2>1
      <3>2. n \in DOMAIN t
        BY <1>1
      <3> QED
        BY <3>1, <3>2
    <2>5. f[N + n] = g[N] + h[n]
      BY <2>2, <2>3, <2>4
    <2> QED
      BY <2>1, <2>5
  <1>13. M \in R
    <2> HIDE DEF R
    <2>1. \A n \in 0..M : n \in R
      BY <1>1, <1>11, <1>12, EveryRound
    <2> QED
      BY <1>1, <2>1
  <1> QED
    <2>1. f[N + M] = g[N] + h[M]
      BY <1>13
    <2> QED
      BY <1>1, <1>7, <2>1 DEF u

\* The sum over a selection is the sum over the places selected.
LEMMA TotalOfSelection ==
  ASSUME NEW s \in Seq(Nat), NEW keep \in SUBSET DOMAIN s
  PROVE  /\ Selected(s, keep) \in Seq(Nat)
         /\ Total(Selected(s, keep), DOMAIN Selected(s, keep)) = Total(s, keep)
  <1> DEFINE N == Len(s)
             t == Selected(s, keep)
             C == Cardinality(keep)
  <1>1. t \in Seq(Nat) /\ Len(t) = C /\ N \in Nat /\ keep \in SUBSET (1..N) /\ DOMAIN t = 1..C
    BY SelectedFacts
  <1>2. /\ Rank(keep, 0) = 0 /\ Rank(keep, N) = C /\ C \in Nat
        /\ \A m \in 0..N : Rank(keep, m) \in Nat /\ Rank(keep, m) <= C
        /\ \A m \in 1..N : Rank(keep, m) = Rank(keep, m - 1) + IF m \in keep THEN 1 ELSE 0
    BY <1>1, RankGrows
  <1>3. ASSUME NEW i \in keep PROVE Rank(keep, i) \in 1..C /\ t[Rank(keep, i)] = s[i]
    <2>1. i \in 1..N /\ i \in 0..N /\ i - 1 \in 0..N
      BY <1>1
    <2>2. Rank(keep, i) \in 1..C
      <3>1. Rank(keep, i) = Rank(keep, i - 1) + 1
        BY <1>2, <2>1
      <3> QED
        BY <1>2, <2>1, <3>1
    <2> DEFINE j == CHOOSE m \in keep : Rank(keep, m) = Rank(keep, i)
    <2>3. j \in keep /\ Rank(keep, j) = Rank(keep, i)
      OBVIOUS
    <2>4. t[Rank(keep, i)] = s[j]
      <3>1. t = [k \in 1..C |-> s[CHOOSE m \in keep : Rank(keep, m) = k]]
        BY DEF Selected
      <3> HIDE DEF t, C
      <3> QED
        BY <2>2, <3>1
    <2> HIDE DEF j
    <2>5. j = i
      <3>1. j \in 1..N /\ i \in 1..N
        BY <1>1, <2>3
      <3>2. ~(j < i) /\ ~(i < j)
        <4>1. j < i => Rank(keep, j) < Rank(keep, i)
          BY <1>1, <2>3, RankIsOrder
        <4>2. i < j => Rank(keep, i) < Rank(keep, j)
          BY <1>1, <2>3, RankIsOrder
        <4>3. Rank(keep, i) \in Nat
          BY <1>2, <2>1
        <4> QED
          BY <2>3, <4>1, <4>2, <4>3
      <3> QED
        BY <3>1, <3>2
    <2> QED
      BY <2>2, <2>4, <2>5
  <1> HIDE DEF t, C, N
  <1>4. PICK f : Sums(s, keep, f)
    BY TotalLoop
  <1>5. PICK h : Sums(t, DOMAIN t, h)
    BY <1>1, TotalLoop
  <1>6. /\ f[0] = 0 /\ \A n \in 1..N : f[n] = f[n - 1] + (IF n \in keep THEN s[n] ELSE 0)
        /\ h[0] = 0 /\ \A n \in 1..C : h[n] = h[n - 1] + t[n]
    BY <1>1, <1>4, <1>5 DEF Sums, N
  <1>7. Total(s, keep) = f[N] /\ Total(t, DOMAIN t) = h[C]
    BY <1>1, <1>4, <1>5 DEF Sums, N
  <1>8. h \in [0..C -> Nat]
    BY <1>1, <1>5 DEF Sums
  <1> DEFINE R == {n \in 0..N : f[n] = h[Rank(keep, n)]}
  <1>9. 0 \in R
    BY <1>1, <1>2, <1>6
  <1>10. ASSUME NEW n \in 1..N, n - 1 \in R PROVE n \in R
    <2>1. n \in 0..N /\ n - 1 \in 0..N /\ f[n - 1] = h[Rank(keep, n - 1)]
      BY <1>1, <1>10
    <2>2. CASE n \in keep
      <3>1. Rank(keep, n) = Rank(keep, n - 1) + 1 /\ Rank(keep, n - 1) \in Nat
        BY <1>2, <2>1, <2>2
      <3>2. Rank(keep, n) - 1 = Rank(keep, n - 1)
        BY <3>1
      <3>3. Rank(keep, n) \in 1..C /\ t[Rank(keep, n)] = s[n]
        BY <1>3, <2>2
      <3>4. h[Rank(keep, n)] = h[Rank(keep, n - 1)] + s[n]
        BY <1>6, <3>2, <3>3
      <3>5. f[n] = f[n - 1] + s[n]
        BY <1>6, <2>2
      <3> QED
        BY <2>1, <3>4, <3>5
    <2>3. CASE n \notin keep
      <3>1. Rank(keep, n) = Rank(keep, n - 1) /\ Rank(keep, n - 1) \in 0..C
        BY <1>2, <2>1, <2>3
      <3>2. f[n] = f[n - 1] + 0
        BY <1>6, <2>3
      <3>3. h[Rank(keep, n - 1)] \in Nat
        BY <1>8, <3>1
      <3> QED
        BY <2>1, <3>1, <3>2, <3>3
    <2> QED
      BY <2>2, <2>3
  <1>11. N \in R
    <2> HIDE DEF R
    <2>1. \A n \in 0..N : n \in R
      BY <1>1, <1>9, <1>10, EveryRound
    <2> QED
      BY <1>1, <2>1
  <1> QED
    BY <1>1, <1>2, <1>7, <1>11 DEF t

-----------------------------------------------------------------------------
(***************************************************************************)
(* How often a value occurs in a sequence, and in a sequence of sequences. *)
(***************************************************************************)
LEMMA ConcatenationFacts ==
  ASSUME NEW T, NEW s \in Seq(T), NEW t \in Seq(T)
  PROVE  /\ s \o t \in Seq(T) /\ Len(s \o t) = Len(s) + Len(t)
         /\ DOMAIN (s \o t) = 1..Len(s) + Len(t)
         /\ \A n \in DOMAIN (s \o t) : (s \o t)[n] = IF n <= Len(s) THEN s[n] ELSE t[n - Len(s)]
  OBVIOUS

LEMMA SequencesEqual ==
  ASSUME NEW S, NEW T, NEW s \in Seq(S), NEW t \in Seq(T), DOMAIN s = DOMAIN t,
         \A n \in DOMAIN s : s[n] = t[n]
  PROVE  s = t
  <1>1. s = [n \in DOMAIN s |-> s[n]] /\ t = [n \in DOMAIN t |-> t[n]]
    OBVIOUS
  <1> QED
    BY <1>1

Occurrences(w, s) == Cardinality({i \in DOMAIN s : s[i] = w})

LEMMA OccurrencesTotal ==
  ASSUME NEW w, NEW T, NEW s \in Seq(T)
  PROVE  LET one == [i \in DOMAIN s |-> IF s[i] = w THEN 1 ELSE 0]
         IN  /\ one \in Seq(Nat) /\ Len(one) = Len(s) /\ DOMAIN one = DOMAIN s
             /\ Occurrences(w, s) = Total(one, DOMAIN one)
             /\ Occurrences(w, s) \in Nat
  <1> DEFINE one == [i \in DOMAIN s |-> IF s[i] = w THEN 1 ELSE 0]
             keep == {i \in DOMAIN s : s[i] = w}
  <1>1. one \in Seq(Nat) /\ Len(one) = Len(s) /\ DOMAIN one = DOMAIN s
    <2>1. DOMAIN s = 1..Len(s) /\ Len(s) \in Nat
      OBVIOUS
    <2>2. one \in [1..Len(s) -> Nat]
      BY <2>1
    <2> QED
      BY <2>1, <2>2
  <1>2. keep \in SUBSET DOMAIN one /\ \A n \in DOMAIN one : one[n] = IF n \in keep THEN 1 ELSE 0
    BY <1>1
  <1> HIDE DEF one, keep
  <1>3. Total(one, DOMAIN one) = Cardinality(keep)
    BY <1>1, <1>2, TotalCounts
  <1> QED
    BY <1>1, <1>3, TotalType DEF Occurrences, one, keep

LEMMA OccurrencesInBoth ==
  ASSUME NEW w, NEW T, NEW s \in Seq(T), NEW t \in Seq(T)
  PROVE  Occurrences(w, s \o t) = Occurrences(w, s) + Occurrences(w, t)
  <1> DEFINE One(r) == [i \in DOMAIN r |-> IF r[i] = w THEN 1 ELSE 0]
             u == s \o t
  <1>1. /\ u \in Seq(T) /\ Len(u) = Len(s) + Len(t) /\ DOMAIN u = 1..Len(s) + Len(t)
        /\ DOMAIN s = 1..Len(s) /\ DOMAIN t = 1..Len(t) /\ Len(s) \in Nat /\ Len(t) \in Nat
        /\ \A n \in DOMAIN u : u[n] = IF n <= Len(s) THEN s[n] ELSE t[n - Len(s)]
    OBVIOUS
  <1> HIDE DEF u
  <1>2. ASSUME NEW r \in Seq(T)
        PROVE  /\ One(r) \in Seq(Nat) /\ Len(One(r)) = Len(r) /\ DOMAIN One(r) = DOMAIN r
               /\ Occurrences(w, r) = Total(One(r), DOMAIN One(r))
    BY OccurrencesTotal
  <1>3. /\ One(s) \in Seq(Nat) /\ Len(One(s)) = Len(s) /\ DOMAIN One(s) = DOMAIN s
        /\ One(t) \in Seq(Nat) /\ Len(One(t)) = Len(t) /\ DOMAIN One(t) = DOMAIN t
        /\ One(u) \in Seq(Nat) /\ Len(One(u)) = Len(u) /\ DOMAIN One(u) = DOMAIN u
    BY <1>1, <1>2
  <1>4. /\ \A i \in DOMAIN s : One(s)[i] = IF s[i] = w THEN 1 ELSE 0
        /\ \A i \in DOMAIN t : One(t)[i] = IF t[i] = w THEN 1 ELSE 0
        /\ \A i \in DOMAIN u : One(u)[i] = IF u[i] = w THEN 1 ELSE 0
    OBVIOUS
  <1> HIDE DEF One
  <1>5. One(u) = One(s) \o One(t)
    <2> DEFINE v == One(s) \o One(t)
    <2>1. /\ v \in Seq(Nat) /\ DOMAIN v = 1..Len(s) + Len(t)
          /\ \A n \in DOMAIN v : v[n] = IF n <= Len(s) THEN One(s)[n] ELSE One(t)[n - Len(s)]
      <3> DEFINE a == One(s)
                 b == One(t)
      <3>1. a \in Seq(Nat) /\ b \in Seq(Nat) /\ Len(a) = Len(s) /\ Len(b) = Len(t)
        BY <1>3
      <3> HIDE DEF a, b
      <3>2. /\ a \o b \in Seq(Nat) /\ DOMAIN (a \o b) = 1..Len(a) + Len(b)
            /\ \A n \in DOMAIN (a \o b) :
                 (a \o b)[n] = IF n <= Len(a) THEN a[n] ELSE b[n - Len(a)]
        BY <3>1, ConcatenationFacts
      <3>3. /\ a \o b \in Seq(Nat) /\ DOMAIN (a \o b) = 1..Len(s) + Len(t)
            /\ \A n \in DOMAIN (a \o b) :
                 (a \o b)[n] = IF n <= Len(s) THEN a[n] ELSE b[n - Len(s)]
        BY <3>1, <3>2
      <3> QED
        BY <3>3 DEF a, b
    <2>2. \A n \in DOMAIN u : One(u)[n] = v[n]
      <3> SUFFICES ASSUME NEW n \in DOMAIN u PROVE One(u)[n] = v[n]
        OBVIOUS
      <3>1. n \in DOMAIN v /\ n \in 1..Len(s) + Len(t)
        BY <1>1, <2>1
      <3> HIDE DEF v
      <3>2. CASE n <= Len(s)
        <4>1. n \in DOMAIN s
          BY <1>1, <3>1, <3>2
        <4> QED
          BY <1>1, <1>4, <2>1, <3>1, <3>2, <4>1
      <3>3. CASE ~(n <= Len(s))
        <4>1. n - Len(s) \in DOMAIN t
          BY <1>1, <3>1, <3>3
        <4> QED
          BY <1>1, <1>4, <2>1, <3>1, <3>3, <4>1
      <3> QED
        BY <3>2, <3>3
    <2>3. DOMAIN One(u) = DOMAIN u /\ DOMAIN v = DOMAIN u
      BY <1>1, <1>3, <2>1
    <2> HIDE DEF v
    <2>4. One(u) \in Seq(Nat) /\ v \in Seq(Nat) /\ DOMAIN One(u) = DOMAIN v
          /\ \A n \in DOMAIN One(u) : One(u)[n] = v[n]
      BY <1>3, <2>1, <2>2, <2>3
    <2>5. One(u) = v
      BY <2>4, SequencesEqual
    <2> QED
      BY <2>5 DEF v
  <1>6. Total(One(u), DOMAIN One(u)) = Total(One(s), DOMAIN One(s)) + Total(One(t), DOMAIN One(t))
    BY <1>3, <1>5, TotalOfConcatenation
  <1> QED
    BY <1>1, <1>2, <1>6 DEF u
=============================================================================
