---------------------------- MODULE ArrayProofs ----------------------------
(***************************************************************************)
(* What the lists of Arrays hold: each element of the set once, in order;  *)
(* and what sums are, however their terms are grouped.                     *)
(***************************************************************************)
EXTENDS Arrays, Integers, FiniteSetTheorems, TLAPS

LEMMA AheadIsSmaller ==
  ASSUME NEW S, IsFiniteSet(S), NEW R, OrdersTotally(R, S), NEW x \in S, NEW y \in S, <<x, y>> \in R
  PROVE  Cardinality(AheadOf(x, S, R)) < Cardinality(AheadOf(y, S, R))
<1>1. AheadOf(x, S, R) \subseteq AheadOf(y, S, R) /\ AheadOf(y, S, R) \subseteq S
  BY DEF AheadOf, OrdersTotally
<1>2. x \in AheadOf(y, S, R) /\ x \notin AheadOf(x, S, R)
  BY DEF AheadOf, OrdersTotally
<1>3. IsFiniteSet(AheadOf(y, S, R)) /\ IsFiniteSet(AheadOf(x, S, R))
  BY <1>1, FS_Subset
<1>4. Cardinality(AheadOf(x, S, R)) \in Nat /\ Cardinality(AheadOf(y, S, R)) \in Nat
  BY <1>3, FS_CardinalityType
<1> QED BY <1>1, <1>2, <1>3, <1>4, FS_Subset

LEMMA AheadIsProper ==
  ASSUME NEW S, IsFiniteSet(S), NEW R, OrdersTotally(R, S), NEW x \in S
  PROVE  Cardinality(AheadOf(x, S, R)) \in 0 .. Cardinality(S) - 1
<1>1. AheadOf(x, S, R) \subseteq S \ {x}
  BY DEF AheadOf, OrdersTotally
<1>2. IsFiniteSet(S \ {x}) /\ Cardinality(S \ {x}) = Cardinality(S) - 1
  BY FS_RemoveElement
<1>3. IsFiniteSet(AheadOf(x, S, R)) /\ Cardinality(AheadOf(x, S, R)) <= Cardinality(S) - 1
  BY <1>1, <1>2, FS_Subset
<1> QED BY <1>3, FS_CardinalityType

LEMMA RankIsUnique ==
  ASSUME NEW S, IsFiniteSet(S), NEW R, OrdersTotally(R, S), NEW x \in S, NEW y \in S,
         Cardinality(AheadOf(x, S, R)) = Cardinality(AheadOf(y, S, R))
  PROVE  x = y
<1>1. SUFFICES ASSUME x # y PROVE FALSE
  OBVIOUS
<1>2. <<x, y>> \in R \/ <<y, x>> \in R
  BY <1>1 DEF OrdersTotally
<1>3. Cardinality(AheadOf(x, S, R)) \in Int /\ Cardinality(AheadOf(y, S, R)) \in Int
  BY AheadIsProper
<1> QED BY <1>2, <1>3, AheadIsSmaller

LEMMA EveryRankIsTaken ==
  ASSUME NEW S, IsFiniteSet(S), NEW R, OrdersTotally(R, S), NEW k \in 0 .. Cardinality(S) - 1
  PROVE  \E x \in S : Cardinality(AheadOf(x, S, R)) = k
<1> DEFINE n == Cardinality(S)
           rank == [x \in S |-> Cardinality(AheadOf(x, S, R))]
<1>1. n \in Nat
  BY FS_CardinalityType
<1>2. rank \in [S -> 0 .. n - 1]
  BY AheadIsProper
<1>3. \A x, y \in S : rank[x] = rank[y] => x = y
  BY RankIsUnique
<1>4. rank \in Injection(S, 0 .. n - 1)
  BY <1>2, <1>3 DEF Injection, IsInjective
<1>5. IsFiniteSet(0 .. n - 1) /\ Cardinality(0 .. n - 1) = n
  BY <1>1, FS_Interval
<1>6. rank \in Surjection(S, 0 .. n - 1)
  BY <1>4, <1>5, FS_Injection
<1>7. \E x \in S : rank[x] = k
  BY <1>6 DEF Surjection
<1> QED BY <1>7

(* The k-th of the list is the one with k - 1 others before it. *)
LEMMA RankedLists ==
  ASSUME NEW S, IsFiniteSet(S), NEW R, OrdersTotally(R, S)
  PROVE  /\ Cardinality(S) \in Nat
         /\ Ranked(S, R) \in [1 .. Cardinality(S) -> S]
         /\ Ranked(S, R) \in Seq(S) /\ Len(Ranked(S, R)) = Cardinality(S)
         /\ \A k \in 1 .. Cardinality(S) : Cardinality(AheadOf(Ranked(S, R)[k], S, R)) = k - 1
<1>1. Cardinality(S) \in Nat
  BY FS_CardinalityType
<1>2. ASSUME NEW k \in 1 .. Cardinality(S)
      PROVE  Ranked(S, R)[k] \in S /\ Cardinality(AheadOf(Ranked(S, R)[k], S, R)) = k - 1
  <2>1. \E x \in S : Cardinality(AheadOf(x, S, R)) = k - 1
    BY <1>1, EveryRankIsTaken
  <2> QED BY <2>1 DEF Ranked
<1>3. Ranked(S, R) \in [1 .. Cardinality(S) -> S]
  BY <1>2 DEF Ranked
<1>4. Ranked(S, R) \in Seq(S) /\ Len(Ranked(S, R)) = Cardinality(S)
  BY <1>1, <1>3
<1> QED BY <1>1, <1>2, <1>3, <1>4

(* No element is lost, and each is where its rank puts it. *)
LEMMA RankedHoldsAll ==
  ASSUME NEW S, IsFiniteSet(S), NEW R, OrdersTotally(R, S), NEW x \in S
  PROVE  /\ Cardinality(AheadOf(x, S, R)) + 1 \in 1 .. Cardinality(S)
         /\ Ranked(S, R)[Cardinality(AheadOf(x, S, R)) + 1] = x
<1> DEFINE k == Cardinality(AheadOf(x, S, R)) + 1
<1>1. k \in 1 .. Cardinality(S) /\ k - 1 = Cardinality(AheadOf(x, S, R))
  BY AheadIsProper, FS_CardinalityType
<1>2. Ranked(S, R)[k] \in S /\ Cardinality(AheadOf(Ranked(S, R)[k], S, R)) = k - 1
  BY <1>1, RankedLists
<1> QED BY <1>1, <1>2, RankIsUnique

LEMMA RankedIsOnto ==
  ASSUME NEW S, IsFiniteSet(S), NEW R, OrdersTotally(R, S)
  PROVE  {Ranked(S, R)[k] : k \in DOMAIN Ranked(S, R)} = S
<1>1. DOMAIN Ranked(S, R) = 1 .. Cardinality(S) /\ \A k \in 1 .. Cardinality(S) : Ranked(S, R)[k] \in S
  BY RankedLists
<1>2. \A x \in S : \E k \in 1 .. Cardinality(S) : Ranked(S, R)[k] = x
  BY RankedHoldsAll
<1> QED BY <1>1, <1>2

(* The list is in order. *)
LEMMA RankedIsOrdered ==
  ASSUME NEW S, IsFiniteSet(S), NEW R, OrdersTotally(R, S),
         NEW i \in 1 .. Cardinality(S), NEW j \in 1 .. Cardinality(S), i < j
  PROVE  <<Ranked(S, R)[i], Ranked(S, R)[j]>> \in R
<1> DEFINE x == Ranked(S, R)[i]
           y == Ranked(S, R)[j]
<1>1. /\ x \in S /\ Cardinality(AheadOf(x, S, R)) = i - 1
      /\ y \in S /\ Cardinality(AheadOf(y, S, R)) = j - 1
  BY RankedLists
<1>2. Cardinality(S) \in Nat
  BY FS_CardinalityType
<1>3. x # y
  BY <1>1, <1>2
<1>4. <<y, x>> \notin R
  BY <1>1, <1>2, AheadIsSmaller
<1> QED BY <1>1, <1>3, <1>4 DEF OrdersTotally

(* A sort loses nothing, repeats nothing and puts the earlier first, for    *)
(* any finite set and any total order (the sorts of search results,        *)
(* EverythingDropdown.tsx 151-161, and of events, MissionControl.tsx 195). *)
THEOREM RankingCorrect ==
  ASSUME NEW S, IsFiniteSet(S), NEW R, OrdersTotally(R, S)
  PROVE  /\ Ranked(S, R) \in Seq(S) /\ Len(Ranked(S, R)) = Cardinality(S)
         /\ {Ranked(S, R)[k] : k \in DOMAIN Ranked(S, R)} = S
         /\ \A i, j \in 1 .. Cardinality(S) : i < j => <<Ranked(S, R)[i], Ranked(S, R)[j]>> \in R
BY RankedLists, RankedIsOnto, RankedIsOrdered

LEMMA EarlierIsTotal == ASSUME NEW rows \in SUBSET Int PROVE OrdersTotally(Earlier(rows), rows)
BY DEF OrdersTotally, Earlier

(* What a filter keeps of a list are elements of the list at the places    *)
(* kept, and all of them.                                                  *)
LEMMA KeptLists ==
  ASSUME NEW s, NEW rows \in SUBSET Int, IsFiniteSet(rows)
  PROVE  /\ Cardinality(rows) \in Nat
         /\ DOMAIN Kept(s, rows) = 1 .. Cardinality(rows)
         /\ Kept(s, rows) \in Seq({s[i] : i \in rows})
         /\ Len(Kept(s, rows)) = Cardinality(rows)
         /\ \A k \in 1 .. Cardinality(rows) : \E i \in rows : Kept(s, rows)[k] = s[i]
         /\ \A i \in rows : \E k \in 1 .. Cardinality(rows) : Kept(s, rows)[k] = s[i]
<1> DEFINE order == Ranked(rows, Earlier(rows))
<1>1. /\ Cardinality(rows) \in Nat /\ order \in [1 .. Cardinality(rows) -> rows]
  BY EarlierIsTotal, RankedLists
<1>2. \A i \in rows : \E k \in 1 .. Cardinality(rows) : order[k] = i
  BY EarlierIsTotal, RankedHoldsAll
<1>3. Kept(s, rows) = [k \in 1 .. Cardinality(rows) |-> s[order[k]]]
  BY <1>1 DEF Kept
<1> HIDE DEF order
<1>4. Kept(s, rows) \in [1 .. Cardinality(rows) -> {s[i] : i \in rows}]
  BY <1>1, <1>3
<1>5. Kept(s, rows) \in Seq({s[i] : i \in rows}) /\ Len(Kept(s, rows)) = Cardinality(rows)
  BY <1>1, <1>4
<1>6. \A k \in 1 .. Cardinality(rows) : \E i \in rows : Kept(s, rows)[k] = s[i]
  BY <1>1, <1>3
<1>7. \A i \in rows : \E k \in 1 .. Cardinality(rows) : Kept(s, rows)[k] = s[i]
  BY <1>2, <1>3
<1> QED BY <1>1, <1>3, <1>5, <1>6, <1>7

(* Each element kept has a place of its own. *)
KeepsAt(order, s, rows) ==
  /\ order \in [1 .. Cardinality(rows) -> rows]
  /\ \A k \in 1 .. Cardinality(rows) : Kept(s, rows)[k] = s[order[k]]
  /\ \A i \in rows : \E k \in 1 .. Cardinality(rows) : order[k] = i
  /\ \A k, l \in 1 .. Cardinality(rows) : order[k] = order[l] => k = l

LEMMA KeptPlaces ==
  ASSUME NEW s, NEW rows \in SUBSET Int, IsFiniteSet(rows)
  PROVE  \E order : KeepsAt(order, s, rows)
<1> DEFINE order == Ranked(rows, Earlier(rows))
<1>1. Cardinality(rows) \in Nat /\ order \in [1 .. Cardinality(rows) -> rows]
  BY EarlierIsTotal, RankedLists
<1>2. \A i \in rows : \E k \in 1 .. Cardinality(rows) : order[k] = i
  BY EarlierIsTotal, RankedHoldsAll
<1>3. \A k \in 1 .. Cardinality(rows) : Kept(s, rows)[k] = s[order[k]]
  BY <1>1 DEF Kept
<1>4. \A k \in 1 .. Cardinality(rows) : Cardinality(AheadOf(order[k], rows, Earlier(rows))) = k - 1
  BY EarlierIsTotal, RankedLists
<1> HIDE DEF order
<1>5. \A k, l \in 1 .. Cardinality(rows) : order[k] = order[l] => k = l
  BY <1>1, <1>4
<1> QED BY <1>1, <1>2, <1>3, <1>5 DEF KeepsAt

(* What is left of a list of n without its middle: the first p and the      *)
(* last q.                                                                  *)
Ends(n, p, q) == (1 .. p) \cup (n - q + 1 .. n)
AtEnds(n, p, q) == [k \in 1 .. p + q |-> IF k <= p THEN k ELSE n - q + (k - p)]
KeptAtEnds(s, n, p, q) == [k \in 1 .. p + q |-> s[AtEnds(n, p, q)[k]]]

LEMMA KeptEnds ==
  ASSUME NEW s, NEW n \in Nat, NEW p \in Nat, NEW q \in Nat, p + q <= n
  PROVE  Kept(s, Ends(n, p, q)) = KeptAtEnds(s, n, p, q)
<1> DEFINE rows == (1 .. p) \cup (n - q + 1 .. n)
           R == Earlier(rows)
           at(k) == IF k <= p THEN k ELSE n - q + (k - p)
<1>1. \A i, j \in Int : IsFiniteSet(i .. j) /\ Cardinality(i .. j) = IF i > j THEN 0 ELSE j - i + 1
  BY FS_Interval
<1>2. ASSUME NEW j \in 0 .. q
      PROVE  /\ IsFiniteSet((1 .. p) \cup (n - q + 1 .. n - q + j))
             /\ Cardinality((1 .. p) \cup (n - q + 1 .. n - q + j)) = p + j
  <2>1. IsFiniteSet(1 .. p) /\ Cardinality(1 .. p) = p
    BY <1>1
  <2>2. IsFiniteSet(n - q + 1 .. n - q + j) /\ Cardinality(n - q + 1 .. n - q + j) = j
    <3>1. n - q + 1 \in Int /\ n - q + j \in Int /\ (n - q + 1 > n - q + j <=> j = 0)
      OBVIOUS
    <3>2. Cardinality(n - q + 1 .. n - q + j) = IF n - q + 1 > n - q + j THEN 0 ELSE (n - q + j) - (n - q + 1) + 1
      BY <1>1, <3>1
    <3>3. (n - q + j) - (n - q + 1) + 1 = j
      OBVIOUS
    <3> QED BY <1>1, <3>1, <3>2, <3>3
  <2>3. (1 .. p) \cap (n - q + 1 .. n - q + j) = {}
    OBVIOUS
  <2>4. Cardinality((1 .. p) \cap (n - q + 1 .. n - q + j)) = 0
    BY <2>3, FS_EmptySet
  <2>5. Cardinality((1 .. p) \cup (n - q + 1 .. n - q + j)) =
          Cardinality(1 .. p) + Cardinality(n - q + 1 .. n - q + j) - Cardinality((1 .. p) \cap (n - q + 1 .. n - q + j))
    BY <2>1, <2>2, FS_Union
  <2>6. IsFiniteSet((1 .. p) \cup (n - q + 1 .. n - q + j))
    BY <2>1, <2>2, FS_Union
  <2> QED BY <2>1, <2>2, <2>4, <2>5, <2>6
<1>3. rows \in SUBSET Int /\ IsFiniteSet(rows) /\ Cardinality(rows) = p + q
  <2>1. rows = (1 .. p) \cup (n - q + 1 .. n - q + q) /\ q \in 0 .. q
    OBVIOUS
  <2> QED BY <1>2, <2>1
<1>4. OrdersTotally(R, rows)
  BY <1>3, EarlierIsTotal
<1>5. ASSUME NEW k \in 1 .. p + q PROVE at(k) \in rows /\ Cardinality(AheadOf(at(k), rows, R)) = k - 1
  <2>1. at(k) \in rows
    OBVIOUS
  <2>2. CASE k <= p
    <3>1. AheadOf(at(k), rows, R) = 1 .. k - 1
      BY <2>1, <2>2 DEF AheadOf, Earlier
    <3> QED BY <1>1, <2>1, <2>2, <3>1
  <2>3. CASE k > p
    <3>1. AheadOf(at(k), rows, R) = (1 .. p) \cup (n - q + 1 .. n - q + (k - p - 1))
      BY <2>1, <2>3 DEF AheadOf, Earlier
    <3>2. k - p - 1 \in 0 .. q /\ p + (k - p - 1) = k - 1
      BY <2>3
    <3> HIDE DEF rows
    <3> QED BY <1>2, <2>1, <3>1, <3>2
  <2> QED BY <2>2, <2>3
<1> HIDE DEF rows, R, at
<1>6. ASSUME NEW k \in 1 .. p + q PROVE Ranked(rows, R)[k] = at(k)
  <2>1. Ranked(rows, R)[Cardinality(AheadOf(at(k), rows, R)) + 1] = at(k)
    BY <1>3, <1>4, <1>5, RankedHoldsAll
  <2> QED BY <1>5, <2>1
<1>7. DOMAIN Ranked(rows, R) = 1 .. p + q
  BY <1>3, <1>4, RankedLists
<1>8. Kept(s, rows) = [k \in 1 .. p + q |-> s[Ranked(rows, R)[k]]]
  BY <1>7 DEF Kept, R
<1>9. \A k \in 1 .. p + q : AtEnds(n, p, q)[k] = at(k)
  BY DEF AtEnds, at
<1> QED BY <1>6, <1>8, <1>9 DEF rows, Ends, KeptAtEnds

LEMMA ConcatIs ==
  ASSUME NEW S, NEW s \in Seq(S), NEW t \in Seq(S)
  PROVE  /\ s \o t \in Seq(S)
         /\ Len(s) \in Nat /\ Len(t) \in Nat /\ DOMAIN (s \o t) = 1 .. Len(s) + Len(t)
         /\ \A m \in 1 .. Len(s) : (s \o t)[m] = s[m]
         /\ \A m \in 1 .. Len(t) : (s \o t)[Len(s) + m] = t[m]
OBVIOUS

(* The first n of a list are its own, at the same places.                  *)
LEMMA FirstAreOf ==
  ASSUME NEW S, NEW seq \in Seq(S), NEW n \in Nat
  PROVE  /\ FirstOf(seq, n) \in Seq(S)
         /\ Len(FirstOf(seq, n)) = IF Len(seq) < n THEN Len(seq) ELSE n
         /\ \A k \in DOMAIN FirstOf(seq, n) : k \in DOMAIN seq /\ FirstOf(seq, n)[k] = seq[k]
         /\ \A k \in DOMAIN seq : k <= n => k \in DOMAIN FirstOf(seq, n)
BY DEF FirstOf

-----------------------------------------------------------------------------
(* A sum is the number of pairs of a term's place and one of as many things *)
(* as the term says.  Pairs can be counted in any order, and grouped.       *)
Pairs(F) == {p \in (DOMAIN F) \X UNION {F[d] : d \in DOMAIN F} : p[2] \in F[p[1]]}
PairsIn(F, T) == {p \in Pairs(F) : p[1] \in T}

FinitePairs(F) == IsFiniteSet(DOMAIN F) /\ \A d \in DOMAIN F : IsFiniteSet(F[d])

LEMMA PairsAre ==
  ASSUME NEW F
  PROVE  /\ \A p \in Pairs(F) : p = <<p[1], p[2]>> /\ p[1] \in DOMAIN F /\ p[2] \in F[p[1]]
         /\ \A d \in DOMAIN F : \A u \in F[d] : <<d, u>> \in Pairs(F)
BY DEF Pairs

LEMMA PairsAreFinite ==
  ASSUME NEW F, FinitePairs(F)
  PROVE  IsFiniteSet(Pairs(F))
<1> DEFINE Values == {F[d] : d \in DOMAIN F}
           value == [d \in DOMAIN F |-> F[d]]
<1>1. value \in Surjection(DOMAIN F, Values)
  BY DEF Surjection
<1>2. IsFiniteSet(Values) /\ \A V \in Values : IsFiniteSet(V)
  BY <1>1, FS_Surjection DEF FinitePairs
<1>3. IsFiniteSet(UNION Values)
  BY <1>2, FS_UNION
<1>4. IsFiniteSet((DOMAIN F) \X UNION Values)
  BY <1>3, FS_Product DEF FinitePairs
<1>5. Pairs(F) \subseteq (DOMAIN F) \X UNION Values
  BY DEF Pairs
<1> QED BY <1>4, <1>5, FS_Subset

LEMMA PairsWithout ==
  ASSUME NEW F, FinitePairs(F), NEW T \in SUBSET DOMAIN F, NEW x \in T
  PROVE  Cardinality(PairsIn(F, T)) = Cardinality(F[x]) + Cardinality(PairsIn(F, T \ {x}))
<1> DEFINE A == {x} \X F[x]
           B == PairsIn(F, T \ {x})
<1>1. PairsIn(F, T) = A \cup B
  BY DEF PairsIn, Pairs
<1>2. A \cap B = {}
  BY DEF PairsIn
<1>3. IsFiniteSet(B)
  BY PairsAreFinite, FS_Subset DEF PairsIn
<1>4. IsFiniteSet({x}) /\ Cardinality({x}) = 1
  BY FS_Singleton
<1>5. IsFiniteSet(F[x]) /\ Cardinality(F[x]) \in Nat
  BY FS_CardinalityType DEF FinitePairs
<1>6. IsFiniteSet(A) /\ Cardinality(A) = 1 * Cardinality(F[x])
  BY <1>4, <1>5, FS_Product
<1>7. Cardinality(A \cup B) = Cardinality(A) + Cardinality(B) - Cardinality(A \cap B)
  BY <1>3, <1>6, FS_Union
<1>8. Cardinality(A \cap B) = 0
  BY <1>2, FS_EmptySet
<1>9. Cardinality(B) \in Nat
  BY <1>3, FS_CardinalityType
<1> HIDE DEF A, B
<1>10. Cardinality(A \cup B) = Cardinality(F[x]) + Cardinality(B)
  BY <1>5, <1>6, <1>7, <1>8, <1>9
<1> QED BY <1>1, <1>10 DEF B

(* What SumOf computes: its recursion has a solution, the numbers of pairs, *)
(* and no other.  Were there a set of terms on which they differ, a         *)
(* smallest one would differ in a smaller one too.                          *)
THEOREM SumsArePairs ==
  ASSUME NEW F, FinitePairs(F), NEW f, DOMAIN f = DOMAIN F, \A d \in DOMAIN F : f[d] = Cardinality(F[d])
  PROVE  SumOf(f) = Cardinality(Pairs(F))
<1> DEFINE D == DOMAIN f
           sum[S \in SUBSET D] == IF S = {} THEN 0
                                  ELSE LET x == CHOOSE y \in S : TRUE IN f[x] + sum[S \ {x}]
           Step(g) == [S \in SUBSET D |-> IF S = {} THEN 0
                                  ELSE LET x == CHOOSE y \in S : TRUE IN f[x] + g[S \ {x}]]
           size == [S \in SUBSET D |-> Cardinality(PairsIn(F, S))]
<1>1. size = Step(size)
  <2>1. ASSUME NEW S \in SUBSET D, S = {} PROVE size[S] = 0
    <3>1. PairsIn(F, {}) = {}
      BY DEF PairsIn
    <3> QED BY <2>1, <3>1, FS_EmptySet
  <2>2. ASSUME NEW S \in SUBSET D, S # {}, NEW x, x = CHOOSE y \in S : TRUE
        PROVE  size[S] = f[x] + size[S \ {x}]
    <3>1. x \in S
      BY <2>2
    <3>2. Cardinality(PairsIn(F, S)) = Cardinality(F[x]) + Cardinality(PairsIn(F, S \ {x}))
      BY <3>1, PairsWithout
    <3> QED BY <3>1, <3>2
  <2> HIDE DEF size
  <2>3. \A S \in SUBSET D : size[S] = Step(size)[S]
    BY <2>1, <2>2
  <2>4. size = [S \in SUBSET D |-> size[S]]
    BY DEF size
  <2> QED BY <2>3, <2>4
<1>2. sum = CHOOSE g : g = Step(g)
  BY DEF sum
<1> HIDE DEF sum, size, Step
<1>3. sum = Step(sum)
  BY <1>1, <1>2
<1>4. \A S \in SUBSET D : sum[S] = size[S]
  <2> DEFINE Differ == {S \in SUBSET D : sum[S] # size[S]}
  <2> SUFFICES ASSUME Differ # {} PROVE FALSE
    OBVIOUS
  <2>1. IsWellFoundedOn(StrictSubsetOrdering(D), SUBSET D)
    BY FS_StrictSubsetOrderingWellFounded, FS_FiniteSubsetsOfFinite DEF FinitePairs
  <2>2. PICK S \in Differ : \A T \in Differ : <<T, S>> \notin StrictSubsetOrdering(D)
    BY <2>1, WFMin
  <2>3. \A T \in SUBSET D : T \subseteq S /\ T # S => sum[T] = size[T]
    BY <2>2 DEF StrictSubsetOrdering
  <2>4. S # {}
    BY <1>1, <1>3, <2>2 DEF Step
  <2>5. PICK x : x = CHOOSE y \in S : TRUE
    OBVIOUS
  <2>6. x \in S
    BY <2>4, <2>5
  <2>7. sum[S] = f[x] + sum[S \ {x}] /\ size[S] = f[x] + size[S \ {x}]
    BY <1>1, <1>3, <2>2, <2>4, <2>5 DEF Step
  <2>8. sum[S \ {x}] = size[S \ {x}]
    BY <2>2, <2>3, <2>6
  <2> QED BY <2>2, <2>7, <2>8
<1>5. SumOf(f) = sum[D]
  BY DEF SumOf, sum
<1>6. size[D] = Cardinality(Pairs(F))
  <2>1. PairsIn(F, D) = Pairs(F)
    BY DEF PairsIn, Pairs
  <2> QED BY <2>1 DEF size
<1> QED BY <1>4, <1>5, <1>6

(* Numbers as sets of as many things. *)
Units(f) == Pairs([d \in DOMAIN f |-> 1 .. f[d]])

LEMMA CountsAreFinite ==
  ASSUME NEW n \in Nat
  PROVE  IsFiniteSet(1 .. n) /\ Cardinality(1 .. n) = n
BY FS_Interval

LEMMA SumsAreUnits ==
  ASSUME NEW f, Counts(f)
  PROVE  /\ IsFiniteSet(Units(f)) /\ SumOf(f) = Cardinality(Units(f)) /\ SumOf(f) \in Nat
         /\ \A p \in Units(f) : p = <<p[1], p[2]>> /\ p[1] \in DOMAIN f /\ p[2] \in 1 .. f[p[1]]
         /\ \A d \in DOMAIN f : \A u \in 1 .. f[d] : <<d, u>> \in Units(f)
<1> DEFINE F == [d \in DOMAIN f |-> 1 .. f[d]]
<1>1. \A d \in DOMAIN f : f[d] \in Nat
  BY DEF Counts
<1>2. FinitePairs(F) /\ \A d \in DOMAIN F : f[d] = Cardinality(F[d])
  BY <1>1, CountsAreFinite DEF FinitePairs, Counts
<1>3. SumOf(f) = Cardinality(Pairs(F)) /\ IsFiniteSet(Pairs(F))
  BY <1>2, SumsArePairs, PairsAreFinite
<1>4. Cardinality(Pairs(F)) \in Nat
  BY <1>3, FS_CardinalityType
<1>5. /\ \A p \in Pairs(F) : p = <<p[1], p[2]>> /\ p[1] \in DOMAIN f /\ p[2] \in 1 .. f[p[1]]
      /\ \A d \in DOMAIN f : \A u \in 1 .. f[d] : <<d, u>> \in Pairs(F)
  <2>1. DOMAIN F = DOMAIN f /\ \A d \in DOMAIN f : F[d] = 1 .. f[d]
    OBVIOUS
  <2> HIDE DEF F
  <2> QED BY <2>1, PairsAre
<1> QED BY <1>3, <1>4, <1>5 DEF Units

(* The terms in another order, under other names.                          *)
LEMMA SumRenamed ==
  ASSUME NEW f, Counts(f), NEW g, Counts(g), NEW b \in Bijection(DOMAIN g, DOMAIN f),
         \A e \in DOMAIN g : g[e] = f[b[e]]
  PROVE  SumOf(g) = SumOf(f)
<1> DEFINE c == [p \in Units(g) |-> <<b[p[1]], p[2]>>]
<1>1. /\ \A e \in DOMAIN g : b[e] \in DOMAIN f
      /\ \A e, d \in DOMAIN g : b[e] = b[d] => e = d
      /\ \A d \in DOMAIN f : \E e \in DOMAIN g : b[e] = d
  BY DEF Bijection, Injection, IsInjective, Surjection
<1>2. \A p \in Units(g) : c[p] \in Units(f)
  BY <1>1, SumsAreUnits
<1>3. \A p, q \in Units(g) : c[p] = c[q] => p = q
  BY <1>1, SumsAreUnits
<1>4. ASSUME NEW q \in Units(f) PROVE \E p \in Units(g) : c[p] = q
  <2>1. q = <<q[1], q[2]>> /\ q[1] \in DOMAIN f /\ q[2] \in 1 .. f[q[1]]
    BY SumsAreUnits
  <2>2. PICK e \in DOMAIN g : b[e] = q[1]
    BY <1>1, <2>1
  <2>3. <<e, q[2]>> \in Units(g)
    BY <2>1, <2>2, SumsAreUnits
  <2>4. c[<<e, q[2]>>] = q
    BY <2>1, <2>2, <2>3
  <2> QED BY <2>3, <2>4
<1>5. c \in Bijection(Units(g), Units(f))
  BY <1>2, <1>3, <1>4 DEF Bijection, Injection, IsInjective, Surjection
<1> QED BY <1>5, SumsAreUnits, FS_Bijection DEF ExistsBijection

(* The terms in two parts.                                                  *)
LEMMA SumInParts ==
  ASSUME NEW f, Counts(f), NEW T \in SUBSET DOMAIN f
  PROVE  SumOf([d \in T |-> f[d]]) + SumOf([d \in DOMAIN f \ T |-> f[d]]) = SumOf(f)
<1> DEFINE g == [d \in T |-> f[d]]
           h == [d \in DOMAIN f \ T |-> f[d]]
<1>1. Counts(g) /\ Counts(h)
  BY FS_Subset DEF Counts
<1>2. Units(g) \cap Units(h) = {}
  BY <1>1, SumsAreUnits
<1>3. Units(g) \cup Units(h) = Units(f)
  <2>1. \A p \in Units(g) \cup Units(h) : p \in Units(f)
    BY <1>1, SumsAreUnits
  <2>2. \A p \in Units(f) : p \in Units(g) \cup Units(h)
    BY <1>1, SumsAreUnits
  <2> QED BY <2>1, <2>2
<1> HIDE DEF g, h
<1>4. IsFiniteSet(Units(g)) /\ IsFiniteSet(Units(h))
  BY <1>1, SumsAreUnits
<1>5. Cardinality(Units(f)) = Cardinality(Units(g)) + Cardinality(Units(h)) - Cardinality(Units(g) \cap Units(h))
  BY <1>3, <1>4, FS_Union
<1>6. Cardinality(Units(g) \cap Units(h)) = 0
  BY <1>2, FS_EmptySet
<1>7. /\ SumOf(f) = Cardinality(Units(f)) /\ SumOf(g) = Cardinality(Units(g)) /\ SumOf(h) = Cardinality(Units(h))
      /\ SumOf(g) \in Nat /\ SumOf(h) \in Nat
  BY <1>1, SumsAreUnits
<1>8. SumOf(g) + SumOf(h) = SumOf(f)
  BY <1>5, <1>6, <1>7
<1> QED BY <1>8 DEF g, h

(* A sum of sums counts pairs of a term and a unit of it.                   *)
FiniteCounts(F) == IsFiniteSet(DOMAIN F) /\ \A d \in DOMAIN F : Counts(F[d])
Sums(F) == [d \in DOMAIN F |-> SumOf(F[d])]
UnitPairs(F) == Pairs([d \in DOMAIN F |-> Units(F[d])])

LEMMA SumOfSums ==
  ASSUME NEW F, FiniteCounts(F)
  PROVE  /\ Counts(Sums(F)) /\ IsFiniteSet(UnitPairs(F)) /\ SumOf(Sums(F)) = Cardinality(UnitPairs(F))
         /\ \A p \in UnitPairs(F) :
              /\ p = <<p[1], <<p[2][1], p[2][2]>>>>
              /\ p[1] \in DOMAIN F /\ p[2][1] \in DOMAIN F[p[1]] /\ p[2][2] \in 1 .. F[p[1]][p[2][1]]
         /\ \A d \in DOMAIN F : \A e \in DOMAIN F[d] : \A u \in 1 .. F[d][e] : <<d, <<e, u>>>> \in UnitPairs(F)
<1> DEFINE G == [d \in DOMAIN F |-> Units(F[d])]
<1>1. DOMAIN G = DOMAIN F /\ \A d \in DOMAIN F : G[d] = Units(F[d])
  OBVIOUS
<1>2. \A d \in DOMAIN F : /\ IsFiniteSet(Units(F[d])) /\ SumOf(F[d]) = Cardinality(Units(F[d])) /\ SumOf(F[d]) \in Nat
                          /\ \A p \in Units(F[d]) : /\ p = <<p[1], p[2]>>
                                                     /\ p[1] \in DOMAIN F[d] /\ p[2] \in 1 .. F[d][p[1]]
                          /\ \A e \in DOMAIN F[d] : \A u \in 1 .. F[d][e] : <<e, u>> \in Units(F[d])
  BY SumsAreUnits DEF FiniteCounts
<1>3. UnitPairs(F) = Pairs(G)
  BY DEF UnitPairs
<1> HIDE DEF G
<1>4. Counts(Sums(F)) /\ DOMAIN Sums(F) = DOMAIN F /\ \A d \in DOMAIN F : Sums(F)[d] = SumOf(F[d])
  BY <1>2 DEF Counts, Sums, FiniteCounts
<1>5. FinitePairs(G) /\ \A d \in DOMAIN G : Sums(F)[d] = Cardinality(G[d])
  BY <1>1, <1>2, <1>4 DEF FinitePairs, FiniteCounts
<1>6. IsFiniteSet(Pairs(G)) /\ SumOf(Sums(F)) = Cardinality(Pairs(G))
  BY <1>1, <1>4, <1>5, SumsArePairs, PairsAreFinite
<1>7. ASSUME NEW p \in Pairs(G)
      PROVE  /\ p = <<p[1], <<p[2][1], p[2][2]>>>>
             /\ p[1] \in DOMAIN F /\ p[2][1] \in DOMAIN F[p[1]] /\ p[2][2] \in 1 .. F[p[1]][p[2][1]]
  <2>1. p = <<p[1], p[2]>> /\ p[1] \in DOMAIN F /\ p[2] \in Units(F[p[1]])
    BY <1>1, PairsAre
  <2>2. p[2] = <<p[2][1], p[2][2]>> /\ p[2][1] \in DOMAIN F[p[1]] /\ p[2][2] \in 1 .. F[p[1]][p[2][1]]
    BY <1>2, <2>1
  <2> QED BY <2>1, <2>2
<1>8. ASSUME NEW d \in DOMAIN F, NEW e \in DOMAIN F[d], NEW u \in 1 .. F[d][e]
      PROVE  <<d, <<e, u>>>> \in Pairs(G)
  <2>1. <<e, u>> \in G[d]
    BY <1>1, <1>2
  <2> QED BY <1>1, <2>1, PairsAre
<1> QED BY <1>3, <1>4, <1>6, <1>7, <1>8

(* Sums of the terms of each group, added up: nothing is lost, nothing is   *)
(* counted twice.                                                           *)
GroupsOf(f, group) ==
  [p \in {group[d] : d \in DOMAIN f} |-> [d \in {e \in DOMAIN f : group[e] = p} |-> f[d]]]

LEMMA SumByGroups ==
  ASSUME NEW f, Counts(f), NEW group
  PROVE  Counts(Sums(GroupsOf(f, group))) /\ SumOf(Sums(GroupsOf(f, group))) = SumOf(f)
<1> DEFINE F == GroupsOf(f, group)
           groups == {group[d] : d \in DOMAIN f}
           value == [d \in DOMAIN f |-> group[d]]
           c == [p \in UnitPairs(F) |-> p[2]]
<1>1. value \in Surjection(DOMAIN f, groups)
  BY DEF Surjection
<1>2. IsFiniteSet(groups)
  BY <1>1, FS_Surjection DEF Counts
<1>3. /\ DOMAIN F = groups
      /\ \A p \in groups : /\ DOMAIN F[p] = {e \in DOMAIN f : group[e] = p}
                           /\ \A e \in DOMAIN F[p] : F[p][e] = f[e]
                           /\ F[p] = [d \in DOMAIN F[p] |-> f[d]]
  BY DEF GroupsOf
<1> HIDE DEF F
<1>4. ASSUME NEW p \in groups PROVE Counts(F[p])
  <2>1. IsFiniteSet({e \in DOMAIN f : group[e] = p})
    BY FS_Subset DEF Counts
  <2>2. \A d \in DOMAIN F[p] : f[d] \in Nat
    BY <1>3 DEF Counts
  <2> QED BY <1>3, <2>1, <2>2 DEF Counts
<1>5. FiniteCounts(F)
  BY <1>2, <1>3, <1>4 DEF FiniteCounts
<1>6. ASSUME NEW p \in UnitPairs(F)
      PROVE  /\ p = <<p[1], p[2]>> /\ p[2] = <<p[2][1], p[2][2]>>
             /\ p[2][1] \in DOMAIN f /\ group[p[2][1]] = p[1] /\ p[2][2] \in 1 .. f[p[2][1]]
  <2>1. /\ p = <<p[1], <<p[2][1], p[2][2]>>>>
        /\ p[1] \in DOMAIN F /\ p[2][1] \in DOMAIN F[p[1]] /\ p[2][2] \in 1 .. F[p[1]][p[2][1]]
    BY <1>5, SumOfSums
  <2>2. DOMAIN F[p[1]] = {e \in DOMAIN f : group[e] = p[1]} /\ F[p[1]][p[2][1]] = f[p[2][1]]
    BY <1>3, <2>1
  <2>3. p[2][1] \in DOMAIN f /\ group[p[2][1]] = p[1]
    BY <2>1, <2>2
  <2> QED BY <2>1, <2>2, <2>3
<1>7. ASSUME NEW d \in DOMAIN f, NEW u \in 1 .. f[d] PROVE <<group[d], <<d, u>>>> \in UnitPairs(F)
  <2>1. group[d] \in DOMAIN F /\ d \in DOMAIN F[group[d]] /\ F[group[d]][d] = f[d]
    BY <1>3
  <2> QED BY <1>5, <2>1, SumOfSums
<1>8. ASSUME NEW p \in UnitPairs(F) PROVE c[p] \in Units(f)
  <2>1. <<p[2][1], p[2][2]>> \in Units(f)
    BY <1>6, SumsAreUnits
  <2> QED BY <1>6, <2>1
<1>9. ASSUME NEW p \in UnitPairs(F), NEW q \in UnitPairs(F), c[p] = c[q] PROVE p = q
  <2>1. p[2] = q[2]
    BY <1>9
  <2>2. p[1] = q[1]
    BY <1>6, <2>1
  <2> QED BY <1>6, <2>1, <2>2
<1>10. ASSUME NEW q \in Units(f) PROVE \E p \in UnitPairs(F) : c[p] = q
  <2>1. q = <<q[1], q[2]>> /\ q[1] \in DOMAIN f /\ q[2] \in 1 .. f[q[1]]
    BY SumsAreUnits
  <2>2. <<group[q[1]], q>> \in UnitPairs(F)
    BY <1>7, <2>1
  <2> QED BY <2>2
<1>11. c \in Bijection(UnitPairs(F), Units(f))
  BY <1>8, <1>9, <1>10 DEF Bijection, Injection, IsInjective, Surjection
<1>12. Counts(Sums(F)) /\ SumOf(Sums(F)) = SumOf(f)
  BY <1>5, <1>11, SumOfSums, SumsAreUnits, FS_Bijection DEF ExistsBijection
<1> QED BY <1>12 DEF F

(* A table with gaps, by columns.                                           *)
ColumnsOf(F) ==
  [m \in UNION {DOMAIN F[i] : i \in DOMAIN F} |-> [i \in {j \in DOMAIN F : m \in DOMAIN F[j]} |-> F[i][m]]]

(* The numbers of a table add up to the same by rows and by columns.        *)
THEOREM RowsAndColumnsAgree ==
  ASSUME NEW F, FiniteCounts(F)
  PROVE  Counts(Sums(ColumnsOf(F))) /\ SumOf(Sums(ColumnsOf(F))) = SumOf(Sums(F))
<1> DEFINE G == ColumnsOf(F)
           rows == {DOMAIN F[i] : i \in DOMAIN F}
           row == [i \in DOMAIN F |-> DOMAIN F[i]]
           c == [p \in UnitPairs(G) |-> <<p[2][1], <<p[1], p[2][2]>>>>]
<1>1. row \in Surjection(DOMAIN F, rows)
  BY DEF Surjection
<1>2. IsFiniteSet(UNION rows)
  <2>1. IsFiniteSet(rows) /\ \A V \in rows : IsFiniteSet(V)
    BY <1>1, FS_Surjection DEF FiniteCounts, Counts
  <2> QED BY <2>1, FS_UNION
<1>3. /\ DOMAIN G = UNION rows
      /\ \A m \in UNION rows : /\ DOMAIN G[m] = {j \in DOMAIN F : m \in DOMAIN F[j]}
                               /\ \A i \in DOMAIN G[m] : G[m][i] = F[i][m]
                               /\ G[m] = [i \in DOMAIN G[m] |-> F[i][m]]
  BY DEF ColumnsOf
<1> HIDE DEF G
<1>4. ASSUME NEW m \in UNION rows PROVE Counts(G[m])
  <2>1. IsFiniteSet({j \in DOMAIN F : m \in DOMAIN F[j]})
    BY FS_Subset DEF FiniteCounts
  <2>2. \A i \in DOMAIN G[m] : F[i][m] \in Nat
    BY <1>3 DEF FiniteCounts, Counts
  <2> QED BY <1>3, <2>1, <2>2 DEF Counts
<1>5. FiniteCounts(G)
  BY <1>2, <1>3, <1>4 DEF FiniteCounts
<1>6. ASSUME NEW p \in UnitPairs(G)
      PROVE  /\ p = <<p[1], <<p[2][1], p[2][2]>>>>
             /\ p[2][1] \in DOMAIN F /\ p[1] \in DOMAIN F[p[2][1]] /\ p[2][2] \in 1 .. F[p[2][1]][p[1]]
  <2>1. /\ p = <<p[1], <<p[2][1], p[2][2]>>>>
        /\ p[1] \in DOMAIN G /\ p[2][1] \in DOMAIN G[p[1]] /\ p[2][2] \in 1 .. G[p[1]][p[2][1]]
    BY <1>5, SumOfSums
  <2>2. p[1] \in UNION rows
    BY <1>3, <2>1
  <2> HIDE DEF rows, row, c
  <2>3. /\ DOMAIN G[p[1]] = {j \in DOMAIN F : p[1] \in DOMAIN F[j]}
        /\ G[p[1]][p[2][1]] = F[p[2][1]][p[1]]
    BY <1>3, <2>1, <2>2
  <2>4. p[2][1] \in DOMAIN F /\ p[1] \in DOMAIN F[p[2][1]]
    BY <2>1, <2>3
  <2> QED BY <2>1, <2>3, <2>4
<1>7. ASSUME NEW i \in DOMAIN F, NEW m \in DOMAIN F[i], NEW u \in 1 .. F[i][m]
      PROVE  <<m, <<i, u>>>> \in UnitPairs(G)
  <2>1. m \in UNION rows
    OBVIOUS
  <2>2. m \in DOMAIN G /\ i \in DOMAIN G[m] /\ G[m][i] = F[i][m]
    BY <1>3, <2>1
  <2> QED BY <1>5, <2>2, SumOfSums
<1>8. ASSUME NEW p \in UnitPairs(G) PROVE c[p] \in UnitPairs(F)
  <2>1. <<p[2][1], <<p[1], p[2][2]>>>> \in UnitPairs(F)
    BY <1>6, SumOfSums
  <2> QED BY <2>1
<1>9. ASSUME NEW p \in UnitPairs(G), NEW q \in UnitPairs(G), c[p] = c[q] PROVE p = q
  <2>1. p[2][1] = q[2][1] /\ p[1] = q[1] /\ p[2][2] = q[2][2]
    BY <1>9
  <2> QED BY <1>6, <2>1
<1>10. ASSUME NEW q \in UnitPairs(F) PROVE \E p \in UnitPairs(G) : c[p] = q
  <2>1. /\ q = <<q[1], <<q[2][1], q[2][2]>>>>
        /\ q[1] \in DOMAIN F /\ q[2][1] \in DOMAIN F[q[1]] /\ q[2][2] \in 1 .. F[q[1]][q[2][1]]
    BY SumOfSums
  <2>2. <<q[2][1], <<q[1], q[2][2]>>>> \in UnitPairs(G)
    BY <1>7, <2>1
  <2>3. c[<<q[2][1], <<q[1], q[2][2]>>>>] = <<q[1], <<q[2][1], q[2][2]>>>>
    BY <2>2
  <2> QED BY <2>1, <2>2, <2>3
<1>11. c \in Bijection(UnitPairs(G), UnitPairs(F))
  BY <1>8, <1>9, <1>10 DEF Bijection, Injection, IsInjective, Surjection
<1>12. Counts(Sums(G)) /\ SumOf(Sums(G)) = SumOf(Sums(F))
  BY <1>5, <1>11, SumOfSums, FS_Bijection DEF ExistsBijection
<1> QED BY <1>12 DEF G
=============================================================================
