-------------------------- MODULE RetrievalProofs --------------------------
(* Proofs about the algorithms of Retrieval and about one search: what a total  *)
(* order, reciprocal rank fusion and a reranker's answer make of their input,   *)
(* for rankings of any length.  The induction they need is over a least          *)
(* counterexample.                                                              *)
EXTENDS Retrieval, FiniteSetTheorems, WellFoundedInduction, TLAPS

LEMMA LeastNumber ==
  ASSUME NEW T \in SUBSET Nat, T # {}
  PROVE  \E m \in T : \A k \in T : m <= k
  <1>1. IsWellFoundedOn(OpToRel(<, Nat), Nat)
    BY NatLessThanWellFounded
  <1>2. PICK m \in T : \A k \in T : <<k, m>> \notin OpToRel(<, Nat)
    BY <1>1, WFMin, Zenon
  <1>3. \A k \in T : ~(k < m)
    BY <1>2, Zenon DEF OpToRel
  <1>4. \A k \in T : k \in Int
    OBVIOUS
  <1>5. \A k \in T : m <= k
    BY <1>3, <1>4
  <1> QED BY <1>5

-----------------------------------------------------------------------------
(* Ranked.                                                                     *)

TotalOrder(S, R) ==
  /\ \A x, y \in S : x # y => <<x, y>> \in R \/ <<y, x>> \in R
  /\ \A x, y \in S : <<x, y>> \in R => <<y, x>> \notin R
  /\ \A x, y, z \in S : <<x, y>> \in R /\ <<y, z>> \in R => <<x, z>> \in R

Below(S, R, x) == {y \in S : <<y, x>> \in R}

LEMMA BelowIsFinite ==
  ASSUME NEW S, IsFiniteSet(S), NEW R, NEW x
  PROVE  IsFiniteSet(Below(S, R, x)) /\ Cardinality(Below(S, R, x)) \in Nat
  <1>1. Below(S, R, x) \in SUBSET S
    BY DEF Below
  <1>2. IsFiniteSet(Below(S, R, x))
    BY <1>1, FS_Subset
  <1> QED BY <1>2, FS_CardinalityType

\* What comes later has more before it.
LEMMA RanksGrow ==
  ASSUME NEW S, IsFiniteSet(S), NEW R, TotalOrder(S, R),
         NEW x \in S, NEW y \in S, <<x, y>> \in R
  PROVE  Cardinality(Below(S, R, x)) < Cardinality(Below(S, R, y))
  <1> DEFINE X == Below(S, R, x)
             Y == Below(S, R, y)
  <1>1. X \in SUBSET Y
    BY DEF Below, TotalOrder
  <1>2. x \in Y /\ x \notin X
    BY DEF Below, TotalOrder
  <1>3. /\ IsFiniteSet(Y) /\ Cardinality(X) \in Nat /\ Cardinality(Y) \in Nat
    BY BelowIsFinite
  <1> HIDE DEF X, Y
  <1>4. Cardinality(X) <= Cardinality(Y) /\ (Cardinality(Y) = Cardinality(X) => Y = X)
    BY <1>1, <1>3, FS_Subset
  <1>5. Cardinality(X) < Cardinality(Y)
    BY <1>2, <1>3, <1>4
  <1> QED BY <1>5 DEF X, Y

\* Every place has its element: the ranks are an injection into the places, of which
\* there are as many as elements.
LEMMA EveryRank ==
  ASSUME NEW S, IsFiniteSet(S), NEW R, TotalOrder(S, R)
  PROVE  /\ Cardinality(S) \in Nat
         /\ \A x \in S : Cardinality(Below(S, R, x)) \in 0 .. Cardinality(S) - 1
         /\ \A i \in 0 .. Cardinality(S) - 1 : \E x \in S : Cardinality(Below(S, R, x)) = i
  <1> DEFINE n == Cardinality(S)
             places == 0 .. n - 1
             rank == [x \in S |-> Cardinality(Below(S, R, x))]
  <1>1. n \in Nat
    BY FS_CardinalityType
  <1>2. ASSUME NEW x \in S
        PROVE  rank[x] \in places
    <2>1. Below(S, R, x) \in SUBSET S /\ x \notin Below(S, R, x)
      BY DEF Below, TotalOrder
    <2>2. Cardinality(Below(S, R, x)) <= n /\ (n = Cardinality(Below(S, R, x)) => S = Below(S, R, x))
      BY <2>1, FS_Subset
    <2>3. Cardinality(Below(S, R, x)) \in Nat
      BY BelowIsFinite
    <2> QED BY <1>1, <2>1, <2>2, <2>3
  <1>3. rank \in Injection(S, places)
    <2>1. rank \in [S -> places]
      BY <1>2
    <2>2. ASSUME NEW x \in S, NEW y \in S, x # y
          PROVE  rank[x] # rank[y]
      <3>1. rank[x] \in Int /\ rank[y] \in Int
        BY <1>1, <1>2
      <3>2. rank[x] < rank[y] \/ rank[y] < rank[x]
        BY <2>2, RanksGrow DEF TotalOrder
      <3> QED BY <3>1, <3>2
    <2> QED BY <2>1, <2>2 DEF Injection, IsInjective
  <1>4. IsFiniteSet(places) /\ Cardinality(places) = n
    <2>1. /\ IsFiniteSet(places)
          /\ Cardinality(places) = IF 0 > n - 1 THEN 0 ELSE (n - 1) - 0 + 1
      BY <1>1, FS_Interval
    <2> QED BY <1>1, <2>1
  <1> HIDE DEF rank, places
  <1>5. rank \in Surjection(S, places)
    BY <1>3, <1>4, FS_Injection
  <1>6. \A i \in places : \E x \in S : rank[x] = i
    BY <1>5 DEF Surjection
  <1> QED BY <1>1, <1>2, <1>6 DEF rank, places

\* Ranked is the sequence of all elements in their order.
LEMMA RankedIsInOrder ==
  ASSUME NEW S, IsFiniteSet(S), NEW R, TotalOrder(S, R)
  PROVE  /\ Cardinality(S) \in Nat
         /\ Ranked(S, R) \in [1 .. Cardinality(S) -> S]
         /\ \A x \in S : \E i \in 1 .. Cardinality(S) : Ranked(S, R)[i] = x
         /\ \A i, j \in 1 .. Cardinality(S) : i < j <=> <<Ranked(S, R)[i], Ranked(S, R)[j]>> \in R
  <1> DEFINE n == Cardinality(S)
             s == Ranked(S, R)
             Rank(x) == Cardinality(Below(S, R, x))
  <1>1. n \in Nat
    BY EveryRank
  <1>2. s = [i \in 1 .. n |-> CHOOSE x \in S : Rank(x) = i - 1]
    BY DEF Ranked, Below
  <1>3. ASSUME NEW i \in 1 .. n
        PROVE  s[i] \in S /\ Rank(s[i]) = i - 1
    <2>1. i - 1 \in 0 .. n - 1
      BY <1>1
    <2>2. \E x \in S : Rank(x) = i - 1
      BY <2>1, EveryRank
    <2>3. s[i] = CHOOSE x \in S : Rank(x) = i - 1
      BY <1>2
    <2> HIDE DEF s, Rank
    <2> QED BY <2>2, <2>3
  <1>4. s \in [1 .. n -> S]
    BY <1>2, <1>3
  <1> HIDE DEF s
  <1>5. \A x, y \in S : <<x, y>> \in R => Rank(x) < Rank(y)
    BY RanksGrow
  <1>6. \A x, y \in S : Rank(x) = Rank(y) => x = y
    <2> SUFFICES ASSUME NEW x \in S, NEW y \in S, x # y
                 PROVE  Rank(x) # Rank(y)
      OBVIOUS
    <2>1. Rank(x) \in Int /\ Rank(y) \in Int
      BY <1>1, EveryRank
    <2>2. Rank(x) < Rank(y) \/ Rank(y) < Rank(x)
      BY <1>5 DEF TotalOrder
    <2> HIDE DEF Rank
    <2> QED BY <2>1, <2>2
  <1>7. ASSUME NEW x \in S
        PROVE  \E i \in 1 .. n : s[i] = x
    <2>1. Rank(x) \in 0 .. n - 1
      BY EveryRank
    <2> HIDE DEF Rank
    <2> DEFINE i == Rank(x) + 1
    <2>2. i \in 1 .. n /\ i - 1 = Rank(x)
      BY <1>1, <2>1
    <2> HIDE DEF i
    <2>3. s[i] \in S /\ Rank(s[i]) = Rank(x)
      BY <1>3, <2>2
    <2>4. s[i] = x
      BY <2>3, <1>6
    <2> QED BY <2>2, <2>4
  <1>8. ASSUME NEW i \in 1 .. n, NEW j \in 1 .. n
        PROVE  i < j <=> <<s[i], s[j]>> \in R
    <2>1. /\ s[i] \in S /\ Rank(s[i]) = i - 1
          /\ s[j] \in S /\ Rank(s[j]) = j - 1
      BY <1>3
    <2>2. i \in Int /\ j \in Int
      BY <1>1
    <2>3. <<s[i], s[j]>> \in R => Rank(s[i]) < Rank(s[j])
      BY <1>5, <2>1
    <2>4. <<s[j], s[i]>> \in R => Rank(s[j]) < Rank(s[i])
      BY <1>5, <2>1
    <2> HIDE DEF Rank
    <2>5. s[i] = s[j] => i = j
      BY <2>1, <2>2
    <2>6. s[i] # s[j] => <<s[i], s[j]>> \in R \/ <<s[j], s[i]>> \in R
      BY <2>1 DEF TotalOrder
    <2> QED BY <2>1, <2>2, <2>3, <2>4, <2>5, <2>6
  <1> QED BY <1>1, <1>4, <1>7, <1>8 DEF s
-----------------------------------------------------------------------------
(* Rankings.                                                                   *)

Distinct(s) == \A i, j \in DOMAIN s : s[i] = s[j] => i = j

\* The rankings of elements of S.
Lists(S) == {s \in Seq(S) : Distinct(s)}

LEMMA ListFacts ==
  ASSUME NEW S, NEW s \in Lists(S)
  PROVE  /\ s \in Seq(S) /\ Len(s) \in Nat /\ DOMAIN s = 1 .. Len(s)
         /\ \A i \in 1 .. Len(s) : s[i] \in S
         /\ \A i, j \in 1 .. Len(s) : s[i] = s[j] => i = j
         /\ Elements(s) \subseteq S
         /\ \A x \in Elements(s) : \E i \in 1 .. Len(s) : s[i] = x
  BY DEF Lists, Distinct, Elements

LEMMA NoList ==
  ASSUME NEW S
  PROVE  <<>> \in Lists(S) /\ Elements(<<>>) = {} /\ Len(<<>>) = 0
  BY DEF Lists, Distinct, Elements

LEMMA WiderLists ==
  ASSUME NEW S, NEW T, S \subseteq T, NEW s \in Lists(S)
  PROVE  s \in Lists(T)
  BY DEF Lists

\* As many as its elements.
LEMMA ListIsFinite ==
  ASSUME NEW S, NEW s \in Lists(S)
  PROVE  IsFiniteSet(Elements(s)) /\ Cardinality(Elements(s)) = Len(s)
  <1>1. /\ Len(s) \in Nat /\ DOMAIN s = 1 .. Len(s) /\ s \in Seq(S)
        /\ \A i, j \in 1 .. Len(s) : s[i] = s[j] => i = j
    BY ListFacts
  <1>2. s \in Bijection(1 .. Len(s), Elements(s))
    <2>1. s \in [1 .. Len(s) -> Elements(s)]
      BY <1>1 DEF Elements
    <2>2. \A y \in Elements(s) : \E i \in 1 .. Len(s) : s[i] = y
      BY <1>1 DEF Elements
    <2>3. s \in Injection(1 .. Len(s), Elements(s))
      BY <1>1, <2>1 DEF Injection, IsInjective
    <2>4. s \in Surjection(1 .. Len(s), Elements(s))
      BY <2>1, <2>2 DEF Surjection
    <2> QED BY <2>3, <2>4 DEF Bijection
  <1>3. ExistsBijection(1 .. Len(s), Elements(s))
    BY <1>2 DEF ExistsBijection
  <1>4. Cardinality(Elements(s)) = Len(s)
    BY <1>1, <1>3, FS_CountingElements
  <1>5. IsFiniteSet(Elements(s))
    BY <1>1, <1>3, FS_NatBijection
  <1> QED BY <1>4, <1>5

LEMMA RankingIsList ==
  ASSUME NEW S, IsFiniteSet(S), NEW n \in Nat, NEW s \in Rankings(S, n)
  PROVE  s \in Lists(S) /\ Len(s) <= n /\ Len(s) <= Cardinality(S)
  <1>1. Cardinality(S) \in Nat
    BY FS_CardinalityType
  <1>2. PICK k \in 0 .. Smaller(n, Cardinality(S)) :
          s \in {t \in [1 .. k -> S] : \A i, j \in 1 .. k : i # j => t[i] # t[j]}
    BY DEF Rankings
  <1>3. k \in Nat /\ k <= n /\ k <= Cardinality(S)
    BY <1>1, <1>2 DEF Smaller
  <1>4. s \in [1 .. k -> S] /\ \A i, j \in 1 .. k : i # j => s[i] # s[j]
    BY <1>2
  <1>5. s \in Seq(S) /\ Len(s) = k
    BY <1>3, <1>4
  <1> QED BY <1>3, <1>4, <1>5 DEF Lists, Distinct

LEMMA PrefixIsList ==
  ASSUME NEW S, NEW s \in Lists(S), NEW n \in Nat
  PROVE  /\ Prefix(s, n) \in Lists(S)
         /\ Len(Prefix(s, n)) = Smaller(n, Len(s))
         /\ Elements(Prefix(s, n)) \subseteq Elements(s)
  <1>1. /\ s \in Seq(S) /\ Len(s) \in Nat /\ DOMAIN s = 1 .. Len(s)
        /\ \A i, j \in 1 .. Len(s) : s[i] = s[j] => i = j
    BY ListFacts
  <1> DEFINE k == Smaller(n, Len(s))
             p == SubSeq(s, 1, k)
  <1>2. k \in Nat /\ k <= Len(s)
    BY <1>1 DEF Smaller
  <1> HIDE DEF k
  <1>3. p \in Seq(S) /\ Len(p) = k /\ \A i \in 1 .. k : p[i] = s[i]
    BY <1>1, <1>2
  <1>4. DOMAIN p = 1 .. k
    BY <1>3
  <1> HIDE DEF p
  <1>5. p \in Lists(S)
    BY <1>1, <1>2, <1>3, <1>4 DEF Lists, Distinct
  <1>6. Elements(p) \subseteq Elements(s)
    BY <1>1, <1>2, <1>3, <1>4 DEF Elements
  <1> QED BY <1>3, <1>5, <1>6 DEF Prefix, p, k

\* A total order makes a ranking.
LEMMA RankedIsList ==
  ASSUME NEW S, IsFiniteSet(S), NEW R, TotalOrder(S, R)
  PROVE  /\ Ranked(S, R) \in Lists(S)
         /\ Elements(Ranked(S, R)) = S
         /\ Len(Ranked(S, R)) = Cardinality(S)
  <1> DEFINE n == Cardinality(S)
             s == Ranked(S, R)
  <1>1. /\ n \in Nat /\ s \in [1 .. n -> S]
        /\ \A x \in S : \E i \in 1 .. n : s[i] = x
        /\ \A i, j \in 1 .. n : i < j <=> <<s[i], s[j]>> \in R
    BY RankedIsInOrder
  <1> HIDE DEF n, s
  <1>2. s \in Seq(S) /\ Len(s) = n
    BY <1>1
  <1>3. ASSUME NEW i \in 1 .. n, NEW j \in 1 .. n, s[i] = s[j]
        PROVE  i = j
    <2>1. s[i] \in S /\ <<s[i], s[i]>> \notin R
      BY <1>1 DEF TotalOrder
    <2>2. ~(i < j) /\ ~(j < i)
      BY <1>1, <1>3, <2>1
    <2> QED BY <1>1, <2>2
  <1>4. Elements(s) = S
    BY <1>1 DEF Elements
  <1> QED BY <1>1, <1>2, <1>3, <1>4 DEF Lists, Distinct, n, s

-----------------------------------------------------------------------------
(* Reciprocal rank fusion.                                                     *)

LEMMA ItemsAreFinite ==
  /\ IsFiniteSet(Chunks) /\ Cardinality(Chunks) <= NumChunks + NumMemories
  /\ IsFiniteSet(Memories) /\ Cardinality(Memories) <= NumChunks + NumMemories
  /\ IsFiniteSet(Items) /\ Cardinality(Items) <= NumChunks + NumMemories
  <1>1. NumChunks \in Nat /\ NumMemories \in Nat
    BY RetrievalAssumption
  <1>2. ASSUME NEW kind, NEW n \in Nat
        PROVE  /\ IsFiniteSet({<<kind, i>> : i \in 1 .. n})
               /\ Cardinality({<<kind, i>> : i \in 1 .. n}) <= n
               /\ Cardinality({<<kind, i>> : i \in 1 .. n}) \in Nat
    <2> DEFINE T == {<<kind, i>> : i \in 1 .. n}
               f == [i \in 1 .. n |-> <<kind, i>>]
    <2>1. f \in Surjection(1 .. n, T)
      BY DEF Surjection
    <2>2. IsFiniteSet(1 .. n) /\ Cardinality(1 .. n) = IF 1 > n THEN 0 ELSE n - 1 + 1
      BY FS_Interval
    <2>3. IsFiniteSet(T) /\ Cardinality(T) <= Cardinality(1 .. n)
      BY <2>1, <2>2, FS_Surjection
    <2>4. Cardinality(T) \in Nat
      BY <2>3, FS_CardinalityType
    <2> QED BY <2>2, <2>3, <2>4
  <1>3. IsFiniteSet(Chunks) /\ Cardinality(Chunks) <= NumChunks /\ Cardinality(Chunks) \in Nat
    BY <1>1, <1>2 DEF Chunks
  <1>4. IsFiniteSet(Memories) /\ Cardinality(Memories) <= NumMemories /\ Cardinality(Memories) \in Nat
    BY <1>1, <1>2 DEF Memories
  <1>5. /\ IsFiniteSet(Items)
        /\ Cardinality(Items) = Cardinality(Chunks) + Cardinality(Memories)
                                - Cardinality(Chunks \cap Memories)
    BY <1>3, <1>4, FS_Union DEF Items
  <1>6. IsFiniteSet(Chunks \cap Memories) /\ Cardinality(Chunks \cap Memories) \in Nat
    BY <1>3, FS_Intersection, FS_CardinalityType
  <1> QED BY <1>1, <1>3, <1>4, <1>5, <1>6

LEMMA ListOfItems ==
  ASSUME NEW l \in Lists(Items)
  PROVE  Len(l) <= NumChunks + NumMemories
  <1>1. Elements(l) \in SUBSET Items /\ Len(l) \in Nat
    BY ListFacts
  <1>2. Cardinality(Elements(l)) <= Cardinality(Items)
    BY <1>1, ItemsAreFinite, FS_Subset
  <1>3. Cardinality(Elements(l)) = Len(l)
    BY ListIsFinite
  <1>4. Cardinality(Items) \in Nat /\ NumChunks + NumMemories \in Nat
    BY ItemsAreFinite, FS_CardinalityType, RetrievalAssumption
  <1> QED BY <1>1, <1>2, <1>3, <1>4, ItemsAreFinite

LEMMA PlaceIs ==
  ASSUME NEW l \in Lists(Items), NEW i \in 1 .. Len(l)
  PROVE  Place(l[i], l) = i
  <1>1. DOMAIN l = 1 .. Len(l) /\ \A k, j \in 1 .. Len(l) : l[k] = l[j] => k = j
    BY ListFacts
  <1> QED BY <1>1 DEF Place

\* Division without remainder.
LEMMA ExactQuotient ==
  ASSUME NEW u \in Nat \ {0}, NEW a \in Nat \ {0}, u % a = 0
  PROVE  u \div a \in Nat \ {0} /\ u = a * (u \div a)
  <1> DEFINE q == u \div a
  <1>1. a > 0 /\ q \in Int
    OBVIOUS
  <1>2. u = a * q
    <2>1. u = a * (u \div a) + (u % a)
      BY <1>1
    <2> QED BY <1>1, <2>1
  <1> HIDE DEF q
  <1>3. q > 0
    <2>1. q <= 0 => a * q <= 0
      BY <1>1
    <2> QED BY <1>1, <1>2, <2>1
  <1> QED BY <1>1, <1>2, <1>3 DEF q

LEMMA QuotientsDecrease ==
  ASSUME NEW u \in Nat \ {0}, NEW a \in Nat \ {0}, NEW b \in Nat \ {0}, a < b,
         u % a = 0, u % b = 0
  PROVE  u \div a > u \div b
  <1> DEFINE q == u \div a
             r == u \div b
  <1>1. q \in Nat \ {0} /\ u = a * q
    BY ExactQuotient
  <1>2. r \in Nat \ {0} /\ u = b * r
    BY ExactQuotient
  <1> HIDE DEF q, r
  <1>3. a * r < b * r
    BY <1>2
  <1>4. q <= r => a * q <= a * r
    BY <1>1, <1>2
  <1>5. a * r \in Int /\ b * r \in Int
    BY <1>2
  <1>6. ~(q <= r)
    BY <1>1, <1>2, <1>3, <1>4, <1>5
  <1> QED BY <1>1, <1>2, <1>6 DEF q, r

LEMMA WeightIs ==
  ASSUME NEW l \in Lists(Items)
  PROVE  /\ \A x : Weight(x, l) \in Nat /\ (x \notin Elements(l) => Weight(x, l) = 0)
         /\ \A i \in 1 .. Len(l) : Weight(l[i], l) > 0
         /\ \A i, j \in 1 .. Len(l) : i < j => Weight(l[i], l) > Weight(l[j], l)
  <1>1. /\ Len(l) \in Nat /\ DOMAIN l = 1 .. Len(l)
        /\ \A x \in Elements(l) : \E i \in 1 .. Len(l) : l[i] = x
    BY ListFacts
  <1>2. /\ RankUnit \in Nat \ {0} /\ RRFK \in Nat \ {0} /\ NumChunks + NumMemories \in Nat
        /\ \A i \in 1 .. NumChunks + NumMemories : RankUnit % (RRFK + i) = 0
    BY RetrievalAssumption
  <1>3. \A i \in 1 .. Len(l) : RRFK + i \in Nat \ {0} /\ RankUnit % (RRFK + i) = 0
    BY <1>1, <1>2, ListOfItems
  <1>4. ASSUME NEW i \in 1 .. Len(l)
        PROVE  /\ Weight(l[i], l) = RankUnit \div (RRFK + i)
               /\ Weight(l[i], l) \in Nat \ {0}
    <2>1. l[i] \in Elements(l)
      BY <1>1 DEF Elements
    <2>2. Place(l[i], l) = i
      BY PlaceIs
    <2>3. Weight(l[i], l) = RankUnit \div (RRFK + i)
      BY <2>1, <2>2 DEF Weight
    <2> QED BY <1>2, <1>3, <2>3, ExactQuotient
  <1>5. ASSUME NEW x
        PROVE  Weight(x, l) \in Nat /\ (x \notin Elements(l) => Weight(x, l) = 0)
    <2>1. CASE x \in Elements(l)
      <3>1. PICK i \in 1 .. Len(l) : l[i] = x
        BY <1>1, <2>1
      <3> QED BY <1>4, <2>1, <3>1
    <2>2. CASE x \notin Elements(l)
      BY <2>2 DEF Weight
    <2> QED BY <2>1, <2>2
  <1>6. ASSUME NEW i \in 1 .. Len(l), NEW j \in 1 .. Len(l), i < j
        PROVE  Weight(l[i], l) > Weight(l[j], l)
    <2>1. RRFK + i < RRFK + j
      BY <1>2, <1>6
    <2>2. RankUnit \div (RRFK + i) > RankUnit \div (RRFK + j)
      BY <1>2, <1>3, <2>1, QuotientsDecrease
    <2> QED BY <1>4, <2>2
  <1> QED BY <1>4, <1>5, <1>6

\* The sum of the first n weights is defined for every n: there is no first n for
\* which it is not.
LEMMA SumsExist ==
  ASSUME NEW N \in Nat, NEW w \in [1 .. N -> Nat]
  PROVE  \E f \in [0 .. N -> Nat] :
           f = [n \in 0 .. N |-> IF n = 0 THEN 0 ELSE f[n - 1] + w[n]]
  <1> DEFINE Sums(m) == \E f \in [0 .. m -> Nat] :
                          f[0] = 0 /\ \A n \in 1 .. m : f[n] = f[n - 1] + w[n]
             bad == {m \in 0 .. N : ~Sums(m)}
  <1>1. bad = {}
    <2> SUFFICES ASSUME bad # {} PROVE FALSE
      OBVIOUS
    <2>1. bad \in SUBSET Nat
      OBVIOUS
    <2>2. PICK m \in bad : \A k \in bad : m <= k
      BY <2>1, LeastNumber
    <2>3. m \in 0 .. N /\ ~Sums(m)
      OBVIOUS
    <2>4. Sums(0)
      <3> DEFINE f == [n \in 0 .. 0 |-> 0]
      <3>1. f \in [0 .. 0 -> Nat] /\ f[0] = 0 /\ \A n \in 1 .. 0 : f[n] = f[n - 1] + w[n]
        OBVIOUS
      <3> QED BY <3>1
    <2>5. m # 0 /\ m - 1 \in 0 .. N /\ m \in 1 .. N
      <3>1. m # 0
        BY <2>3, <2>4, Zenon
      <3> QED BY <2>3, <3>1
    <2>6. Sums(m - 1)
      <3> HIDE DEF Sums
      <3> DEFINE k == m - 1
      <3>1. k \in 0 .. N /\ ~(m <= k)
        BY <2>3, <2>5
      <3> HIDE DEF k
      <3>2. k \notin bad
        BY <2>2, <3>1
      <3>3. Sums(k)
        BY <3>1, <3>2
      <3> QED BY <3>3 DEF k
    <2>7. PICK f \in [0 .. m - 1 -> Nat] :
            f[0] = 0 /\ \A n \in 1 .. m - 1 : f[n] = f[n - 1] + w[n]
      BY <2>6
    <2> DEFINE g == [n \in 0 .. m |-> IF n = m THEN f[m - 1] + w[m] ELSE f[n]]
    <2>8. g \in [0 .. m -> Nat]
      BY <2>5, <2>7
    <2>9. g[0] = 0 /\ \A n \in 1 .. m : g[n] = g[n - 1] + w[n]
      BY <2>5, <2>7, SMTT(40)
    <2> QED BY <2>3, <2>8, <2>9
  <1>2. Sums(N)
    <2>1. N \in 0 .. N
      OBVIOUS
    <2> HIDE DEF Sums
    <2> QED BY <1>1, <2>1
  <1>3. PICK f \in [0 .. N -> Nat] : f[0] = 0 /\ \A n \in 1 .. N : f[n] = f[n - 1] + w[n]
    BY <1>2
  <1>4. f = [n \in 0 .. N |-> IF n = 0 THEN 0 ELSE f[n - 1] + w[n]]
    <2>1. \A n \in 0 .. N : f[n] = IF n = 0 THEN 0 ELSE f[n - 1] + w[n]
      BY <1>3
    <2> QED BY <2>1
  <1> QED BY <1>4

\* f is the function that the sums of w define by recursion.
Summing(N, w, f) == f = [n \in 0 .. N |-> IF n = 0 THEN 0 ELSE f[n - 1] + w[n]]

\* Two functions that satisfy the equation are the same.
LEMMA SumsAgree ==
  ASSUME NEW N \in Nat, NEW w \in [1 .. N -> Nat], NEW f \in [0 .. N -> Nat], NEW g,
         Summing(N, w, f), Summing(N, w, g)
  PROVE  g = f
  <1> DEFINE bad == {n \in 0 .. N : g[n] # f[n]}
  <1>1. /\ \A n \in 0 .. N : f[n] = IF n = 0 THEN 0 ELSE f[n - 1] + w[n]
        /\ \A n \in 0 .. N : g[n] = IF n = 0 THEN 0 ELSE g[n - 1] + w[n]
    <2>1. ASSUME NEW n \in 0 .. N, NEW h, Summing(N, w, h)
          PROVE  h[n] = IF n = 0 THEN 0 ELSE h[n - 1] + w[n]
      BY <2>1, Zenon DEF Summing
    <2> QED BY <2>1
  <1>2. bad = {}
    <2> SUFFICES ASSUME bad # {} PROVE FALSE
      OBVIOUS
    <2>1. bad \in SUBSET Nat
      OBVIOUS
    <2>2. PICK m \in bad : \A k \in bad : m <= k
      BY <2>1, LeastNumber
    <2>3. m \in 0 .. N /\ m # 0
      BY <1>1
    <2> DEFINE k == m - 1
    <2>4. k \in 0 .. N /\ ~(m <= k)
      BY <2>3
    <2>5. g[k] = f[k]
      <3> HIDE DEF k
      <3> QED BY <2>2, <2>4
    <2> QED BY <1>1, <2>3, <2>5
  <1>3. \A n \in 0 .. N : g[n] = f[n]
    BY <1>2
  <1>4. g = [n \in 0 .. N |-> g[n]] /\ f = [n \in 0 .. N |-> f[n]]
    BY DEF Summing
  <1> QED BY <1>3, <1>4


\* The first sums of f are those of the weights of x.
SumsOf(f, x, lists) ==
  /\ f \in [0 .. Len(lists) -> Nat]
  /\ f[0] = 0
  /\ \A n \in 1 .. Len(lists) : f[n] = f[n - 1] + Weight(x, lists[n])

LEMMA ScoreIsSum ==
  ASSUME NEW lists \in Seq(Lists(Items)), NEW x
  PROVE  \E f : SumsOf(f, x, lists) /\ Score(x, lists) = f[Len(lists)]
  <1> DEFINE N == Len(lists)
             w == [n \in 1 .. N |-> Weight(x, lists[n])]
             Eq(h) == h = [n \in 0 .. N |-> IF n = 0 THEN 0 ELSE h[n - 1] + Weight(x, lists[n])]
             Sum == CHOOSE h : Eq(h)
  <1>1. N \in Nat
    OBVIOUS
  <1>2. w \in [1 .. N -> Nat]
    <2>1. \A n \in 1 .. N : Weight(x, lists[n]) \in Nat
      BY WeightIs
    <2> QED BY <2>1
  <1>3. PICK f \in [0 .. N -> Nat] : f = [n \in 0 .. N |-> IF n = 0 THEN 0 ELSE f[n - 1] + w[n]]
    BY <1>1, <1>2, SumsExist
  <1>4. \A n \in 0 .. N : f[n] = IF n = 0 THEN 0 ELSE f[n - 1] + w[n]
    BY <1>3, Zenon
  <1>5. \A n \in 1 .. N : w[n] = Weight(x, lists[n])
    OBVIOUS
  <1> HIDE DEF w, N
  <1>6. ASSUME NEW h
        PROVE  [n \in 0 .. N |-> IF n = 0 THEN 0 ELSE h[n - 1] + Weight(x, lists[n])]
               = [n \in 0 .. N |-> IF n = 0 THEN 0 ELSE h[n - 1] + w[n]]
    <2>1. \A n \in 0 .. N : n # 0 => n \in 1 .. N
      BY <1>1
    <2>2. \A n \in 0 .. N : (IF n = 0 THEN 0 ELSE h[n - 1] + Weight(x, lists[n]))
                            = (IF n = 0 THEN 0 ELSE h[n - 1] + w[n])
      BY <1>5, <2>1
    <2> QED BY <2>2
  <1>7. Eq(f)
    BY <1>3, <1>6
  <1>8. Eq(Sum)
    <2> HIDE DEF Eq
    <2> QED BY <1>7
  <1>9. Summing(N, w, Sum) /\ Summing(N, w, f)
    <2> HIDE DEF Sum
    <2> QED BY <1>3, <1>6, <1>8, Zenon DEF Summing
  <1>10. Sum = f
    <2> HIDE DEF Sum, Eq
    <2> QED BY <1>1, <1>2, <1>3, <1>9, SumsAgree
  <1>11. Score(x, lists) = Sum[N]
    BY DEF Score, N
  <1>12. f[0] = 0 /\ \A n \in 1 .. N : f[n] = f[n - 1] + Weight(x, lists[n])
    BY <1>1, <1>4, <1>5
  <1> QED BY <1>10, <1>11, <1>12 DEF SumsOf, N

LEMMA ScoreIsNat ==
  ASSUME NEW lists \in Seq(Lists(Items)), NEW x
  PROVE  Score(x, lists) \in Nat
  <1>1. PICK f : SumsOf(f, x, lists) /\ Score(x, lists) = f[Len(lists)]
    BY ScoreIsSum
  <1>2. Len(lists) \in 0 .. Len(lists)
    OBVIOUS
  <1> QED BY <1>1, <1>2 DEF SumsOf

\* What no ranking weighs less and one weighs more has the higher score.
LEMMA MoreWeightMoreScore ==
  ASSUME NEW lists \in Seq(Lists(Items)), NEW x, NEW y,
         \A n \in 1 .. Len(lists) : Weight(x, lists[n]) >= Weight(y, lists[n]),
         NEW k \in 1 .. Len(lists), Weight(x, lists[k]) > Weight(y, lists[k])
  PROVE  Score(x, lists) > Score(y, lists)
  <1> DEFINE N == Len(lists)
  <1>1. PICK f : SumsOf(f, x, lists) /\ Score(x, lists) = f[N]
    BY ScoreIsSum
  <1>2. PICK g : SumsOf(g, y, lists) /\ Score(y, lists) = g[N]
    BY ScoreIsSum
  <1>3. /\ N \in Nat /\ k \in 1 .. N
        /\ \A n \in 0 .. N : f[n] \in Nat /\ g[n] \in Nat
    <2>1. N \in Nat /\ k \in 1 .. N
      OBVIOUS
    <2>2. f \in [0 .. N -> Nat] /\ g \in [0 .. N -> Nat]
      BY <1>1, <1>2 DEF SumsOf
    <2> HIDE DEF N
    <2> QED BY <2>1, <2>2
  <1>4. \A n \in 1 .. N : /\ f[n] = f[n - 1] + Weight(x, lists[n])
                          /\ g[n] = g[n - 1] + Weight(y, lists[n])
                          /\ Weight(x, lists[n]) \in Nat /\ Weight(y, lists[n]) \in Nat
    BY <1>1, <1>2, WeightIs DEF SumsOf
  <1>5. f[0] = 0 /\ g[0] = 0 /\ \A n \in 1 .. N : Weight(x, lists[n]) >= Weight(y, lists[n])
    BY <1>1, <1>2 DEF SumsOf
  <1> HIDE DEF N
  <1>6. \A n \in 0 .. N : f[n] >= g[n]
    <2> DEFINE bad == {n \in 0 .. N : ~(f[n] >= g[n])}
    <2> SUFFICES ASSUME bad # {} PROVE FALSE
      OBVIOUS
    <2>1. bad \in SUBSET Nat
      OBVIOUS
    <2>2. PICK m \in bad : \A j \in bad : m <= j
      BY <2>1, LeastNumber
    <2>3. m \in 1 .. N
      BY <1>3, <1>5
    <2> DEFINE j == m - 1
    <2>4. j \in 0 .. N /\ ~(m <= j)
      BY <1>3, <2>3
    <2>5. f[j] >= g[j]
      <3> HIDE DEF j
      <3> QED BY <2>2, <2>4
    <2>6. /\ f[m] = f[j] + Weight(x, lists[m]) /\ g[m] = g[j] + Weight(y, lists[m])
          /\ Weight(x, lists[m]) >= Weight(y, lists[m])
          /\ Weight(x, lists[m]) \in Nat /\ Weight(y, lists[m]) \in Nat
      BY <1>4, <1>5, <2>3
    <2>7. f[j] \in Nat /\ g[j] \in Nat /\ m \in 0 .. N
      BY <1>3, <2>3, <2>4
    <2> HIDE DEF j
    <2>8. f[m] >= g[m]
      BY <2>5, <2>6, <2>7
    <2> QED BY <2>2, <2>8
  <1>7. \A n \in k .. N : f[n] > g[n]
    <2> DEFINE bad == {n \in k .. N : ~(f[n] > g[n])}
    <2> SUFFICES ASSUME bad # {} PROVE FALSE
      OBVIOUS
    <2>1. bad \in SUBSET Nat
      BY <1>3
    <2>2. PICK m \in bad : \A j \in bad : m <= j
      BY <2>1, LeastNumber
    <2> DEFINE j == m - 1
    <2>3. /\ m \in 1 .. N /\ j \in 0 .. N /\ ~(m <= j) /\ m \in k .. N
          /\ m # k => j \in k .. N
      BY <1>3
    <2>4. m # k => f[j] > g[j]
      <3> HIDE DEF j
      <3> QED BY <2>2, <2>3
    <2>5. /\ f[m] = f[j] + Weight(x, lists[m]) /\ g[m] = g[j] + Weight(y, lists[m])
          /\ Weight(x, lists[m]) >= Weight(y, lists[m])
          /\ m = k => Weight(x, lists[m]) > Weight(y, lists[m])
          /\ Weight(x, lists[m]) \in Nat /\ Weight(y, lists[m]) \in Nat
      BY <1>4, <1>5, <2>3
    <2>6. f[j] \in Nat /\ g[j] \in Nat /\ f[j] >= g[j]
      BY <1>3, <1>6, <2>3
    <2> HIDE DEF j
    <2>7. f[m] > g[m]
      BY <2>4, <2>5, <2>6
    <2> QED BY <2>2, <2>7
  <1> QED BY <1>1, <1>2, <1>3, <1>7

LEMMA KeysAreOrdered ==
  /\ \A a, b \in Items : a # b => KeyBefore(a, b) \/ KeyBefore(b, a)
  /\ \A a, b \in Items : KeyBefore(a, b) => ~KeyBefore(b, a)
  /\ \A a, b, c \in Items : KeyBefore(a, b) /\ KeyBefore(b, c) => KeyBefore(a, c)
  <1>1. \A a \in Items : a = <<a[1], a[2]>> /\ a[1] \in {"knowledge", "memory"} /\ a[2] \in Nat
    BY RetrievalAssumption DEF Items, Chunks, Memories
  <1> HIDE DEF Items
  <1> QED BY <1>1 DEF KeyBefore

LEMMA ContentsAreItems ==
  ASSUME NEW S \in SUBSET Items, NEW lists \in Seq(Lists(S))
  PROVE  /\ Contents(lists) \subseteq S /\ IsFiniteSet(Contents(lists))
         /\ lists \in Seq(Lists(Items))
  <1>1. \A l \in Lists(S) : Elements(l) \subseteq S /\ l \in Lists(Items)
    BY ListFacts, WiderLists
  <1>2. Contents(lists) \subseteq S
    BY <1>1 DEF Contents
  <1>3. IsFiniteSet(Contents(lists))
    BY <1>2, ItemsAreFinite, FS_Subset
  <1> QED BY <1>1, <1>2, <1>3

\* Fusion: all that the rankings have, the higher score first.
LEMMA FusionIsList ==
  ASSUME NEW S \in SUBSET Items, NEW lists \in Seq(Lists(S)),
         NEW s \in {RRFFuse(lists), RRFFuseMemories(lists)}
  PROVE  /\ s \in Lists(S)
         /\ Elements(s) = Contents(lists)
         /\ Len(s) = Cardinality(Contents(lists))
         /\ \A i, j \in 1 .. Len(s) : Score(s[i], lists) > Score(s[j], lists) => i < j
  <1> DEFINE all == Contents(lists)
             R(keys) == {p \in all \X all : \/ Score(p[1], lists) > Score(p[2], lists)
                                            \/ Score(p[1], lists) = Score(p[2], lists)
                                               /\ p \in keys}
  <1>1. all \subseteq S /\ all \subseteq Items /\ IsFiniteSet(all) /\ lists \in Seq(Lists(Items))
    BY ContentsAreItems
  <1>2. \A x \in all : Score(x, lists) \in Int
    BY <1>1, ScoreIsNat
  <1>3. ASSUME NEW keys,
               \A a, b \in Items : a # b => <<a, b>> \in keys \/ <<b, a>> \in keys,
               \A a, b \in Items : <<a, b>> \in keys => <<b, a>> \notin keys,
               \A a, b, c \in Items : <<a, b>> \in keys /\ <<b, c>> \in keys => <<a, c>> \in keys,
               s = Ranked(all, R(keys))
        PROVE  /\ s \in Lists(S) /\ Elements(s) = all /\ Len(s) = Cardinality(all)
               /\ \A i, j \in 1 .. Len(s) : Score(s[i], lists) > Score(s[j], lists) => i < j
    <2>1. \A a, b \in all : <<a, b>> \in R(keys) <=>
            \/ Score(a, lists) > Score(b, lists)
            \/ Score(a, lists) = Score(b, lists) /\ <<a, b>> \in keys
      OBVIOUS
    <2> HIDE DEF R, all
    <2>2. TotalOrder(all, R(keys))
      BY <1>1, <1>2, <1>3, <2>1 DEF TotalOrder
    <2>3. s \in Lists(all) /\ Elements(s) = all /\ Len(s) = Cardinality(all)
      BY <1>1, <1>3, <2>2, RankedIsList
    <2>4. /\ s \in [1 .. Cardinality(all) -> all]
          /\ \A i, j \in 1 .. Cardinality(all) : i < j <=> <<s[i], s[j]>> \in R(keys)
      BY <1>1, <1>3, <2>2, RankedIsInOrder
    <2>5. \A i, j \in 1 .. Len(s) : Score(s[i], lists) > Score(s[j], lists) => i < j
      BY <2>1, <2>3, <2>4
    <2> QED BY <1>1, <2>3, <2>5, WiderLists
  <1> DEFINE up == {p \in Items \X Items : KeyBefore(p[1], p[2])}
             down == {p \in Items \X Items : KeyBefore(p[2], p[1])}
  <1>4. /\ \A a, b \in Items : <<a, b>> \in up <=> KeyBefore(a, b)
        /\ \A a, b \in Items : <<a, b>> \in down <=> KeyBefore(b, a)
    OBVIOUS
  <1>5. RRFFuse(lists) = Ranked(all, R(up))
    <2>1. R(up) = {p \in all \X all :
                     \/ Score(p[1], lists) > Score(p[2], lists)
                     \/ Score(p[1], lists) = Score(p[2], lists) /\ KeyBefore(p[1], p[2])}
      BY <1>1
    <2> QED BY <2>1 DEF RRFFuse
  <1>6. RRFFuseMemories(lists) = Ranked(all, R(down))
    <2>1. R(down) = {p \in all \X all :
                     \/ Score(p[1], lists) > Score(p[2], lists)
                     \/ Score(p[1], lists) = Score(p[2], lists) /\ KeyBefore(p[2], p[1])}
      BY <1>1
    <2> QED BY <2>1 DEF RRFFuseMemories
  <1> HIDE DEF up, down, R, all
  <1>7. CASE s = RRFFuse(lists)
    BY <1>3, <1>4, <1>5, <1>7, KeysAreOrdered DEF all
  <1>8. CASE s = RRFFuseMemories(lists)
    BY <1>3, <1>4, <1>6, <1>8, KeysAreOrdered DEF all
  <1> QED BY <1>7, <1>8

-----------------------------------------------------------------------------
(* Fusion keeps the order that the rankings agree on.                          *)

\* In l, x comes before y, or y does not come at all.
Before(x, y, l) == y \in Elements(l) => x \in Elements(l) /\ Place(x, l) < Place(y, l)

LEMMA EarlierWeighsMore ==
  ASSUME NEW l \in Lists(Items), NEW x, NEW y, x # y, Before(x, y, l)
  PROVE  /\ Weight(x, l) >= Weight(y, l)
         /\ x \in Elements(l) => Weight(x, l) > Weight(y, l)
  <1>1. \A z \in Elements(l) : \E i \in 1 .. Len(l) : l[i] = z
    BY ListFacts
  <1>2. Weight(x, l) \in Nat /\ Weight(y, l) \in Nat
    BY WeightIs
  <1>3. CASE x \notin Elements(l)
    <2>1. Weight(x, l) = 0 /\ Weight(y, l) = 0
      BY <1>3, WeightIs DEF Before
    <2> QED BY <1>3, <2>1
  <1>4. CASE x \in Elements(l) /\ y \notin Elements(l)
    <2>1. PICK i \in 1 .. Len(l) : l[i] = x
      BY <1>1, <1>4
    <2>2. Weight(x, l) > 0 /\ Weight(y, l) = 0
      BY <1>4, <2>1, WeightIs
    <2> QED BY <1>2, <2>2
  <1>5. CASE x \in Elements(l) /\ y \in Elements(l)
    <2>1. PICK i \in 1 .. Len(l), j \in 1 .. Len(l) : l[i] = x /\ l[j] = y
      BY <1>1, <1>5
    <2>2. i < j
      BY <1>5, <2>1, PlaceIs DEF Before
    <2>3. Weight(x, l) > Weight(y, l)
      BY <2>1, <2>2, WeightIs
    <2> QED BY <1>2, <2>3
  <1> QED BY <1>3, <1>4, <1>5

LEMMA FusionKeepsOrder ==
  ASSUME NEW lists \in Seq(Lists(Items)),
         NEW s \in {RRFFuse(lists), RRFFuseMemories(lists)},
         NEW x \in Elements(s), NEW y \in Elements(s), x # y,
         \A n \in 1 .. Len(lists) : Before(x, y, lists[n])
  PROVE  Place(x, s) < Place(y, s)
  <1>1. /\ s \in Lists(Items) /\ Elements(s) = Contents(lists)
        /\ \A i, j \in 1 .. Len(s) : Score(s[i], lists) > Score(s[j], lists) => i < j
    BY FusionIsList
  <1>2. \A n \in 1 .. Len(lists) : lists[n] \in Lists(Items)
    OBVIOUS
  <1>3. \A n \in 1 .. Len(lists) : /\ Weight(x, lists[n]) >= Weight(y, lists[n])
                                   /\ x \in Elements(lists[n]) =>
                                        Weight(x, lists[n]) > Weight(y, lists[n])
    BY <1>2, EarlierWeighsMore
  <1>4. PICK k \in 1 .. Len(lists) : x \in Elements(lists[k])
    BY <1>1 DEF Contents
  <1>5. Score(x, lists) > Score(y, lists)
    BY <1>3, <1>4, MoreWeightMoreScore
  <1>6. PICK i \in 1 .. Len(s), j \in 1 .. Len(s) : s[i] = x /\ s[j] = y
    BY <1>1, ListFacts
  <1>7. i < j
    BY <1>1, <1>5, <1>6
  <1> QED BY <1>1, <1>6, <1>7, PlaceIs

-----------------------------------------------------------------------------
(* Reranking.                                                                  *)

LEMMA FirstMention ==
  ASSUME NEW r \in Seq(Nat), NEW i \in Elements(r)
  PROVE  Mentioned(r, i) \in DOMAIN r /\ r[Mentioned(r, i)] = i
  <1> DEFINE T == {k \in DOMAIN r : r[k] = i}
  <1>1. T \in SUBSET Nat /\ T # {}
    BY DEF Elements
  <1>2. PICK m \in T : \A k \in T : m <= k
    BY <1>1, LeastNumber
  <1>3. \A j \in 1 .. m - 1 : r[j] # i
    BY <1>2
  <1>4. \E k \in DOMAIN r : r[k] = i /\ \A j \in 1 .. k - 1 : r[j] # i
    BY <1>2, <1>3
  <1> QED BY <1>4, Zenon DEF Mentioned

LEMMA SelectionIsList ==
  ASSUME NEW S, NEW candidates \in Lists(S), NEW order \in Lists(DOMAIN candidates),
         NEW s, s = [k \in DOMAIN order |-> candidates[order[k]]]
  PROVE  /\ s \in Lists(S)
         /\ Elements(s) = {candidates[i] : i \in Elements(order)}
  <1>1. /\ DOMAIN candidates = 1 .. Len(candidates)
        /\ \A i \in 1 .. Len(candidates) : candidates[i] \in S
        /\ \A i, j \in 1 .. Len(candidates) : candidates[i] = candidates[j] => i = j
    BY ListFacts
  <1>2. /\ Len(order) \in Nat /\ DOMAIN order = 1 .. Len(order)
        /\ \A k \in 1 .. Len(order) : order[k] \in 1 .. Len(candidates)
        /\ \A k, j \in 1 .. Len(order) : order[k] = order[j] => k = j
    BY <1>1, ListFacts
  <1>3. /\ s \in Seq(S) /\ DOMAIN s = DOMAIN order
        /\ \A k \in DOMAIN order : s[k] = candidates[order[k]]
    BY <1>1, <1>2
  <1>4. Distinct(s)
    BY <1>1, <1>2, <1>3 DEF Distinct
  <1>5. Elements(s) = {candidates[i] : i \in Elements(order)}
    BY <1>3 DEF Elements
  <1> QED BY <1>3, <1>4, <1>5 DEF Lists

LEMMA AppendedIsList ==
  ASSUME NEW S, NEW a \in Lists(S), NEW b \in Lists(S), Elements(a) \cap Elements(b) = {}
  PROVE  a \o b \in Lists(S) /\ Elements(a \o b) = Elements(a) \cup Elements(b)
  <1>1. /\ a \in Seq(S) /\ Len(a) \in Nat /\ DOMAIN a = 1 .. Len(a)
        /\ \A i, j \in 1 .. Len(a) : a[i] = a[j] => i = j
        /\ b \in Seq(S) /\ Len(b) \in Nat /\ DOMAIN b = 1 .. Len(b)
        /\ \A i, j \in 1 .. Len(b) : b[i] = b[j] => i = j
    BY ListFacts
  <1> DEFINE c == a \o b
  <1>2. /\ c \in Seq(S) /\ Len(c) = Len(a) + Len(b) /\ DOMAIN c = 1 .. Len(a) + Len(b)
        /\ \A i \in 1 .. Len(a) + Len(b) : c[i] = IF i <= Len(a) THEN a[i] ELSE b[i - Len(a)]
    BY <1>1
  <1> HIDE DEF c
  <1>3. /\ \A i \in 1 .. Len(a) : i \in DOMAIN c /\ c[i] = a[i]
        /\ \A i \in 1 .. Len(b) : Len(a) + i \in DOMAIN c /\ c[Len(a) + i] = b[i]
    BY <1>1, <1>2, SMTT(40)
  <1>4. \A i \in DOMAIN c : \/ i \in 1 .. Len(a) /\ c[i] = a[i] /\ c[i] \in Elements(a)
                            \/ /\ i - Len(a) \in 1 .. Len(b) /\ c[i] = b[i - Len(a)]
                               /\ c[i] \in Elements(b)
    BY <1>1, <1>2 DEF Elements
  <1>5. Elements(c) = Elements(a) \cup Elements(b)
    <2>1. Elements(c) \subseteq Elements(a) \cup Elements(b)
      BY <1>4 DEF Elements
    <2>2. Elements(a) \subseteq Elements(c) /\ Elements(b) \subseteq Elements(c)
      BY <1>1, <1>3 DEF Elements
    <2> QED BY <2>1, <2>2
  <1>6. ASSUME NEW i \in DOMAIN c, NEW j \in DOMAIN c, c[i] = c[j]
        PROVE  i = j
    <2>1. i \in Int /\ j \in Int
      BY <1>1, <1>2
    <2>2. CASE c[i] \in Elements(a)
      <3>1. /\ i \in 1 .. Len(a) /\ c[i] = a[i] /\ j \in 1 .. Len(a) /\ c[j] = a[j]
        BY <1>4, <1>6, <2>2
      <3> QED BY <1>1, <1>6, <3>1
    <2>3. CASE c[i] \notin Elements(a)
      <3>1. /\ i - Len(a) \in 1 .. Len(b) /\ c[i] = b[i - Len(a)]
            /\ j - Len(a) \in 1 .. Len(b) /\ c[j] = b[j - Len(a)]
        BY <1>4, <1>6, <2>3
      <3>2. i - Len(a) = j - Len(a)
        BY <1>1, <1>6, <3>1
      <3> QED BY <1>1, <2>1, <3>2
    <2> QED BY <2>2, <2>3
  <1> QED BY <1>2, <1>5, <1>6 DEF Lists, Distinct, c

LEMMA NumbersInOrder ==
  ASSUME NEW I \in SUBSET Nat
  PROVE  TotalOrder(I, {p \in I \X I : p[1] < p[2]})
  <1> DEFINE R == {p \in I \X I : p[1] < p[2]}
  <1>1. \A i, j \in I : <<i, j>> \in R <=> i < j
    OBVIOUS
  <1>2. \A i \in I : i \in Int
    OBVIOUS
  <1> HIDE DEF R
  <1>3. TotalOrder(I, R)
    BY <1>1, <1>2 DEF TotalOrder
  <1> QED BY <1>3 DEF R

LEMMA InTheirOrderIsList ==
  ASSUME NEW S, NEW candidates \in Lists(S), NEW I \in SUBSET (DOMAIN candidates)
  PROVE  /\ InTheirOrder(candidates, I) \in Lists(S)
         /\ Elements(InTheirOrder(candidates, I)) = {candidates[i] : i \in I}
  <1> DEFINE R == {p \in I \X I : p[1] < p[2]}
  <1>1. Len(candidates) \in Nat /\ DOMAIN candidates = 1 .. Len(candidates)
    BY ListFacts
  <1>2. I \in SUBSET Nat /\ I \in SUBSET (1 .. Len(candidates))
    BY <1>1
  <1>3. IsFiniteSet(I)
    <2>1. IsFiniteSet(1 .. Len(candidates))
      BY <1>1, FS_Interval
    <2> QED BY <1>2, <2>1, FS_Subset
  <1>4. Ranked(I, R) \in Lists(I) /\ Elements(Ranked(I, R)) = I
    BY <1>2, <1>3, NumbersInOrder, RankedIsList
  <1>5. InTheirOrder(candidates, I)
          = [k \in DOMAIN Ranked(I, R) |-> candidates[Ranked(I, R)[k]]]
    BY DEF InTheirOrder
  <1> HIDE DEF R
  <1>6. Ranked(I, R) \in Lists(DOMAIN candidates)
    BY <1>4, WiderLists
  <1> QED BY <1>4, <1>5, <1>6, SelectionIsList

LEMMA NamedIsList ==
  ASSUME NEW S, NEW candidates \in Lists(S), NEW results \in Seq(Nat)
  PROVE  /\ Named(candidates, results) \in Lists(S)
         /\ Elements(Named(candidates, results))
              = {candidates[i] : i \in Elements(results) \cap DOMAIN candidates}
  <1> DEFINE I == Elements(results) \cap DOMAIN candidates
             R == {p \in I \X I : Mentioned(results, p[1]) < Mentioned(results, p[2])}
  <1>1. Len(candidates) \in Nat /\ DOMAIN candidates = 1 .. Len(candidates)
    BY ListFacts
  <1>2. \A i \in I : Mentioned(results, i) \in Int /\ results[Mentioned(results, i)] = i
    BY FirstMention
  <1>3. IsFiniteSet(I)
    <2>1. I \in SUBSET (1 .. Len(candidates))
      BY <1>1
    <2>2. IsFiniteSet(1 .. Len(candidates))
      BY <1>1, FS_Interval
    <2> QED BY <2>1, <2>2, FS_Subset
  <1>4. TotalOrder(I, R)
    <2>1. \A i, j \in I : <<i, j>> \in R <=> Mentioned(results, i) < Mentioned(results, j)
      OBVIOUS
    <2> HIDE DEF R, I
    <2> QED BY <1>2, <2>1 DEF TotalOrder
  <1>5. Named(candidates, results)
          = [k \in DOMAIN Ranked(I, R) |-> candidates[Ranked(I, R)[k]]]
    BY DEF Named
  <1>6. I \subseteq DOMAIN candidates
    OBVIOUS
  <1> HIDE DEF R, I
  <1>7. Ranked(I, R) \in Lists(I) /\ Elements(Ranked(I, R)) = I
    BY <1>3, <1>4, RankedIsList
  <1>8. Ranked(I, R) \in Lists(DOMAIN candidates)
    BY <1>6, <1>7, WiderLists
  <1>9. /\ Named(candidates, results) \in Lists(S)
        /\ Elements(Named(candidates, results)) = {candidates[i] : i \in Elements(Ranked(I, R))}
    BY <1>5, <1>8, SelectionIsList
  <1> QED BY <1>7, <1>9 DEF I

\* A reranked answer has all candidates that fit, each once, whatever the reranker named.
LEMMA RerankedIsList ==
  ASSUME NEW S, NEW candidates \in Lists(S), NEW results \in Seq(Nat), NEW limit \in Nat
  PROVE  /\ Reranked(candidates, results, limit) \in Lists(S)
         /\ Len(Reranked(candidates, results, limit)) = Smaller(limit, Len(candidates))
         /\ Elements(Reranked(candidates, results, limit)) \subseteq Elements(candidates)
  <1> DEFINE rest == DOMAIN candidates \ Elements(results)
             a == Named(candidates, results)
             b == InTheirOrder(candidates, rest)
  <1>1. /\ DOMAIN candidates = 1 .. Len(candidates)
        /\ \A i, j \in 1 .. Len(candidates) : candidates[i] = candidates[j] => i = j
    BY ListFacts
  <1>2. /\ a \in Lists(S)
        /\ Elements(a) = {candidates[i] : i \in Elements(results) \cap DOMAIN candidates}
    BY NamedIsList
  <1>3. b \in Lists(S) /\ Elements(b) = {candidates[i] : i \in rest}
    BY InTheirOrderIsList
  <1>4. Reranked(candidates, results, limit) = Prefix(a \o b, limit)
    BY DEF Reranked
  <1> HIDE DEF a, b
  <1>5. Elements(a) \cap Elements(b) = {}
    BY <1>1, <1>2, <1>3
  <1>6. Elements(a) \cup Elements(b) = Elements(candidates)
    BY <1>2, <1>3 DEF Elements
  <1>7. a \o b \in Lists(S) /\ Elements(a \o b) = Elements(candidates)
    BY <1>2, <1>3, <1>5, <1>6, AppendedIsList, ZenonT(60)
  <1> DEFINE c == a \o b
  <1>8. c \in Lists(S) /\ Elements(c) = Elements(candidates)
    BY <1>7
  <1> HIDE DEF c
  <1>9. Len(c) = Len(candidates)
    BY <1>8, ListIsFinite
  <1>10. Reranked(candidates, results, limit) = Prefix(c, limit)
    BY <1>4 DEF c
  <1> QED BY <1>8, <1>9, <1>10, PrefixIsList

-----------------------------------------------------------------------------
(* One search.  U is who may search, T the tags there are, A what the searcher  *)
(* may see, of which recalls return lists.                                      *)

Stages == {"none", "tags", "recall", "recalled", "fused", "answered", "failed", "next", "context"}

Outcomes(S) == [ok : BOOLEAN, hits : Lists(S)]

SearchRecord(U, T, A) ==
  [at : Stages, asked : Modes, mode : Modes, user : U, topK : Nat, rerank : BOOLEAN,
   retried : BOOLEAN, tags : SUBSET T, bm25 : Outcomes(Chunks \cap A),
   vector : Outcomes(Chunks \cap A), phrase : Lists(Chunks \cap A), fused : Lists(A),
   answer : Lists(A), pool : SUBSET A, question : BOOLEAN, plan : Seq(Modes),
   groups : Seq(Lists(A))]

\* A recall that failed or was not asked for has no hits.
RecallsMatchMode(s) ==
  /\ ~s.bm25.ok => s.bm25.hits = <<>>
  /\ ~s.vector.ok => s.vector.hits = <<>>
  /\ s.at = "recalled" /\ s.mode = "bm25" => s.vector.hits = <<>>
  /\ s.at = "recalled" /\ s.mode = "vector" => s.bm25.hits = <<>>

\* topK tells a search from the end of a question.
TopKMatchesStage(s) ==
  /\ s.at \in {"tags", "recall", "recalled", "fused"} => s.topK > 0
  /\ s.at = "context" => /\ s.topK = 0 /\ Elements(s.fused) \subseteq s.pool
                         /\ s.pool # {} => s.fused # <<>>

SearchInv(s, U, T, A) ==
  /\ s \in SearchRecord(U, T, A)
  /\ s.at = "none" => s = NoSearch
  /\ RecallsMatchMode(s)
  /\ TopKMatchesStage(s)
  /\ RanksWhatItRecalled(s)

LEMMA NoSearchIsRecord ==
  ASSUME NEW U, NEW T, NEW A, 0 \in U
  PROVE  NoSearch \in SearchRecord(U, T, A)
  <1>1. <<>> \in Lists(A) /\ <<>> \in Lists(Chunks \cap A)
    BY NoList
  <1>2. NotAsked \in Outcomes(Chunks \cap A)
    BY <1>1 DEF NotAsked, Outcomes
  <1>3. <<>> \in Seq(Modes) /\ <<>> \in Seq(Lists(A))
    OBVIOUS
  <1> QED BY <1>1, <1>2, <1>3 DEF NoSearch, SearchRecord, Stages, Modes

LEMMA NoSearchInv ==
  ASSUME NEW U, NEW T, NEW A, 0 \in U
  PROVE  SearchInv(NoSearch, U, T, A)
  <1>1. NoSearch \in SearchRecord(U, T, A)
    BY NoSearchIsRecord
  <1>2. /\ NoSearch.at = "none" /\ NoSearch.bm25.hits = <<>> /\ NoSearch.vector.hits = <<>>
    BY DEF NoSearch, NotAsked
  <1> QED BY <1>1, <1>2 DEF SearchInv, RecallsMatchMode, TopKMatchesStage, RanksWhatItRecalled

\* What was allowed stays allowed.
LEMMA SearchInvGrows ==
  ASSUME NEW U, NEW T, NEW A, NEW B, A \subseteq B, NEW s, SearchInv(s, U, T, A)
  PROVE  SearchInv(s, U, T, B)
  <1>1. \A l \in Lists(A) : l \in Lists(B)
    BY WiderLists
  <1>2. \A l \in Lists(Chunks \cap A) : l \in Lists(Chunks \cap B)
    BY WiderLists
  <1>3. s \in SearchRecord(U, T, A)
    BY DEF SearchInv
  <1>4. s.groups \in Seq(Lists(B))
    <2>1. s.groups \in Seq(Lists(A))
      BY <1>3 DEF SearchRecord
    <2> QED BY <1>1, <2>1
  <1>5. s.bm25 \in Outcomes(Chunks \cap B) /\ s.vector \in Outcomes(Chunks \cap B)
    <2>1. s.bm25 \in Outcomes(Chunks \cap A) /\ s.vector \in Outcomes(Chunks \cap A)
      BY <1>3 DEF SearchRecord
    <2> QED BY <1>2, <2>1 DEF Outcomes
  <1>6. /\ s.phrase \in Lists(Chunks \cap B) /\ s.fused \in Lists(B) /\ s.answer \in Lists(B)
        /\ s.pool \in SUBSET B
    BY <1>1, <1>2, <1>3 DEF SearchRecord
  <1>7. s \in SearchRecord(U, T, B)
    BY <1>3, <1>4, <1>5, <1>6 DEF SearchRecord
  <1> QED BY <1>7 DEF SearchInv

LEMMA RequestedTopKIsPositive ==
  ASSUME NEW k \in Nat
  PROVE  RequestedTopK(k) \in Nat \ {0}
  BY RetrievalAssumption DEF RequestedTopK, Smaller, Larger

LEMMA KnowledgeTopKIsPositive == KnowledgeTopK \in Nat \ {0}
  BY RetrievalAssumption DEF KnowledgeTopK, Larger

LEMMA ReturnTopKIsNat ==
  ASSUME NEW U, NEW T, NEW A, NEW s \in SearchRecord(U, T, A)
  PROVE  ReturnTopK(s) \in Nat
  BY RetrievalAssumption DEF ReturnTopK, Smaller, SearchRecord

\* A recall returns a list of what the filter lets through.
LEMMA RecallIsOutcome ==
  ASSUME NEW S \in SUBSET Chunks, NEW o \in Recalls(S, TopN)
  PROVE  o \in Outcomes(S) /\ (~o.ok => o.hits = <<>>)
  <1>1. IsFiniteSet(S) /\ TopN \in Nat
    BY ItemsAreFinite, FS_Subset, RetrievalAssumption
  <1>2. CASE o \in {[ok |-> TRUE, hits |-> s] : s \in Rankings(S, TopN)}
    <2>1. PICK s \in Rankings(S, TopN) : o = [ok |-> TRUE, hits |-> s]
      BY <1>2
    <2>2. s \in Lists(S)
      BY <1>1, RankingIsList
    <2> QED BY <2>1, <2>2 DEF Outcomes
  <1>3. CASE o = Failed
    BY <1>3, NoList DEF Failed, Outcomes
  <1> QED BY <1>2, <1>3 DEF Recalls

-----------------------------------------------------------------------------
(* The steps of one search.                                                    *)

Searching(r, U, T, A) ==
  /\ r \in DOMAIN search
  /\ SearchInv(search[r], U, T, A)
  /\ Visible(search[r]) \subseteq A /\ OwnMemories(search[r]) \subseteq A
  /\ A \subseteq Items /\ 0 \in U

\* The search goes on as s became t, for the same user.
GoesOn(s, t, U, T, A) ==
  /\ SearchInv(t, U, T, A)
  /\ t.at # "none" /\ t.user = s.user /\ t.tags \in {s.tags, {}}

Kept(r, U, T, A) ==
  /\ search' = [search EXCEPT ![r] = search'[r]]
  /\ GoesOn(search[r], search'[r], U, T, A)

LEMMA PutKeeps ==
  ASSUME NEW U, NEW T, NEW A, NEW r, Searching(r, U, T, A),
         NEW t, Put(r, t), GoesOn(search[r], t, U, T, A)
  PROVE  Kept(r, U, T, A)
  <1>1. search' = [search EXCEPT ![r] = t] /\ r \in DOMAIN search
    BY DEF Put, Searching
  <1>2. search'[r] = t
    BY <1>1
  <1> QED BY <1>1, <1>2 DEF Kept

LEMMA LoadTagsKeeps ==
  ASSUME NEW U, NEW T, NEW A, NEW r, Searching(r, U, T, A),
         NEW effective \in SUBSET T, LoadTags(r, effective)
  PROVE  /\ search' = [search EXCEPT ![r] = search'[r]]
         /\ SearchInv(search'[r], U, T, A)
         /\ search'[r].at # "none" /\ search'[r].user = search[r].user
         /\ search'[r].tags \in {effective, {}}
  <1> DEFINE s == search[r]
  <1>1. PICK tags \in {effective, {}} : Put(r, [s EXCEPT !.at = "recall", !.tags = tags])
    BY DEF LoadTags
  <1> DEFINE t == [s EXCEPT !.at = "recall", !.tags = tags]
  <1>2. s \in SearchRecord(U, T, A) /\ s.at = "tags" /\ SearchInv(s, U, T, A)
    BY DEF LoadTags, At, Searching, SearchInv
  <1> HIDE DEF s
  <1>3. t \in SearchRecord(U, T, A)
    BY <1>2 DEF SearchRecord, Stages
  <1>4. /\ t.at = "recall" /\ t.tags = tags /\ t.user = s.user /\ t.topK = s.topK
        /\ t.bm25 = s.bm25 /\ t.vector = s.vector
    BY <1>2 DEF SearchRecord
  <1>5. search' = [search EXCEPT ![r] = t] /\ r \in DOMAIN search
    BY <1>1 DEF Put, Searching
  <1>6. search'[r] = t
    BY <1>5
  <1> HIDE DEF t
  <1>7. SearchInv(t, U, T, A)
    BY <1>2, <1>3, <1>4 DEF SearchInv, RecallsMatchMode, TopKMatchesStage, RanksWhatItRecalled
  <1> QED BY <1>4, <1>5, <1>6, <1>7 DEF s

LEMMA RecallKeeps ==
  ASSUME NEW U, NEW T, NEW A, NEW r, Searching(r, U, T, A), Recall(r)
  PROVE  Kept(r, U, T, A)
  <1> DEFINE s == search[r]
  <1>1. PICK b \in (IF s.mode = "vector" THEN {NotAsked} ELSE Recalls(Visible(s), TopN)),
             v \in (IF s.mode = "bm25" THEN {NotAsked} ELSE Recalls(Visible(s), TopN)) :
          Put(r, [s EXCEPT !.at = "recalled", !.bm25 = b, !.vector = v])
    BY DEF Recall
  <1> DEFINE t == [s EXCEPT !.at = "recalled", !.bm25 = b, !.vector = v]
  <1>2. /\ s \in SearchRecord(U, T, A) /\ s.at = "recall" /\ SearchInv(s, U, T, A)
        /\ Visible(s) \subseteq Chunks \cap A
    BY DEF Recall, At, Searching, SearchInv, Visible
  <1> HIDE DEF s
  <1>3. \A o \in Recalls(Visible(s), TopN) : o \in Outcomes(Chunks \cap A) /\ (~o.ok => o.hits = <<>>)
    <2>1. \A l \in Lists(Visible(s)) : l \in Lists(Chunks \cap A)
      BY <1>2, WiderLists
    <2>2. Visible(s) \in SUBSET Chunks
      BY <1>2
    <2>3. \A o \in Recalls(Visible(s), TopN) : o \in Outcomes(Visible(s)) /\ (~o.ok => o.hits = <<>>)
      BY <2>2, RecallIsOutcome
    <2> QED BY <2>1, <2>3 DEF Outcomes
  <1>4. NotAsked \in Outcomes(Chunks \cap A) /\ NotAsked.hits = <<>>
    BY NoList DEF NotAsked, Outcomes
  <1>5. /\ b \in Outcomes(Chunks \cap A) /\ v \in Outcomes(Chunks \cap A)
        /\ ~b.ok => b.hits = <<>>
        /\ ~v.ok => v.hits = <<>>
        /\ s.mode = "vector" => b.hits = <<>>
        /\ s.mode = "bm25" => v.hits = <<>>
    BY <1>1, <1>3, <1>4
  <1>6. t \in SearchRecord(U, T, A)
    BY <1>2, <1>5 DEF SearchRecord, Stages
  <1>7. /\ t.at = "recalled" /\ t.tags = s.tags /\ t.user = s.user /\ t.topK = s.topK
        /\ t.bm25 = b /\ t.vector = v /\ t.mode = s.mode
    BY <1>2 DEF SearchRecord
  <1>8. Put(r, t)
    BY <1>1
  <1> HIDE DEF t
  <1>9. GoesOn(s, t, U, T, A)
    BY <1>2, <1>5, <1>6, <1>7
    DEF GoesOn, SearchInv, RecallsMatchMode, TopKMatchesStage, RanksWhatItRecalled
  <1> QED BY <1>8, <1>9, PutKeeps DEF s

LEMMA DegradeKeeps ==
  ASSUME NEW U, NEW T, NEW A, NEW r, Searching(r, U, T, A), DegradeToBM25(r) \/ DegradeToVector(r)
  PROVE  Kept(r, U, T, A)
  <1> DEFINE s == search[r]
  <1>1. /\ s \in SearchRecord(U, T, A) /\ s.at = "recalled" /\ SearchInv(s, U, T, A)
        /\ Visible(s) \in SUBSET Chunks /\ Visible(s) \subseteq Chunks \cap A
    BY DEF DegradeToBM25, DegradeToVector, At, Searching, SearchInv, Visible
  <1>2. \A o \in Recalls(Visible(s), TopN) : o \in Outcomes(Chunks \cap A) /\ (~o.ok => o.hits = <<>>)
    <2> HIDE DEF s
    <2>1. \A l \in Lists(Visible(s)) : l \in Lists(Chunks \cap A)
      BY <1>1, WiderLists
    <2>2. \A o \in Recalls(Visible(s), TopN) : o \in Outcomes(Visible(s)) /\ (~o.ok => o.hits = <<>>)
      BY <1>1, RecallIsOutcome
    <2> QED BY <2>1, <2>2 DEF Outcomes
  <1>3. CASE DegradeToBM25(r)
    <2>1. PICK b \in Recalls(Visible(s), TopN) : Put(r, [s EXCEPT !.bm25 = b, !.mode = "bm25"])
      BY <1>3 DEF DegradeToBM25
    <2> DEFINE t == [s EXCEPT !.bm25 = b, !.mode = "bm25"]
    <2>2. ~s.vector.ok
      BY <1>3 DEF DegradeToBM25, Degraded
    <2>3. Put(r, t)
      BY <2>1
    <2> HIDE DEF s
    <2>4. t \in SearchRecord(U, T, A)
      BY <1>1, <1>2 DEF SearchRecord, Modes
    <2>5. /\ t.at = "recalled" /\ t.tags = s.tags /\ t.user = s.user /\ t.topK = s.topK
          /\ t.bm25 = b /\ t.vector = s.vector /\ t.mode = "bm25"
      BY <1>1 DEF SearchRecord
    <2> HIDE DEF t
    <2>6. GoesOn(s, t, U, T, A)
      BY <1>1, <1>2, <2>2, <2>4, <2>5
      DEF GoesOn, SearchInv, RecallsMatchMode, TopKMatchesStage, RanksWhatItRecalled
    <2> QED BY <2>3, <2>6, PutKeeps DEF s
  <1>4. CASE DegradeToVector(r)
    <2>1. PICK v \in Recalls(Visible(s), TopN) :
            Put(r, [s EXCEPT !.vector = v, !.mode = "vector", !.retried = TRUE])
      BY <1>4 DEF DegradeToVector
    <2> DEFINE t == [s EXCEPT !.vector = v, !.mode = "vector", !.retried = TRUE]
    <2>2. ~s.bm25.ok
      BY <1>4 DEF DegradeToVector, Degraded
    <2>3. Put(r, t)
      BY <2>1
    <2> HIDE DEF s
    <2>4. t \in SearchRecord(U, T, A)
      BY <1>1, <1>2 DEF SearchRecord, Modes
    <2>5. /\ t.at = "recalled" /\ t.tags = s.tags /\ t.user = s.user /\ t.topK = s.topK
          /\ t.bm25 = s.bm25 /\ t.vector = v /\ t.mode = "vector"
      BY <1>1 DEF SearchRecord
    <2> HIDE DEF t
    <2>6. GoesOn(s, t, U, T, A)
      BY <1>1, <1>2, <2>2, <2>4, <2>5
      DEF GoesOn, SearchInv, RecallsMatchMode, TopKMatchesStage, RanksWhatItRecalled
    <2> QED BY <2>3, <2>6, PutKeeps DEF s
  <1> QED BY <1>3, <1>4

LEMMA SearchFailsKeeps ==
  ASSUME NEW U, NEW T, NEW A, NEW r, Searching(r, U, T, A), SearchFails(r)
  PROVE  Kept(r, U, T, A)
  <1> DEFINE s == search[r]
             t == [s EXCEPT !.at = "failed", !.bm25 = NotAsked, !.vector = NotAsked]
  <1>1. s \in SearchRecord(U, T, A) /\ SearchInv(s, U, T, A) /\ Put(r, t)
    BY DEF SearchFails, Searching, SearchInv
  <1>2. NotAsked \in Outcomes(Chunks \cap A) /\ NotAsked.hits = <<>>
    BY NoList DEF NotAsked, Outcomes
  <1> HIDE DEF s
  <1>3. t \in SearchRecord(U, T, A)
    BY <1>1, <1>2 DEF SearchRecord, Stages
  <1>4. /\ t.at = "failed" /\ t.tags = s.tags /\ t.user = s.user
        /\ t.bm25 = NotAsked /\ t.vector = NotAsked
    BY <1>1 DEF SearchRecord
  <1> HIDE DEF t
  <1>5. GoesOn(s, t, U, T, A)
    BY <1>1, <1>2, <1>3, <1>4
    DEF GoesOn, SearchInv, RecallsMatchMode, TopKMatchesStage, RanksWhatItRecalled
  <1> QED BY <1>1, <1>5, PutKeeps DEF s, t

LEMMA ContentsOfTwo ==
  ASSUME NEW a, NEW b
  PROVE  Contents(<<a, b>>) = Elements(a) \cup Elements(b)
  <1>1. DOMAIN <<a, b>> = {1, 2} /\ <<a, b>>[1] = a /\ <<a, b>>[2] = b
    OBVIOUS
  <1> QED BY <1>1 DEF Contents

LEMMA ContentsOfThree ==
  ASSUME NEW a, NEW b, NEW c
  PROVE  Contents(<<a, b, c>>) = Elements(a) \cup Elements(b) \cup Elements(c)
  <1>1. /\ DOMAIN <<a, b, c>> = {1, 2, 3}
        /\ <<a, b, c>>[1] = a /\ <<a, b, c>>[2] = b /\ <<a, b, c>>[3] = c
    OBVIOUS
  <1> QED BY <1>1 DEF Contents

\* What FusionRespects asks of s, when s.fused is the fusion of the rankings in lists,
\* which are those of s as far as they are not empty.
LEMMA FusionOfRecalls ==
  ASSUME NEW S \in SUBSET Items, NEW lists \in Seq(Lists(S)), NEW s,
         s.fused = RRFFuse(lists), s.pool = Recalled(s),
         Contents(lists) = Recalled(s),
         \A n \in 1 .. Len(lists) : lists[n] \in {s.bm25.hits, s.vector.hits, s.phrase}
  PROVE  /\ s.fused \in Lists(S)
         /\ Elements(s.fused) = s.pool /\ Len(s.fused) = Cardinality(s.pool)
         /\ FusionRespects(s)
  <1>1. /\ s.fused \in Lists(S) /\ Elements(s.fused) = s.pool
        /\ Len(s.fused) = Cardinality(s.pool)
    BY FusionIsList
  <1>2. lists \in Seq(Lists(Items))
    BY ContentsAreItems
  <1>3. ASSUME NEW x \in Elements(s.fused), NEW y \in Elements(s.fused), x # y,
               \A l \in {s.bm25.hits, s.vector.hits, s.phrase} : Before(x, y, l)
        PROVE  Place(x, s.fused) < Place(y, s.fused)
    <2>1. \A n \in 1 .. Len(lists) : Before(x, y, lists[n])
      BY <1>3
    <2> QED BY <1>2, <1>3, <2>1, FusionKeepsOrder
  <1>4. FusionRespects(s)
    BY <1>3 DEF FusionRespects, Before
  <1> QED BY <1>1, <1>4

LEMMA FusedKeeps ==
  ASSUME NEW U, NEW T, NEW A \in SUBSET Items, NEW s, SearchInv(s, U, T, A), s.at = "recalled",
         NEW phrase \in Lists(Chunks \cap A), s.mode = "vector" => phrase = <<>>
  PROVE  GoesOn(s, Fused(s, phrase), U, T, A)
  <1> DEFINE S == Chunks \cap A
             t == [s EXCEPT !.at = "fused", !.phrase = phrase]
             f == FuseHitsByMode(t)
             u == [t EXCEPT !.fused = f, !.pool = Recalled(t)]
  <1>1. /\ s \in SearchRecord(U, T, A) /\ RecallsMatchMode(s) /\ s.topK > 0
    BY DEF SearchInv, TopKMatchesStage
  <1>2. /\ s.bm25.hits \in Lists(S) /\ s.vector.hits \in Lists(S) /\ s.mode \in Modes
    BY <1>1 DEF SearchRecord, Outcomes
  <1>3. /\ t \in SearchRecord(U, T, A) /\ t.bm25 = s.bm25 /\ t.vector = s.vector
        /\ t.phrase = phrase /\ t.mode = s.mode /\ t.at = "fused"
        /\ t.user = s.user /\ t.tags = s.tags /\ t.topK = s.topK
    BY <1>1 DEF SearchRecord, Stages
  <1>4. Recalled(t) \in SUBSET A
    <2>1. \A l \in Lists(S) : Elements(l) \subseteq A
      BY ListFacts
    <2> QED BY <1>2, <1>3, <2>1 DEF Recalled
  <1> HIDE DEF t, f
  <1>5. /\ u.fused = f /\ u.pool = Recalled(t) /\ u.bm25 = s.bm25 /\ u.vector = s.vector
        /\ u.phrase = phrase /\ u.mode = s.mode /\ u.at = "fused"
        /\ u.user = s.user /\ u.tags = s.tags /\ u.topK = s.topK
    BY <1>3 DEF SearchRecord
  <1>6. u.pool = Recalled(u)
    BY <1>3, <1>5 DEF Recalled
  <1>7. /\ u.fused \in Lists(S)
        /\ Elements(u.fused) = u.pool /\ Len(u.fused) = Cardinality(u.pool)
        /\ FusionRespects(u)
    <2>1. CASE s.mode = "bm25"
      <3> DEFINE lists == <<s.bm25.hits, phrase>>
      <3>1. f = RRFFuse(lists)
        BY <1>3, <2>1 DEF f, FuseHitsByMode
      <3>2. Elements(s.vector.hits) = {}
        BY <1>1, <2>1, NoList DEF RecallsMatchMode
      <3>3. Contents(lists) = Recalled(u)
        BY <1>5, <3>2, ContentsOfTwo DEF Recalled
      <3>4. /\ lists \in Seq(Lists(S))
            /\ \A n \in 1 .. Len(lists) : lists[n] \in {u.bm25.hits, u.vector.hits, u.phrase}
        BY <1>2, <1>5
      <3>5. S \in SUBSET Items
        OBVIOUS
      <3> HIDE DEF lists, u
      <3> QED BY <1>5, <1>6, <3>1, <3>3, <3>4, <3>5, FusionOfRecalls
    <2>2. CASE s.mode = "vector"
      <3>1. u.fused = s.vector.hits
        BY <1>3, <1>5, <2>2 DEF f, FuseHitsByMode
      <3>2. Elements(s.bm25.hits) = {} /\ Elements(phrase) = {}
        BY <1>1, <2>2, NoList DEF RecallsMatchMode
      <3>3. u.pool = Elements(u.fused)
        BY <1>5, <1>6, <3>1, <3>2 DEF Recalled
      <3>4. u.fused \in Lists(S) /\ Len(u.fused) = Cardinality(u.pool)
        BY <1>2, <3>1, <3>3, ListIsFinite
      <3>5. FusionRespects(u)
        BY <1>5, <3>1 DEF FusionRespects
      <3> QED BY <3>3, <3>4, <3>5
    <2>3. CASE s.mode = "hybrid"
      <3> DEFINE lists == <<s.bm25.hits, s.vector.hits, phrase>>
      <3>1. f = RRFFuse(lists)
        BY <1>3, <2>3 DEF f, FuseHitsByMode
      <3>3. Contents(lists) = Recalled(u)
        BY <1>5, ContentsOfThree DEF Recalled
      <3>4. /\ lists \in Seq(Lists(S))
            /\ \A n \in 1 .. Len(lists) : lists[n] \in {u.bm25.hits, u.vector.hits, u.phrase}
        BY <1>2, <1>5
      <3>5. S \in SUBSET Items
        OBVIOUS
      <3> HIDE DEF lists, u
      <3> QED BY <1>5, <1>6, <3>1, <3>3, <3>4, <3>5, FusionOfRecalls
    <2> QED BY <1>2, <2>1, <2>2, <2>3 DEF Modes
  <1>8. f \in Lists(A)
    <2>1. S \subseteq A
      OBVIOUS
    <2> QED BY <1>5, <1>7, <2>1, WiderLists
  <1>9. u \in SearchRecord(U, T, A)
    BY <1>3, <1>4, <1>8 DEF SearchRecord
  <1>10. Fused(s, phrase) = u
    BY DEF Fused, t, f
  <1> HIDE DEF u
  <1>11. GoesOn(s, u, U, T, A)
    BY <1>1, <1>5, <1>7, <1>9
    DEF GoesOn, SearchInv, RecallsMatchMode, TopKMatchesStage, RanksWhatItRecalled
  <1> QED BY <1>10, <1>11

LEMMA PhraseSearchKeeps ==
  ASSUME NEW U, NEW T, NEW A, NEW r, Searching(r, U, T, A), PhraseSearch(r)
  PROVE  Kept(r, U, T, A)
  <1> DEFINE s == search[r]
  <1>1. PICK phrase : /\ \/ phrase \in Rankings(Visible(s), TopN) /\ s.mode # "vector"
                         \/ phrase = <<>>
                      /\ Put(r, Fused(s, phrase))
    BY DEF PhraseSearch
  <1>2. SearchInv(s, U, T, A) /\ s.at = "recalled" /\ A \in SUBSET Items /\ Visible(s) \subseteq A
    BY DEF PhraseSearch, Settled, At, Searching
  <1>3. phrase \in Lists(Chunks \cap A)
    <2>1. CASE phrase = <<>>
      BY <2>1, NoList
    <2>2. CASE phrase \in Rankings(Visible(s), TopN)
      <3>1. Visible(s) \in SUBSET Chunks /\ Visible(s) \subseteq Chunks \cap A
        BY <1>2 DEF Visible
      <3>2. IsFiniteSet(Visible(s)) /\ TopN \in Nat
        BY <3>1, ItemsAreFinite, FS_Subset, RetrievalAssumption
      <3>3. phrase \in Lists(Visible(s))
        BY <2>2, <3>2, RankingIsList
      <3> QED BY <3>1, <3>3, WiderLists
    <2> QED BY <1>1, <2>1, <2>2
  <1>4. s.mode = "vector" => phrase = <<>>
    BY <1>1
  <1> HIDE DEF s
  <1>5. GoesOn(s, Fused(s, phrase), U, T, A)
    BY <1>2, <1>3, <1>4, FusedKeeps
  <1> QED BY <1>1, <1>5, PutKeeps DEF s

LEMMA RerankAnswersAreNumbers ==
  ASSUME NEW n \in Nat, NEW results \in RerankAnswers(n)
  PROVE  results \in Seq(Nat)
  <1>1. PICK k \in 0 .. 2 : results \in [1 .. k -> 0 .. n]
    BY DEF RerankAnswers
  <1> QED BY <1>1

\* What an answer to s must be: as much of the pool as the limits let through.
AnswerFits(s, answer, A) ==
  /\ answer \in Lists(A) /\ Elements(answer) \subseteq s.pool
  /\ IF s.topK = 0 THEN s.pool # {} => answer # <<>>
     ELSE /\ Len(answer) <= ReturnTopK(s)
          /\ Len(answer) >= Smaller(Smaller(ReturnTopK(s), RerankTopN), Cardinality(s.pool))

LEMMA AnsweredKeeps ==
  ASSUME NEW U, NEW T, NEW A, NEW s, SearchInv(s, U, T, A),
         NEW answer, AnswerFits(s, answer, A)
  PROVE  GoesOn(s, Answered(s, answer), U, T, A)
  <1> DEFINE t == Answered(s, answer)
  <1>1. s \in SearchRecord(U, T, A) /\ answer \in Lists(A)
    BY DEF SearchInv, AnswerFits
  <1>2. NotAsked \in Outcomes(Chunks \cap A) /\ NotAsked.hits = <<>> /\ <<>> \in Lists(Chunks \cap A)
    BY NoList DEF NotAsked, Outcomes
  <1>3. t \in SearchRecord(U, T, A)
    BY <1>1, <1>2 DEF Answered, SearchRecord, Stages
  <1>4. /\ t.at = "answered" /\ t.tags = s.tags /\ t.user = s.user /\ t.answer = answer
        /\ t.bm25 = NotAsked /\ t.vector = NotAsked /\ t.pool = s.pool /\ t.topK = s.topK
        /\ t.rerank = s.rerank
    BY <1>1 DEF Answered, SearchRecord
  <1>5. ReturnTopK(t) = ReturnTopK(s)
    BY <1>4 DEF ReturnTopK
  <1>6. Len(answer) = Cardinality(Elements(answer))
    BY <1>1, ListIsFinite
  <1> HIDE DEF t
  <1>7. RanksWhatItRecalled(t)
    BY <1>4, <1>5, <1>6 DEF RanksWhatItRecalled, AnswerFits
  <1>8. SearchInv(t, U, T, A)
    BY <1>2, <1>3, <1>4, <1>7 DEF SearchInv, RecallsMatchMode, TopKMatchesStage
  <1>9. GoesOn(s, t, U, T, A)
    BY <1>4, <1>8 DEF GoesOn
  <1> QED BY <1>9 DEF t

LEMMA AnswersFit ==
  ASSUME NEW U, NEW T, NEW A \in SUBSET Items, NEW s, SearchInv(s, U, T, A), s.at = "fused",
         NEW answer \in Answers(s)
  PROVE  AnswerFits(s, answer, A)
  <1> DEFINE k == ReturnTopK(s)
             n == Cardinality(s.pool)
             candidates == Prefix(s.fused, RerankTopN)
  <1>1. /\ s \in SearchRecord(U, T, A) /\ s.fused \in Lists(A) /\ s.topK > 0
        /\ Elements(s.fused) = s.pool /\ Len(s.fused) = n
    BY DEF SearchInv, SearchRecord, TopKMatchesStage, RanksWhatItRecalled
  <1>2. k \in Nat /\ RerankTopN \in Nat /\ n \in Nat
    BY <1>1, ReturnTopKIsNat, ListFacts, RetrievalAssumption
  <1> HIDE DEF k, n
  <1>3. /\ answer \in Lists(A) /\ Elements(answer) \subseteq s.pool
        /\ Len(answer) \in {Smaller(k, n), Smaller(k, Smaller(RerankTopN, n))}
    <2>1. CASE answer = Prefix(s.fused, k)
      <3>1. /\ Prefix(s.fused, k) \in Lists(A)
            /\ Len(Prefix(s.fused, k)) = Smaller(k, Len(s.fused))
            /\ Elements(Prefix(s.fused, k)) \subseteq Elements(s.fused)
        BY <1>1, <1>2, PrefixIsList
      <3> QED BY <1>1, <2>1, <3>1
    <2>2. CASE answer # Prefix(s.fused, k)
      <3>1. PICK results \in RerankAnswers(Len(candidates)) : answer = Reranked(candidates, results, k)
        BY <2>2 DEF Answers, k
      <3>2. /\ candidates \in Lists(A) /\ Elements(candidates) \subseteq s.pool
            /\ Len(candidates) = Smaller(RerankTopN, n)
        BY <1>1, <1>2, PrefixIsList
      <3>3. Len(candidates) \in Nat
        BY <3>2, ListFacts
      <3>4. results \in Seq(Nat)
        BY <3>1, <3>3, RerankAnswersAreNumbers
      <3> HIDE DEF candidates
      <3> QED BY <1>2, <3>1, <3>2, <3>4, RerankedIsList
    <2> QED BY <2>1, <2>2
  <1>4. Len(answer) <= k /\ Len(answer) >= Smaller(Smaller(k, RerankTopN), n)
    BY <1>2, <1>3 DEF Smaller
  <1>5. s.topK # 0
    BY <1>1 DEF SearchRecord
  <1> QED BY <1>3, <1>4, <1>5 DEF AnswerFits, k, n

LEMMA AnswerKeeps ==
  ASSUME NEW U, NEW T, NEW A, NEW r, Searching(r, U, T, A), Answer(r)
  PROVE  Kept(r, U, T, A)
  <1> DEFINE s == search[r]
  <1>1. PICK answer \in Answers(s) : Put(r, Answered(s, answer))
    BY DEF Answer
  <1>2. SearchInv(s, U, T, A) /\ s.at = "fused" /\ A \in SUBSET Items
    BY DEF Answer, At, Searching
  <1> HIDE DEF s
  <1>3. GoesOn(s, Answered(s, answer), U, T, A)
    BY <1>2, AnswersFit, AnsweredKeeps
  <1> QED BY <1>1, <1>3, PutKeeps DEF s

LEMMA NamesFailKeeps ==
  ASSUME NEW U, NEW T, NEW A, NEW r, Searching(r, U, T, A), NamesFail(r)
  PROVE  Kept(r, U, T, A)
  <1> DEFINE s == search[r]
             t == [Answered(s, <<>>) EXCEPT !.at = "failed", !.fused = <<>>]
  <1>1. s \in SearchRecord(U, T, A) /\ SearchInv(s, U, T, A) /\ Put(r, t)
    BY DEF NamesFail, Searching, SearchInv
  <1>2. /\ NotAsked \in Outcomes(Chunks \cap A) /\ NotAsked.hits = <<>>
        /\ <<>> \in Lists(Chunks \cap A) /\ <<>> \in Lists(A)
    BY NoList DEF NotAsked, Outcomes
  <1> HIDE DEF s
  <1>3. t \in SearchRecord(U, T, A)
    BY <1>1, <1>2 DEF Answered, SearchRecord, Stages
  <1>4. /\ t.at = "failed" /\ t.tags = s.tags /\ t.user = s.user
        /\ t.bm25 = NotAsked /\ t.vector = NotAsked
    BY <1>1 DEF Answered, SearchRecord
  <1> HIDE DEF t
  <1>5. GoesOn(s, t, U, T, A)
    BY <1>1, <1>2, <1>3, <1>4
    DEF GoesOn, SearchInv, RecallsMatchMode, TopKMatchesStage, RanksWhatItRecalled
  <1> QED BY <1>1, <1>5, PutKeeps DEF s, t

\* A stage of a question between its searches.
LEMMA QuestionKeeps ==
  ASSUME NEW U, NEW T, NEW A, NEW s, SearchInv(s, U, T, A), 0 \in U,
         NEW t \in SearchRecord(U, T, A), t.user = s.user, t.tags = {},
         t.bm25 = NotAsked, t.vector = NotAsked, t.at \notin {"none", "fused", "answered"},
         TopKMatchesStage(t)
  PROVE  GoesOn(s, t, U, T, A)
  <1>1. NotAsked.hits = <<>>
    BY DEF NotAsked
  <1> QED BY <1>1 DEF GoesOn, SearchInv, RecallsMatchMode, RanksWhatItRecalled

LEMMA NextSearchKeeps ==
  ASSUME NEW U, NEW T, NEW A, NEW r, Searching(r, U, T, A), NextSearch(r)
  PROVE  Kept(r, U, T, A)
  <1> DEFINE s == search[r]
             t == [NoSearch EXCEPT !.at = "tags", !.user = s.user, !.question = TRUE,
                                   !.asked = Head(s.plan), !.mode = Head(s.plan),
                                   !.topK = RequestedTopK(KnowledgeTopK),
                                   !.plan = Tail(s.plan), !.groups = s.groups]
  <1>1. /\ s \in SearchRecord(U, T, A) /\ SearchInv(s, U, T, A) /\ Put(r, t) /\ s.plan # <<>>
        /\ 0 \in U
    BY DEF NextSearch, Searching, SearchInv
  <1> HIDE DEF s
  <1>2. s.user \in U /\ s.plan \in Seq(Modes) /\ s.groups \in Seq(Lists(A))
    BY <1>1 DEF SearchRecord
  <1>3. Head(s.plan) \in Modes /\ Tail(s.plan) \in Seq(Modes)
    BY <1>1, <1>2
  <1>4. RequestedTopK(KnowledgeTopK) \in Nat \ {0}
    BY KnowledgeTopKIsPositive, RequestedTopKIsPositive
  <1>5. NoSearch \in SearchRecord(U, T, A)
    BY <1>1, NoSearchIsRecord
  <1>6. t \in SearchRecord(U, T, A)
    BY <1>2, <1>3, <1>4, <1>5 DEF SearchRecord, Stages
  <1>7. /\ t.at = "tags" /\ t.user = s.user /\ t.tags = {} /\ t.bm25 = NotAsked
        /\ t.vector = NotAsked /\ t.topK = RequestedTopK(KnowledgeTopK)
    BY DEF NoSearch
  <1> HIDE DEF t
  <1>8. TopKMatchesStage(t)
    BY <1>4, <1>7 DEF TopKMatchesStage
  <1>9. GoesOn(s, t, U, T, A)
    BY <1>1, <1>6, <1>7, <1>8, QuestionKeeps
  <1> QED BY <1>1, <1>9, PutKeeps DEF s, t

LEMMA CollectKeeps ==
  ASSUME NEW U, NEW T, NEW A, NEW r, Searching(r, U, T, A), Collect(r)
  PROVE  Kept(r, U, T, A)
  <1> DEFINE s == search[r]
             groups == IF s.at = "failed" THEN s.groups ELSE Append(s.groups, s.answer)
             t == [NoSearch EXCEPT !.at = "next", !.user = s.user, !.question = TRUE,
                                   !.plan = s.plan, !.groups = groups]
  <1>1. /\ s \in SearchRecord(U, T, A) /\ SearchInv(s, U, T, A) /\ Put(r, t) /\ 0 \in U
    BY DEF Collect, Searching, SearchInv
  <1>2. groups \in Seq(Lists(A)) /\ s.user \in U /\ s.plan \in Seq(Modes)
    BY <1>1 DEF SearchRecord
  <1>3. NoSearch \in SearchRecord(U, T, A)
    BY <1>1, NoSearchIsRecord
  <1> HIDE DEF s, groups
  <1>4. t \in SearchRecord(U, T, A)
    BY <1>2, <1>3 DEF SearchRecord, Stages
  <1>5. /\ t.at = "next" /\ t.user = s.user /\ t.tags = {} /\ t.bm25 = NotAsked
        /\ t.vector = NotAsked
    BY DEF NoSearch
  <1> HIDE DEF t
  <1>6. TopKMatchesStage(t)
    BY <1>5 DEF TopKMatchesStage
  <1>7. GoesOn(s, t, U, T, A)
    BY <1>1, <1>4, <1>5, <1>6, QuestionKeeps
  <1> QED BY <1>1, <1>7, PutKeeps DEF s, t

LEMMA OwnMemoriesAreFinite ==
  ASSUME NEW s
  PROVE  OwnMemories(s) \in SUBSET Memories /\ IsFiniteSet(OwnMemories(s))
  <1>1. OwnMemories(s) \in SUBSET Memories
    BY DEF OwnMemories
  <1> QED BY <1>1, ItemsAreFinite, FS_Subset

LEMMA RecalledMemories ==
  ASSUME NEW A \in SUBSET Items, NEW s, OwnMemories(s) \subseteq A, NEW m \in RecallMemories(s)
  PROVE  m \in Lists(A)
  <1> DEFINE S == OwnMemories(s)
  <1>1. PICK text \in Rankings(S, 2 * LongTermTopK), vector \in Rankings(S, 2 * LongTermTopK) :
          m = Prefix(RRFFuseMemories(<<text, vector>>), LongTermTopK)
    BY SMTT(40) DEF RecallMemories
  <1>2. LongTermTopK \in Nat /\ 2 * LongTermTopK \in Nat
    BY RetrievalAssumption
  <1>3. IsFiniteSet(S) /\ S \in SUBSET Items /\ S \subseteq A
    BY OwnMemoriesAreFinite DEF Items
  <1> HIDE DEF S
  <1>4. text \in Lists(S) /\ vector \in Lists(S)
    BY <1>1, <1>2, <1>3, RankingIsList
  <1> DEFINE lists == <<text, vector>>
             f == RRFFuseMemories(lists)
  <1>5. lists \in Seq(Lists(S))
    BY <1>4
  <1> HIDE DEF lists
  <1>6. f \in Lists(S)
    BY <1>3, <1>5, FusionIsList
  <1>7. f \in Lists(A)
    BY <1>3, <1>6, WiderLists
  <1> HIDE DEF f
  <1>8. Prefix(f, LongTermTopK) \in Lists(A)
    BY <1>2, <1>7, PrefixIsList
  <1> QED BY <1>1, <1>8 DEF f, lists

\* The fusion of knowledge and memories: something, when either has something.
LEMMA FusedContext ==
  ASSUME NEW A \in SUBSET Items, NEW knowledge \in Lists(A), NEW memories \in Lists(A),
         NEW k \in Nat \ {0},
         NEW f, f = Prefix(RRFFuse(<<knowledge, memories>>), k)
  PROVE  /\ f \in Lists(A)
         /\ Elements(f) \subseteq Elements(knowledge) \cup Elements(memories)
         /\ Elements(knowledge) \cup Elements(memories) # {} => f # <<>>
  <1> DEFINE lists == <<knowledge, memories>>
             g == RRFFuse(lists)
             pool == Elements(knowledge) \cup Elements(memories)
  <1>1. lists \in Seq(Lists(A)) /\ Contents(lists) = pool
    BY ContentsOfTwo
  <1> HIDE DEF lists, pool
  <1>2. g \in Lists(A) /\ Elements(g) = pool
    BY <1>1, FusionIsList
  <1>3. f = Prefix(g, k)
    BY DEF lists
  <1> HIDE DEF g
  <1>4. f \in Lists(A) /\ Len(f) = Smaller(k, Len(g)) /\ Elements(f) \subseteq pool
    BY <1>2, <1>3, PrefixIsList
  <1>5. pool # {} => Len(g) > 0
    BY <1>2, ListFacts
  <1>6. pool # {} => Len(f) > 0
    BY <1>4, <1>5 DEF Smaller
  <1>7. pool # {} => f # <<>>
    BY <1>6
  <1> QED BY <1>4, <1>7 DEF pool

LEMMA FuseContextKeeps ==
  ASSUME NEW U, NEW T, NEW A, NEW r, Searching(r, U, T, A), FuseContext(r)
  PROVE  Kept(r, U, T, A)
  <1> DEFINE s == search[r]
             knowledge == Prefix(RRFFuse(s.groups), KnowledgeTopK)
             fused(memories) == Prefix(RRFFuse(<<knowledge, memories>>), 2 * ContextTopK)
             u(memories) == [NoSearch EXCEPT !.at = "context", !.user = s.user, !.question = TRUE,
                    !.fused = fused(memories),
                    !.pool = Elements(knowledge) \union Elements(memories)]
  <1>1. PICK memories \in RecallMemories(s) : Put(r, u(memories))
    BY DEF FuseContext
  <1> DEFINE f == fused(memories)
             pool == Elements(knowledge) \cup Elements(memories)
             t == u(memories)
  <1>2. /\ s \in SearchRecord(U, T, A) /\ SearchInv(s, U, T, A)
        /\ 0 \in U /\ A \in SUBSET Items /\ OwnMemories(s) \subseteq A
    BY DEF Searching, SearchInv
  <1> HIDE DEF s
  <1>3. s.groups \in Seq(Lists(A)) /\ s.user \in U
    BY <1>2 DEF SearchRecord
  <1>4. RRFFuse(s.groups) \in Lists(A)
    BY <1>2, <1>3, FusionIsList
  <1>5. knowledge \in Lists(A)
    BY <1>4, KnowledgeTopKIsPositive, PrefixIsList
  <1>6. memories \in Lists(A)
    BY <1>1, <1>2, RecalledMemories
  <1>7. 2 * ContextTopK \in Nat \ {0}
    BY RetrievalAssumption
  <1> HIDE DEF knowledge
  <1>8. f \in Lists(A) /\ Elements(f) \subseteq pool /\ (pool # {} => f # <<>>)
    BY <1>2, <1>5, <1>6, <1>7, FusedContext
  <1>9. pool \in SUBSET A
    BY <1>5, <1>6, ListFacts
  <1>10. NoSearch \in SearchRecord(U, T, A)
    BY <1>2, NoSearchIsRecord
  <1> HIDE DEF fused, pool
  <1>11. t = [NoSearch EXCEPT !.at = "context", !.user = s.user, !.question = TRUE,
                              !.fused = f, !.pool = pool]
    BY DEF pool
  <1> HIDE DEF u
  <1>12. t \in SearchRecord(U, T, A)
    BY <1>3, <1>8, <1>9, <1>10, <1>11, ZenonT(60) DEF SearchRecord, Stages
  <1>13. /\ t.at = "context" /\ t.user = s.user /\ t.tags = {} /\ t.bm25 = NotAsked
         /\ t.vector = NotAsked /\ t.topK = 0 /\ t.fused = f /\ t.pool = pool
    BY <1>11 DEF NoSearch
  <1> HIDE DEF t, f
  <1>14. TopKMatchesStage(t)
    BY <1>8, <1>13 DEF TopKMatchesStage
  <1>15. GoesOn(s, t, U, T, A)
    BY <1>2, <1>12, <1>13, <1>14, QuestionKeeps
  <1> QED BY <1>1, <1>15, PutKeeps DEF s, t

LEMMA RerankContextKeeps ==
  ASSUME NEW U, NEW T, NEW A, NEW r, Searching(r, U, T, A), RerankContext(r)
  PROVE  Kept(r, U, T, A)
  <1> DEFINE s == search[r]
             n == Len(s.fused)
             named == {Prefix(Named(s.fused, results), ContextTopK) : results \in RerankAnswers(n)}
             sorted == {p \in Rankings(Elements(s.fused), ContextTopK) :
                          Len(p) = Smaller(n, ContextTopK)}
  <1>1. PICK answer \in (named \ {<<>>}) \cup sorted \cup {s.fused} : Put(r, Answered(s, answer))
    BY DEF RerankContext
  <1>2. /\ s \in SearchRecord(U, T, A) /\ SearchInv(s, U, T, A) /\ s.at = "context"
        /\ TopKMatchesStage(s)
    BY DEF RerankContext, At, Searching, SearchInv
  <1>3. /\ s.fused \in Lists(A) /\ s.topK = 0 /\ Elements(s.fused) \subseteq s.pool
        /\ s.pool # {} => s.fused # <<>>
    BY <1>2 DEF SearchRecord, TopKMatchesStage
  <1>4. ContextTopK \in Nat \ {0} /\ n \in Nat
    BY <1>3, ListFacts, RetrievalAssumption
  <1> HIDE DEF s
  <1>5. AnswerFits(s, answer, A)
    <2>1. CASE answer = s.fused
      BY <1>3, <2>1 DEF AnswerFits
    <2>2. CASE answer \in named \ {<<>>}
      <3>1. PICK results \in RerankAnswers(n) : answer = Prefix(Named(s.fused, results), ContextTopK)
        BY <2>2
      <3>2. results \in Seq(Nat)
        BY <1>4, <3>1, RerankAnswersAreNumbers
      <3> DEFINE a == Named(s.fused, results)
      <3>3. /\ a \in Lists(A)
            /\ Elements(a) = {s.fused[i] : i \in Elements(results) \cap DOMAIN s.fused}
        BY <1>3, <3>2, NamedIsList
      <3>4. Elements(a) \subseteq Elements(s.fused)
        BY <3>3 DEF Elements
      <3> HIDE DEF a
      <3>5. answer = Prefix(a, ContextTopK)
        BY <3>1 DEF a
      <3>6. answer \in Lists(A) /\ Elements(answer) \subseteq Elements(a)
        BY <1>4, <3>3, <3>5, PrefixIsList
      <3>7. answer # <<>>
        BY <2>2
      <3> QED BY <1>3, <3>4, <3>6, <3>7 DEF AnswerFits
    <2>3. CASE answer \in sorted
      <3>1. IsFiniteSet(Elements(s.fused)) /\ Elements(s.fused) \subseteq A
        BY <1>3, ListIsFinite, ListFacts
      <3>2. answer \in Lists(Elements(s.fused)) /\ Len(answer) = Smaller(n, ContextTopK)
        BY <1>4, <2>3, <3>1, RankingIsList
      <3>3. answer \in Lists(A) /\ Elements(answer) \subseteq Elements(s.fused)
        BY <3>1, <3>2, WiderLists, ListFacts
      <3>4. s.fused # <<>> => n > 0
        BY <1>3, <1>4, ListFacts
      <3>5. s.fused # <<>> => Len(answer) > 0
        BY <1>4, <3>2, <3>4 DEF Smaller
      <3>6. s.fused # <<>> => answer # <<>>
        BY <3>5
      <3> QED BY <1>3, <3>3, <3>6 DEF AnswerFits
    <2> QED BY <1>1, <2>1, <2>2, <2>3
  <1>6. GoesOn(s, Answered(s, answer), U, T, A)
    BY <1>2, <1>5, AnsweredKeeps
  <1> QED BY <1>1, <1>6, PutKeeps DEF s

LEMMA SearchStepKeeps ==
  ASSUME NEW U, NEW T, NEW A, NEW r, Searching(r, U, T, A), SearchStep(r)
  PROVE  Kept(r, U, T, A)
  BY RecallKeeps, DegradeKeeps, SearchFailsKeeps, PhraseSearchKeeps, AnswerKeeps,
     NamesFailKeeps, NextSearchKeeps, CollectKeeps, FuseContextKeeps, RerankContextKeeps
  DEF SearchStep

StartsSearch(r, user) ==
  \E topK \in Nat, rerank \in BOOLEAN : StartSearch(r, user, "hybrid", topK, rerank)

\* The beginning of a search, and of a question.
LEMMA StartSearchInv ==
  ASSUME NEW U, NEW T, NEW A, 0 \in U, NEW r, r \in DOMAIN search,
         NEW user \in U, StartsSearch(r, user)
  PROVE  /\ search[r].at = "none"
         /\ search' = [search EXCEPT ![r] = search'[r]]
         /\ SearchInv(search'[r], U, T, A)
         /\ search'[r].at # "none" /\ search'[r].user = user /\ search'[r].tags = {}
  <1> PICK topK \in Nat, rerank \in BOOLEAN : StartSearch(r, user, "hybrid", topK, rerank)
    BY DEF StartsSearch
  <1> DEFINE t == [NoSearch EXCEPT !.at = "tags", !.user = user, !.asked = "hybrid",
                                   !.mode = "hybrid", !.topK = RequestedTopK(topK),
                                   !.rerank = rerank]
  <1>1. search' = [search EXCEPT ![r] = t] /\ search[r].at = "none"
    BY DEF StartSearch, Put, At
  <1>2. search'[r] = t
    BY <1>1
  <1>3. RequestedTopK(topK) \in Nat \ {0}
    BY RequestedTopKIsPositive
  <1>4. NoSearch \in SearchRecord(U, T, A)
    BY NoSearchIsRecord
  <1>5. t \in SearchRecord(U, T, A)
    BY <1>3, <1>4 DEF SearchRecord, Stages, Modes
  <1>6. /\ t.at = "tags" /\ t.user = user /\ t.tags = {} /\ t.bm25 = NotAsked
        /\ t.vector = NotAsked /\ t.topK = RequestedTopK(topK)
    BY DEF NoSearch
  <1> HIDE DEF t
  <1>7. TopKMatchesStage(t) /\ NotAsked.hits = <<>>
    BY <1>3, <1>6 DEF TopKMatchesStage, NotAsked
  <1>8. SearchInv(t, U, T, A)
    BY <1>5, <1>6, <1>7 DEF SearchInv, RecallsMatchMode, RanksWhatItRecalled
  <1> QED BY <1>1, <1>2, <1>6, <1>8

LEMMA AskQuestionInv ==
  ASSUME NEW U, NEW T, NEW A, 0 \in U, NEW r, r \in DOMAIN search, NEW user \in U,
         AskQuestion(r, user)
  PROVE  /\ search[r].at = "none"
         /\ search' = [search EXCEPT ![r] = search'[r]]
         /\ SearchInv(search'[r], U, T, A)
         /\ search'[r].at # "none" /\ search'[r].user = user /\ search'[r].tags = {}
  <1>1. PICK t : /\ \/ \E plan \in Plans :
                         t = [NoSearch EXCEPT !.at = "next", !.user = user,
                                              !.question = TRUE, !.plan = plan]
                    \/ t = [NoSearch EXCEPT !.at = "answered", !.user = user, !.question = TRUE]
                 /\ Put(r, t)
    BY DEF AskQuestion
  <1>2. search' = [search EXCEPT ![r] = t] /\ search[r].at = "none"
    BY <1>1 DEF AskQuestion, Put, At
  <1>3. search'[r] = t
    BY <1>2
  <1>4. NoSearch \in SearchRecord(U, T, A)
    BY NoSearchIsRecord
  <1>5. \A plan \in Plans : plan \in Seq(Modes)
    <2>1. "bm25" \in Modes /\ "vector" \in Modes
      BY DEF Modes
    <2>2. /\ <<"bm25">> \in Seq(Modes) /\ <<"vector">> \in Seq(Modes)
          /\ <<"bm25", "vector">> \in Seq(Modes)
      BY <2>1
    <2> QED BY <2>2, Zenon DEF Plans
  <1>6. t \in SearchRecord(U, T, A)
    <2>1. CASE t = [NoSearch EXCEPT !.at = "answered", !.user = user, !.question = TRUE]
      BY <1>4, <2>1 DEF SearchRecord, Stages
    <2>2. ASSUME NEW plan \in Plans,
                 t = [NoSearch EXCEPT !.at = "next", !.user = user,
                                      !.question = TRUE, !.plan = plan]
          PROVE  t \in SearchRecord(U, T, A)
      <3>1. plan \in Seq(Modes)
        BY <1>5
      <3> QED BY <1>4, <2>2, <3>1 DEF SearchRecord, Stages
    <2> QED BY <1>1, <2>1, <2>2
  <1>7. /\ t.at \in {"next", "answered"} /\ t.user = user /\ t.tags = {} /\ t.bm25 = NotAsked
        /\ t.vector = NotAsked /\ t.topK = 0 /\ t.pool = {} /\ t.answer = <<>>
    BY <1>1, ZenonT(60) DEF NoSearch
  <1>8. RanksWhatItRecalled(t)
    <2>1. <<>> \in Lists(A) /\ Elements(<<>>) = {}
      BY NoList
    <2>2. Len(<<>>) = Cardinality(Elements(<<>>))
      BY <2>1, ListIsFinite
    <2> QED BY <1>7, <2>1, <2>2 DEF RanksWhatItRecalled
  <1>9. TopKMatchesStage(t) /\ NotAsked.hits = <<>>
    BY <1>7 DEF TopKMatchesStage, NotAsked
  <1>10. SearchInv(t, U, T, A)
    BY <1>6, <1>7, <1>8, <1>9 DEF SearchInv, RecallsMatchMode
  <1> QED BY <1>2, <1>3, <1>7, <1>10
=============================================================================
