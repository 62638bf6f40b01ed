--------------------------- MODULE EnumerationLemmas ---------------------------
(***************************************************************************)
(* Facts about Enumeration: what the ascending order of a set lists, and   *)
(* which elements a subsequence has.                                       *)
(***************************************************************************)
EXTENDS Enumeration, FiniteSetTheorems, SequenceTheorems, TLAPS

-----------------------------------------------------------------------------
(***************************************************************************)
(* Least and greatest elements, which make the CHOOSEs meaningful.         *)
(***************************************************************************)
\* A nonempty set of naturals has a least element.
LEMMA LeastElement ==
  ASSUME NEW S \in SUBSET Nat, S # {}
  PROVE  \E m \in S : \A k \in S : m <= k
<1>1. \E m \in S : \A k \in S : ~ (<<k, m>> \in OpToRel(<, Nat))
  BY NatLessThanWellFounded, WFMin
<1>2. PICK m \in S : \A k \in S : ~ (<<k, m>> \in OpToRel(<, Nat))
  BY <1>1
<1>3. ASSUME NEW k \in S PROVE m <= k
  <2>1. k \in Nat /\ m \in Nat
    OBVIOUS
  <2>2. ~(k < m)
    BY <1>2, <2>1 DEF OpToRel
  <2> QED BY <2>1, <2>2
<1> QED BY <1>3

\* A nonempty set of naturals with an upper bound has a greatest element.
LEMMA GreatestElement ==
  ASSUME NEW n \in Nat, NEW S \in SUBSET (0..n), S # {}
  PROVE  \E m \in S : \A k \in S : k <= m
<1> DEFINE T == {n - k : k \in S}
<1>1. T \in SUBSET Nat /\ T # {}
  <2>1. ASSUME NEW k \in S PROVE n - k \in Nat
    <3>1. k \in 0..n
      OBVIOUS
    <3> QED BY <3>1
  <2>2. T \in SUBSET Nat
    BY <2>1
  <2>3. PICK k \in S : TRUE
    OBVIOUS
  <2>4. n - k \in T
    OBVIOUS
  <2> QED BY <2>2, <2>4
<1>2. PICK d \in T : \A e \in T : d <= e
  BY <1>1, LeastElement
<1>3. PICK m \in S : d = n - m
  OBVIOUS
<1>4. ASSUME NEW k \in S PROVE k <= m
  <2>1. n - k \in T
    OBVIOUS
  <2>2. d <= n - k
    BY <1>2, <2>1
  <2> QED BY <1>3, <2>2
<1> QED BY <1>4

-----------------------------------------------------------------------------
(***************************************************************************)
(* Ascending enumerates its set.                                           *)
(***************************************************************************)
\* The rank of a member is between one and the size of the set.
LEMMA RankRange ==
  ASSUME NEW S \in SUBSET Nat, IsFiniteSet(S), NEW k \in S
  PROVE  Rank(S, k) \in 1..Cardinality(S)
<1> DEFINE T == {m \in S : m <= k}
<1>1. T \in SUBSET S /\ k \in T
  OBVIOUS
<1>2. IsFiniteSet(T) /\ Cardinality(T) <= Cardinality(S)
  BY <1>1, FS_Subset
<1>3. Cardinality(T) \in Nat /\ Cardinality(S) \in Nat
  BY <1>2, FS_CardinalityType
<1>4. Cardinality(T) # 0
  BY <1>1, <1>2, FS_EmptySet
<1> QED BY <1>2, <1>3, <1>4 DEF Rank

\* Different members have different ranks.
LEMMA RankInjective ==
  ASSUME NEW S \in SUBSET Nat, IsFiniteSet(S), NEW j \in S, NEW k \in S,
         Rank(S, j) = Rank(S, k)
  PROVE  j = k
<1>1. ASSUME NEW a \in S, NEW b \in S, a < b, Rank(S, a) = Rank(S, b) PROVE FALSE
  <2> DEFINE A == {m \in S : m <= a}
             B == {m \in S : m <= b}
  <2>0. a \in Nat /\ b \in Nat /\ \A m \in S : m \in Nat
    OBVIOUS
  <2>1. A \in SUBSET B
    <3>1. ASSUME NEW m \in S, m <= a PROVE m <= b
      BY <1>1, <2>0, <3>1
    <3> QED BY <3>1
  <2>2. IsFiniteSet(B)
    <3>1. B \in SUBSET S
      OBVIOUS
    <3> QED BY <3>1, FS_Subset
  <2>3. A = B
    BY <1>1, <2>1, <2>2, FS_Subset DEF Rank
  <2>4. b \in B /\ b \notin A
    BY <1>1
  <2> QED BY <2>3, <2>4
<1>2. j \in Nat /\ k \in Nat
  OBVIOUS
<1> QED BY <1>1, <1>2

\* Every rank belongs to a member.
LEMMA RankSurjective ==
  ASSUME NEW S \in SUBSET Nat, IsFiniteSet(S), NEW r \in 1..Cardinality(S)
  PROVE  \E k \in S : Rank(S, k) = r
<1> DEFINE f == [k \in S |-> Rank(S, k)]
           R == 1..Cardinality(S)
<1>1. f \in [S -> R]
  BY RankRange
<1>2. f \in Injection(S, R)
  BY <1>1, RankInjective DEF Injection, IsInjective
<1>3. Cardinality(S) \in Nat
  BY FS_CardinalityType
<1>4. IsFiniteSet(R) /\ Cardinality(R) = Cardinality(S)
  BY <1>3, FS_Interval
<1>5. f \in Surjection(S, R)
  BY <1>2, <1>4, FS_Injection
<1> QED BY <1>5 DEF Surjection

\* Ascending lists every member of its set, and nothing else.
LEMMA AscendingElements ==
  ASSUME NEW S \in SUBSET Nat, IsFiniteSet(S)
  PROVE  /\ Ascending(S) \in Seq(S)
         /\ Len(Ascending(S)) = Cardinality(S)
         /\ Elements(Ascending(S)) = S
<1> DEFINE n == Cardinality(S)
           a == Ascending(S)
<1>1. n \in Nat
  BY FS_CardinalityType
<1>2. ASSUME NEW j \in 1..n PROVE a[j] \in S /\ Rank(S, a[j]) = j
  <2>1. \E k \in S : Rank(S, k) = j
    BY RankSurjective
  <2>2. a[j] = CHOOSE k \in S : Rank(S, k) = j
    BY DEF Ascending
  <2> QED BY <2>1, <2>2
<1>3. a \in [1..n -> S]
  BY <1>2 DEF Ascending
<1>4. a \in Seq(S) /\ Len(a) = n
  BY <1>1, <1>3
<1>5. ASSUME NEW k \in S PROVE k \in Elements(a)
  <2>1. Rank(S, k) \in 1..n
    BY RankRange
  <2>2. a[Rank(S, k)] = k
    <3>1. PICK m \in S : m = a[Rank(S, k)] /\ Rank(S, m) = Rank(S, k)
      BY <1>2, <2>1
    <3>2. m = k
      BY <3>1, RankInjective
    <3> QED BY <3>1, <3>2
  <2> QED BY <1>3, <2>1, <2>2 DEF Elements
<1>6. Elements(a) \subseteq S
  BY <1>3 DEF Elements
<1> QED BY <1>4, <1>5, <1>6

\* A smaller member has a smaller rank.
LEMMA RankMonotone ==
  ASSUME NEW S \in SUBSET Nat, IsFiniteSet(S), NEW a \in S, NEW b \in S, a < b
  PROVE  Rank(S, a) < Rank(S, b)
<1> DEFINE A == {m \in S : m <= a}
           B == {m \in S : m <= b}
<1>1. a \in Nat /\ b \in Nat /\ \A m \in S : m \in Nat
  OBVIOUS
<1>2. A \in SUBSET B
  <2>1. ASSUME NEW m \in S, m <= a PROVE m <= b
    BY <1>1, <2>1
  <2> QED BY <2>1
<1>3. IsFiniteSet(B)
  <2>1. B \in SUBSET S
    OBVIOUS
  <2> QED BY <2>1, FS_Subset
<1>4. Rank(S, a) <= Rank(S, b)
  BY <1>2, <1>3, FS_Subset DEF Rank
<1>5. Rank(S, a) # Rank(S, b)
  BY <1>1, RankInjective
<1>6. Rank(S, a) \in Nat /\ Rank(S, b) \in Nat
  <2>1. Cardinality(S) \in Nat
    BY FS_CardinalityType
  <2> QED BY <2>1, RankRange
<1> QED BY <1>4, <1>5, <1>6

\* Ascending lists them by size.
LEMMA AscendingOrder ==
  ASSUME NEW S \in SUBSET Nat, IsFiniteSet(S),
         NEW j \in 1..Cardinality(S), NEW k \in 1..Cardinality(S)
  PROVE  Ascending(S)[j] < Ascending(S)[k] <=> j < k
<1> DEFINE n == Cardinality(S)
           a == Ascending(S)[j]
           b == Ascending(S)[k]
<1>1. ASSUME NEW i \in 1..n PROVE Ascending(S)[i] \in S /\ Rank(S, Ascending(S)[i]) = i
  <2>1. \E m \in S : Rank(S, m) = i
    BY RankSurjective
  <2>2. Ascending(S)[i] = CHOOSE m \in S : Rank(S, m) = i
    BY DEF Ascending
  <2> QED BY <2>1, <2>2
<1>2. a \in S /\ b \in S /\ Rank(S, a) = j /\ Rank(S, b) = k
  BY <1>1
<1>3. a \in Nat /\ b \in Nat /\ j \in Nat /\ k \in Nat
  <2>1. n \in Nat
    BY FS_CardinalityType
  <2>2. j \in Nat /\ k \in Nat
    BY <2>1
  <2> QED BY <1>2, <2>2
<1> HIDE DEF a, b
<1>4. CASE a < b
  <2>1. j < k
    BY <1>2, <1>4, RankMonotone
  <2> QED BY <1>4, <2>1 DEF a, b
<1>5. CASE a = b
  <2>1. ~ (a < b) /\ ~ (j < k)
    BY <1>2, <1>3, <1>5
  <2> QED BY <2>1 DEF a, b
<1>6. CASE b < a
  <2>1. k < j
    BY <1>2, <1>6, RankMonotone
  <2>2. ~ (a < b) /\ ~ (j < k)
    BY <1>3, <1>6, <2>1
  <2> QED BY <2>2 DEF a, b
<1> QED BY <1>3, <1>4, <1>5, <1>6

\* Enumerating no slots gives the empty sequence.
LEMMA AscendingEmpty == Ascending({}) = <<>>
<1>1. Cardinality({}) = 0
  BY FS_EmptySet
<1>2. 1..0 = {}
  OBVIOUS
<1> QED BY <1>1, <1>2 DEF Ascending

\* A subsequence has exactly the elements at its positions.
LEMMA SubsequenceElements ==
  ASSUME NEW T, NEW s \in Seq(T), NEW K \in SUBSET (DOMAIN s)
  PROVE  /\ Subsequence(s, K) \in Seq({s[k] : k \in K})
         /\ Elements(Subsequence(s, K)) = {s[k] : k \in K}
<1> DEFINE kept == Ascending(K)
           w == Subsequence(s, K)
           V == {s[k] : k \in K}
<1>1. DOMAIN s = 1..Len(s) /\ Len(s) \in Nat
  OBVIOUS
<1>2. K \in SUBSET (1..Len(s)) /\ K \in SUBSET Nat
  BY <1>1
<1>3. IsFiniteSet(K)
  <2>1. IsFiniteSet(1..Len(s))
    BY <1>1, FS_Interval
  <2> QED BY <1>2, <2>1, FS_Subset
<1>4. kept \in Seq(K) /\ Len(kept) = Cardinality(K) /\ Elements(kept) = K
  BY <1>2, <1>3, AscendingElements
<1>5. DOMAIN kept = 1..Len(kept) /\ Len(kept) \in Nat /\ kept \in [1..Len(kept) -> K]
  <2> HIDE DEF kept
  <2> QED BY <1>4
<1>6. w = [j \in 1..Len(kept) |-> s[kept[j]]]
  BY <1>5 DEF Subsequence
<1>7. w \in [1..Len(kept) -> V]
  BY <1>5, <1>6
<1>8. w \in Seq(V)
  <2> HIDE DEF w, kept, V
  <2> QED BY <1>5, <1>7, SeqDef
<1>9. Elements(w) = {s[kept[j]] : j \in 1..Len(kept)}
  BY <1>6 DEF Elements
<1>10. {s[kept[j]] : j \in 1..Len(kept)} = V
  BY <1>4, <1>5 DEF Elements
<1> QED BY <1>8, <1>9, <1>10

-----------------------------------------------------------------------------
\* A power of two is positive, and the next one is twice as large: a set with
\* one more element has twice as many subsets.
LEMMA TwoPower ==
  ASSUME NEW n \in Nat
  PROVE  2 ^ n \in Nat \ {0} /\ 2 ^ (n + 1) = 2 * 2 ^ n
<1> DEFINE A == 1..n
           x == n + 1
           Ax == {B \cup {x} : B \in SUBSET A}
<1>1. IsFiniteSet(A) /\ Cardinality(A) = n
  BY FS_Interval
<1>2. IsFiniteSet(SUBSET A) /\ Cardinality(SUBSET A) = 2 ^ n
  BY <1>1, FS_SUBSET
<1>3. x \notin A
  OBVIOUS
<1>4. IsFiniteSet(A \cup {x}) /\ Cardinality(A \cup {x}) = n + 1
  <2> HIDE DEF A, x
  <2> QED BY <1>1, <1>3, FS_AddElement
<1>5. Cardinality(SUBSET (A \cup {x})) = 2 ^ (n + 1)
  BY <1>4, FS_SUBSET
<1>6. SUBSET (A \cup {x}) = (SUBSET A) \cup Ax
  <2>1. ASSUME NEW C \in SUBSET (A \cup {x}) PROVE C \in (SUBSET A) \cup Ax
    <3>1. CASE x \notin C
      BY <3>1
    <3>2. CASE x \in C
      <4>1. C \ {x} \in SUBSET A /\ C = (C \ {x}) \cup {x}
        BY <3>2
      <4> QED BY <4>1
    <3> QED BY <3>1, <3>2
  <2>2. ASSUME NEW B \in SUBSET A PROVE B \cup {x} \in SUBSET (A \cup {x})
    OBVIOUS
  <2> HIDE DEF A, x
  <2> QED BY <2>1, <2>2
<1>7. ExistsBijection(SUBSET A, Ax)
  <2> DEFINE f == [B \in SUBSET A |-> B \cup {x}]
  <2> HIDE DEF A, x
  <2>1. f \in [SUBSET A -> Ax]
    OBVIOUS
  <2>2. ASSUME NEW B \in SUBSET A, NEW C \in SUBSET A, f[B] = f[C] PROVE B = C
    BY <2>2, <1>3
  <2>3. f \in Bijection(SUBSET A, Ax)
    BY <2>1, <2>2 DEF Bijection, Injection, Surjection, IsInjective
  <2> QED BY <2>3 DEF ExistsBijection
<1>8. IsFiniteSet(Ax) /\ Cardinality(Ax) = 2 ^ n
  BY <1>2, <1>7, FS_Bijection
<1>9. (SUBSET A) \cap Ax = {}
  BY <1>3
<1>10. 2 ^ n \in Nat
  BY <1>2, FS_CardinalityType
<1>11. Cardinality(SUBSET (A \cup {x})) = 2 ^ n + 2 ^ n
  <2>1. Cardinality((SUBSET A) \cup Ax) =
          Cardinality(SUBSET A) + Cardinality(Ax) - Cardinality((SUBSET A) \cap Ax)
    BY <1>2, <1>8, FS_Union
  <2>2. Cardinality((SUBSET A) \cap Ax) = 0
    BY <1>9, FS_EmptySet
  <2> HIDE DEF A, Ax, x
  <2>3. Cardinality(SUBSET (A \cup {x})) = Cardinality((SUBSET A) \cup Ax)
    BY <1>6
  <2>4. Cardinality(SUBSET A) = 2 ^ n /\ Cardinality(Ax) = 2 ^ n
    BY <1>2, <1>8
  <2> QED BY <1>10, <2>1, <2>2, <2>3, <2>4
<1>12. 2 ^ n # 0
  <2>1. {} \in SUBSET A
    OBVIOUS
  <2> HIDE DEF A
  <2> QED BY <1>2, <2>1, FS_EmptySet
<1> QED BY <1>5, <1>10, <1>11, <1>12
=============================================================================
