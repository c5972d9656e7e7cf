------------------------- MODULE LedAssignment_proofs -------------------------
(***************************************************************************)
(* Proofs about LedAssignment, for all patterns that can be told apart,    *)
(* any number of beacons and any scenes: matching is complete and takes    *)
(* the closest first, blobs and LEDs correspond, and what identifies an    *)
(* LED is a whole pattern of its own source.                               *)
(***************************************************************************)
EXTENDS LedAssignment, FiniteSetTheorems, WellFoundedInduction, SequenceTheorems, TLAPS

-----------------------------------------------------------------------------
(***************************************************************************)
(* Extremes and enumerations of finite sets                                *)
(***************************************************************************)

\* The least number of an interval that is in a set.
LEMMA LeastInInterval ==
  ASSUME NEW a \in Int, NEW b \in Int, NEW T \in SUBSET (a..b), T # {}
  PROVE  \E x \in T : \A y \in T : x <= y
<1> DEFINE R == OpToRel(<, Nat)
           U == {n \in Nat : a + n \in T}
<1>1. IsWellFoundedOn(R, Nat)
  BY NatLessThanWellFounded
<1>r. \A m, n \in Nat : m < n => <<m, n>> \in R
  BY DEF OpToRel
<1> HIDE DEF R
<1>2. PICK t \in T : TRUE
  OBVIOUS
<1>3. t - a \in U
  BY <1>2
<1>4. U \subseteq Nat /\ U # {}
  BY <1>3
<1> HIDE DEF U
<1>5. PICK n \in U : \A m \in U : ~ (<<m, n>> \in R)
  BY <1>1, <1>4, WFMin
<1>6. \A m \in U : n <= m
  <2>1. \A m \in U : m \in Nat /\ n \in Nat /\ ~ (m < n)
    BY <1>r, <1>4, <1>5
  <2> QED BY <2>1
<1>7. a + n \in T /\ n \in Nat
  BY <1>5 DEF U
<1>8. ASSUME NEW y \in T PROVE a + n <= y
  <2>1. y \in Int /\ y - a \in U
    BY DEF U
  <2>2. n <= y - a
    BY <1>6, <2>1
  <2> QED BY <1>7, <2>1, <2>2
<1> QED BY <1>7, <1>8

\* Min and Max are what they are called on a nonempty set of bounded integers.
LEMMA MinIsLeast ==
  ASSUME NEW a \in Int, NEW b \in Int, NEW T \in SUBSET (a..b), T # {}
  PROVE  Min(T) \in T /\ \A y \in T : Min(T) <= y
BY LeastInInterval DEF Min

LEMMA MaxIsGreatest ==
  ASSUME NEW a \in Int, NEW b \in Int, NEW T \in SUBSET (a..b), T # {}
  PROVE  Max(T) \in T /\ \A y \in T : y <= Max(T)
<1> DEFINE U == {n \in 0..(b - a) : b - n \in T}
<1>1. \A t \in T : b - t \in U
  OBVIOUS
<1>2. U \in SUBSET (0..(b - a)) /\ U # {}
  BY <1>1
<1>3. 0 \in Int /\ b - a \in Int
  OBVIOUS
<1>4. PICK n \in U : \A m \in U : n <= m
  <2> HIDE DEF U
  <2> QED BY <1>2, <1>3, LeastInInterval
<1>5. b - n \in T /\ \A t \in T : t <= b - n
  BY <1>1, <1>4
<1>6. \E x \in T : \A y \in T : x >= y
  BY <1>5
<1> QED BY <1>6 DEF Max

LEMMA MinOfTwo ==
  ASSUME NEW a \in Int, NEW b \in Int
  PROVE  Min({a, b}) = IF a <= b THEN a ELSE b
BY DEF Min

LEMMA MaxOfTwo ==
  ASSUME NEW a \in Int, NEW b \in Int
  PROVE  Max({a, b}) = IF a <= b THEN b ELSE a
BY DEF Max

\* SetToSeq puts each element of a finite set at one place.
LEMMA SetToSeqEnumerates ==
  ASSUME NEW S, IsFiniteSet(S)
  PROVE  /\ Cardinality(S) \in Nat
         /\ SetToSeq(S) \in [1..Cardinality(S) -> S]
         /\ \A i, j \in 1..Cardinality(S) : SetToSeq(S)[i] = SetToSeq(S)[j] => i = j
<1>1. Cardinality(S) \in Nat /\ ExistsBijection(1..Cardinality(S), S)
  BY FS_CardinalityType
<1>2. \E f \in [1..Cardinality(S) -> S] : IsInjective(f)
  BY <1>1 DEF ExistsBijection, Bijection, Injection
<1>3. SetToSeq(S) \in [1..Cardinality(S) -> S] /\ IsInjective(SetToSeq(S))
  BY <1>2 DEF SetToSeq
<1> QED BY <1>1, <1>3 DEF IsInjective

LEMMA CountTo ==
  ASSUME NEW n \in Nat
  PROVE  IsFiniteSet(1..n) /\ Cardinality(1..n) = n
<1>1. 1 \in Int /\ n \in Int /\ (1 > n => n = 0) /\ (~ (1 > n) => n - 1 + 1 = n)
  OBVIOUS
<1> QED BY <1>1, FS_Interval

\* The number of elements below an element is its place.
LEMMA RankEnumerates ==
  ASSUME NEW S \in SUBSET Nat, IsFiniteSet(S)
  PROVE  \E order \in [1..Cardinality(S) -> S] :
           /\ \A i, j \in 1..Cardinality(S) : i < j => order[i] < order[j]
           /\ \A x \in S : \E i \in 1..Cardinality(S) : order[i] = x
<1> DEFINE n == Cardinality(S)
           below(x) == {y \in S : y < x}
           rank == [x \in S |-> Cardinality(below(x)) + 1]
<1>0. \A x \in S : x \in Nat
  OBVIOUS
<1>1. n \in Nat
  BY FS_CardinalityType
<1>2. ASSUME NEW x \in S
      PROVE  /\ IsFiniteSet(below(x)) /\ Cardinality(below(x)) \in Nat
             /\ Cardinality(below(x)) < n
  <2>1. below(x) \in SUBSET S /\ below(x) # S
    OBVIOUS
  <2> HIDE DEF below
  <2>2. IsFiniteSet(below(x)) /\ Cardinality(below(x)) <= n /\ Cardinality(below(x)) # n
    BY <2>1, FS_Subset
  <2>3. Cardinality(below(x)) \in Nat
    BY <2>2, FS_CardinalityType
  <2> QED BY <1>1, <2>2, <2>3
<1>3. ASSUME NEW x \in S, NEW y \in S, x < y
      PROVE  Cardinality(below(x)) < Cardinality(below(y))
  <2>0. x \in Nat /\ y \in Nat /\ (\A z \in S : z < x => z < y) /\ ~ (x < x)
    BY <1>0, <1>3
  <2>1. below(x) \in SUBSET below(y) /\ below(x) # below(y)
    BY <2>0, <1>3
  <2>2. IsFiniteSet(below(y)) /\ Cardinality(below(x)) \in Nat /\ Cardinality(below(y)) \in Nat
    BY <1>2
  <2> HIDE DEF below
  <2>3. Cardinality(below(x)) <= Cardinality(below(y)) /\ Cardinality(below(x)) # Cardinality(below(y))
    BY <2>1, <2>2, FS_Subset
  <2> QED BY <2>2, <2>3
<1> HIDE DEF below
<1>4. rank \in [S -> 1..n]
  BY <1>1, <1>2
<1>5. \A x, y \in S : x < y => rank[x] < rank[y]
  BY <1>2, <1>3
<1> HIDE DEF rank, n
<1>6. rank \in Injection(S, 1..n)
  <2>1. ASSUME NEW x \in S, NEW y \in S, rank[x] = rank[y] PROVE x = y
    <3>1. x \in Nat /\ y \in Nat /\ rank[x] \in Nat /\ rank[y] \in Nat
      BY <1>1, <1>4
    <3> QED BY <1>5, <2>1, <3>1
  <2> QED BY <1>4, <2>1 DEF Injection, IsInjective
<1>7. IsFiniteSet(1..n) /\ Cardinality(1..n) = n
  BY <1>1, FS_Interval
<1>8. rank \in Surjection(S, 1..n)
  BY <1>6, <1>7, FS_Injection DEF n
<1>9. \A i \in 1..n : \E x \in S : rank[x] = i
  BY <1>8 DEF Surjection
<1> DEFINE order == [i \in 1..n |-> CHOOSE x \in S : rank[x] = i]
<1>10. \A i \in 1..n : order[i] \in S /\ rank[order[i]] = i
  BY <1>9
<1>11. order \in [1..n -> S]
  BY <1>10
<1> HIDE DEF order
<1>12. ASSUME NEW i \in 1..n, NEW j \in 1..n, i < j PROVE order[i] < order[j]
  <2>1. order[i] \in S /\ order[j] \in S /\ rank[order[i]] = i /\ rank[order[j]] = j
    BY <1>10
  <2>2. order[i] \in Nat /\ order[j] \in Nat
    BY <1>0, <2>1
  <2>3. ~ (order[j] < order[i]) /\ order[j] # order[i]
    <3>1. i \in Nat /\ j \in Nat /\ ~ (j < i) /\ i # j
      BY <1>1, <1>12
    <3> QED BY <1>5, <2>1, <3>1
  <2> QED BY <2>2, <2>3
<1>13. ASSUME NEW x \in S PROVE \E i \in 1..n : order[i] = x
  <2>1. rank[x] \in 1..n
    BY <1>4
  <2>2. order[rank[x]] \in S /\ rank[order[rank[x]]] = rank[x]
    BY <1>10, <2>1
  <2> QED BY <1>6, <2>1, <2>2 DEF Injection, IsInjective
<1> QED BY <1>11, <1>12, <1>13 DEF n

\* indices enumerates a set of numbers.
LEMMA IndicesEnumerate ==
  ASSUME NEW S \in SUBSET Nat, IsFiniteSet(S)
  PROVE  /\ Cardinality(S) \in Nat
         /\ indices(S) \in [1..Cardinality(S) -> S]
         /\ \A i, j \in 1..Cardinality(S) : indices(S)[i] = indices(S)[j] => i = j
         /\ \A x \in S : \E i \in 1..Cardinality(S) : indices(S)[i] = x
<1> DEFINE n == Cardinality(S)
           increasing(order) == \A i, j \in 1..n : i < j => order[i] < order[j]
<1>1. n \in Nat
  BY FS_CardinalityType
<1>2. \E order \in [1..n -> S] : increasing(order)
  BY RankEnumerates
<1>3. indices(S) \in [1..n -> S] /\ increasing(indices(S))
  BY <1>2 DEF indices
<1>4. ASSUME NEW i \in 1..n, NEW j \in 1..n, indices(S)[i] = indices(S)[j] PROVE i = j
  <2>1. \A x \in S : x \in Nat
    OBVIOUS
  <2>2. indices(S)[i] \in S /\ i \in Nat /\ j \in Nat
    BY <1>1, <1>3
  <2>3. ~ (indices(S)[i] < indices(S)[j]) /\ ~ (indices(S)[j] < indices(S)[i])
    <3>1. indices(S)[i] \in Nat
      BY <2>1, <2>2
    <3>2. \A m \in Nat : ~ (m < m)
      OBVIOUS
    <3> QED BY <1>4, <3>1, <3>2
  <2>4. ~ (i < j) /\ ~ (j < i)
    BY <1>3, <2>3
  <2> QED BY <2>2, <2>4
<1>5. indices(S) \in Injection(1..n, S)
  BY <1>3, <1>4 DEF Injection, IsInjective
<1>6. IsFiniteSet(1..n) /\ Cardinality(1..n) = n
  BY <1>1, FS_Interval
<1>7. indices(S) \in Surjection(1..n, S)
  BY <1>5, <1>6, FS_Injection DEF n
<1>8. \A x \in S : \E i \in 1..n : indices(S)[i] = x
  BY <1>7 DEF Surjection
<1> QED BY <1>1, <1>3, <1>4, <1>8

-----------------------------------------------------------------------------
(***************************************************************************)
(* Led                                                                     *)
(***************************************************************************)

\* Every enabled pattern has the length d_length.
LEMMA PatternLength ==
  /\ d_length \in Nat \ {0}
  /\ DOMAIN Patterns = 1..Len(Patterns) /\ Len(Patterns) \in Nat
  /\ \A id \in enabledBeacons : Patterns[id] \in [1..d_length -> {0, 1}]
<1>1. PICK some \in DOMAIN Patterns :
        /\ Patterns[some] # <<>>
        /\ \A id \in DOMAIN Patterns : Len(Patterns[id]) \in {0, Len(Patterns[some])}
  BY PatternAssumption
<1>2. /\ Patterns \in Seq(Seq({0, 1}))
      /\ DOMAIN Patterns = 1..Len(Patterns) /\ Len(Patterns) \in Nat
      /\ \A id \in DOMAIN Patterns : Patterns[id] \in Seq({0, 1})
  BY PatternAssumption
<1> DEFINE L == Len(Patterns[some])
           T == {Len(Patterns[id]) : id \in DOMAIN Patterns}
<1>3. L \in Nat \ {0}
  BY <1>1, <1>2, EmptySeq
<1>4. T \in SUBSET (0..L) /\ T # {} /\ L \in T /\ T \subseteq {0, L}
  <2>1. L \in T
    OBVIOUS
  <2>2. T \subseteq {0, L}
    BY <1>1
  <2>3. 0 \in 0..L /\ L \in 0..L
    BY <1>3
  <2> HIDE DEF T, L
  <2> QED BY <2>1, <2>2, <2>3
<1>5. Max(T) \in T /\ L <= Max(T)
  <2> HIDE DEF T, L
  <2> QED BY <1>3, <1>4, MaxIsGreatest
<1>6. d_length = L
  <2>1. Max(T) = L
    <3> HIDE DEF T, L
    <3> DEFINE greatest == Max(T)
    <3>1. greatest \in {0, L} /\ L <= greatest
      BY <1>4, <1>5
    <3> HIDE DEF greatest
    <3>2. greatest = L
      BY <1>3, <3>1
    <3> QED BY <3>2 DEF greatest
  <2> QED BY <2>1 DEF d_length
<1>7. ASSUME NEW id \in enabledBeacons PROVE Patterns[id] \in [1..d_length -> {0, 1}]
  <2>1. Patterns[id] \in Seq({0, 1}) /\ Patterns[id] # <<>> /\ Len(Patterns[id]) \in {0, L}
    BY <1>1, <1>2 DEF enabledBeacons
  <2>2. Len(Patterns[id]) = L
    BY <2>1, EmptySeq
  <2> HIDE DEF L
  <2>3. Patterns[id] \in [1..Len(Patterns[id]) -> {0, 1}]
    BY <2>1, LenProperties
  <2> QED BY <1>6, <2>2, <2>3
<1> QED BY <1>2, <1>3, <1>6, <1>7

\* Brightnesses are an interval of natural numbers.
LEMMA BrightnessType ==
  Brightnesses = Dim..Bright /\ Dim \in Nat /\ Bright \in Nat /\ Dim <= Bright
BY SceneAssumption, PatternAssumption DEF Brightnesses

\* The last n entries of a list.
LEMMA Truncated ==
  ASSUME NEW S, NEW h \in Seq(S), NEW n \in Nat \ {0}
  PROVE  LET t == truncateBrightnessListTo(h, n) IN
         /\ t \in Seq(S)
         /\ Len(t) = IF Len(h) <= n THEN Len(h) ELSE n
         /\ DOMAIN t = 1..Len(t)
         /\ \A i \in 1..Len(t) :
              t[i] = h[i + (Len(h) - Len(t))] /\ i + (Len(h) - Len(t)) \in 1..Len(h)
<1> DEFINE first == IF Len(h) <= n THEN 1 ELSE Len(h) - n + 1
           t == SubSeq(h, first, Len(h))
<1>1. Len(h) \in Nat /\ \A i \in 1..Len(h) : h[i] \in S
  BY ElementOfSeq, LenProperties
<1>2. Max({1, Len(h) - n + 1}) = first
  BY <1>1, MaxOfTwo
<1>3. first \in Int /\ 1 <= first /\ \A i \in first..Len(h) : h[i] \in S
  BY <1>1
<1>4. /\ t \in Seq(S)
      /\ Len(t) = IF first <= Len(h) THEN Len(h) - first + 1 ELSE 0
      /\ \A i \in 1..(Len(h) - first + 1) : t[i] = h[first + i - 1]
  <2> HIDE DEF first
  <2> QED BY <1>1, <1>3, SubSeqProperties
<1>5. truncateBrightnessListTo(h, n) = t
  BY <1>2 DEF truncateBrightnessListTo
<1>6. Len(t) = (IF Len(h) <= n THEN Len(h) ELSE n) /\ Len(t) = Len(h) - first + 1
  <2>1. Len(t) = IF first <= Len(h) THEN Len(h) - first + 1 ELSE 0
    BY <1>4
  <2> HIDE DEF t
  <2>2. CASE Len(h) <= n
    <3>1. first = 1
      BY <2>2
    <3> HIDE DEF first
    <3> QED BY <1>1, <2>1, <2>2, <3>1
  <2>3. CASE ~ (Len(h) <= n)
    <3>1. first = Len(h) - n + 1 /\ n \in Nat /\ n # 0
      BY <2>3
    <3> HIDE DEF first
    <3> QED BY <1>1, <2>1, <2>3, <3>1
  <2> QED BY <2>2, <2>3
<1>7. DOMAIN t = 1..Len(t)
  BY <1>4, LenProperties
<1>8. ASSUME NEW i \in 1..Len(t)
      PROVE  t[i] = h[i + (Len(h) - Len(t))] /\ i + (Len(h) - Len(t)) \in 1..Len(h)
  <2>1. i \in Nat /\ 1 <= i /\ i <= Len(t) /\ first + i - 1 = i + (Len(h) - Len(t))
    <3> HIDE DEF t, first
    <3>1. Len(t) = Len(h) - first + 1
      BY <1>6
    <3> QED BY <1>1, <1>3, <3>1
  <2>2. t[i] = h[first + i - 1]
    <3> HIDE DEF t, first
    <3>1. Len(t) = Len(h) - first + 1
      BY <1>6
    <3>2. i \in 1..(Len(h) - first + 1)
      BY <3>1
    <3> QED BY <1>4, <3>2
  <2>3. i + (Len(h) - Len(t)) \in 1..Len(h)
    <3> HIDE DEF t, first
    <3>1. Len(t) = Len(h) - first + 1
      BY <1>6
    <3> QED BY <1>1, <1>3, <2>1, <3>1
  <2> QED BY <2>1, <2>2, <2>3
<1> HIDE DEF t
<1> QED BY <1>4, <1>5, <1>6, <1>7, <1>8

\* A list with one more measurement, cut to the length of a pattern.
LEMMA HistoryGrows ==
  ASSUME NEW h \in Seq(Brightnesses), Len(h) <= d_length, NEW b \in Brightnesses
  PROVE  LET t == truncateBrightnessListTo(Append(h, b), d_length) IN
         /\ t \in Seq(Brightnesses) /\ DOMAIN t = 1..Len(t)
         /\ Len(t) = IF Len(h) < d_length THEN Len(h) + 1 ELSE d_length
         /\ t[Len(t)] = b
         /\ \A i \in 1..Len(t) : i # Len(t) =>
              /\ i + (Len(h) + 1 - Len(t)) \in DOMAIN h
              /\ t[i] = h[i + (Len(h) + 1 - Len(t))]
<1> DEFINE a == Append(h, b)
           t == truncateBrightnessListTo(a, d_length)
<1>1. Len(h) \in Nat /\ DOMAIN h = 1..Len(h) /\ d_length \in Nat \ {0}
  BY PatternLength, LenProperties
<1>2. /\ a \in Seq(Brightnesses) /\ Len(a) = Len(h) + 1
      /\ \A i \in 1..Len(h) : a[i] = h[i]
      /\ a[Len(h) + 1] = b
  BY AppendProperties
<1> HIDE DEF a
<1>3. /\ t \in Seq(Brightnesses)
      /\ Len(t) = IF Len(a) <= d_length THEN Len(a) ELSE d_length
      /\ DOMAIN t = 1..Len(t)
      /\ \A i \in 1..Len(t) :
           t[i] = a[i + (Len(a) - Len(t))] /\ i + (Len(a) - Len(t)) \in 1..Len(a)
  BY <1>1, <1>2, Truncated
<1> HIDE DEF t
<1>4. Len(t) = (IF Len(h) < d_length THEN Len(h) + 1 ELSE d_length) /\ Len(t) \in 1..Len(a)
  BY <1>1, <1>2, <1>3
<1>5. t[Len(t)] = b
  <2>1. Len(t) + (Len(a) - Len(t)) = Len(h) + 1 /\ Len(t) \in 1..Len(t)
    BY <1>1, <1>2, <1>4
  <2> QED BY <1>2, <1>3, <2>1
<1>6. ASSUME NEW i \in 1..Len(t), i # Len(t)
      PROVE  /\ i + (Len(h) + 1 - Len(t)) \in DOMAIN h
             /\ t[i] = h[i + (Len(h) + 1 - Len(t))]
  <2>1. i + (Len(a) - Len(t)) = i + (Len(h) + 1 - Len(t))
    BY <1>2
  <2>2. i + (Len(h) + 1 - Len(t)) \in 1..Len(h)
    BY <1>1, <1>2, <1>4, <1>6
  <2> QED BY <1>1, <1>2, <1>3, <2>1, <2>2
<1> QED BY <1>3, <1>4, <1>5, <1>6 DEF t, a

\* The least and the greatest of a list of brightnesses.
LEMMA ListExtremes ==
  ASSUME NEW h \in Seq(Brightnesses), h # <<>>
  PROVE  /\ Min(ToSet(h)) \in ToSet(h) /\ Max(ToSet(h)) \in ToSet(h)
         /\ ToSet(h) \subseteq Dim..Bright
         /\ \A i \in DOMAIN h : Min(ToSet(h)) <= h[i] /\ h[i] <= Max(ToSet(h))
<1>1. ToSet(h) \in SUBSET (Dim..Bright) /\ Dim \in Int /\ Bright \in Int
  BY BrightnessType DEF ToSet
<1>2. ToSet(h) # {} /\ \A i \in DOMAIN h : h[i] \in ToSet(h)
  <2>1. Len(h) \in DOMAIN h
    BY LenProperties, EmptySeq
  <2> QED BY <2>1 DEF ToSet
<1> QED BY <1>1, <1>2, MinIsLeast, MaxIsGreatest

\* An identified LED has as much history as a pattern is long.
LEMMA GetIdType ==
  ASSUME NEW currentId \in IDs, NEW h \in Seq(Brightnesses), NEW keep \in BOOLEAN
  PROVE  /\ getId(currentId, h, keep) \in IDs
         /\ getId(currentId, h, keep) > 0 => Len(h) >= d_length
<1>1. Len(h) \in Nat /\ d_length \in Nat /\ Len(Patterns) \in Nat
  BY PatternLength
<1>2. -1 \in IDs /\ -2 \in IDs /\ -3 \in IDs
  BY <1>1 DEF IDs, SENTINEL_MARKED_MISIDENTIFIED
<1>3. ASSUME NEW bits, matching(bits) # {} PROVE Min(matching(bits)) \in IDs
  <2>1. matching(bits) \in SUBSET (1..Len(Patterns))
    BY PatternLength DEF matching, enabledBeacons
  <2>2. Min(matching(bits)) \in 1..Len(Patterns)
    <3>1. 1 \in Int /\ Len(Patterns) \in Int
      BY <1>1
    <3>2. Min(matching(bits)) \in matching(bits)
      BY <1>3, <2>1, <3>1, MinIsLeast
    <3> QED BY <2>1, <3>2
  <2> QED BY <1>1, <2>2 DEF IDs, SENTINEL_MARKED_MISIDENTIFIED
<1>4. CASE Len(h) < d_length
  BY <1>1, <1>2, <1>4 DEF getId, SENTINEL_INSUFFICIENT_DATA
<1>5. CASE Len(h) >= d_length
  <2>1. getId(currentId, h, keep) \in IDs
    BY <1>1, <1>2, <1>3, <1>5
       DEF getId, SENTINEL_INSUFFICIENT_EXTREMA_DIFFERENCE, SENTINEL_NO_PATTERN_RECOGNIZED
  <2> QED BY <1>5, <2>1
<1> QED BY <1>1, <1>4, <1>5

\* What a measurement makes of an LED.
LEMMA MeasurementAdded ==
  ASSUME NEW led \in Leds, NEW meas \in Measurements, NEW keep \in BOOLEAN,
         led.evidence = Len(led.m_brightnessHistory), led.evidence <= d_length
  PROVE  LET updated == addMeasurement(led, meas, keep) IN
         /\ updated \in Leds
         /\ updated.m_latestMeasurement = meas
         /\ updated.evidence = Len(updated.m_brightnessHistory)
         /\ updated.evidence \in 1..d_length
         /\ identified(updated) => updated.evidence = d_length
<1> DEFINE h == led.m_brightnessHistory
           a == Append(h, meas.brightness)
           t == truncateBrightnessListTo(a, d_length)
           got == getId(led.id, a, keep)
           evidence == Min({led.evidence + 1, d_length})
           updated == addMeasurement(led, meas, keep)
<1>1. /\ h \in Seq(Brightnesses) /\ meas.brightness \in Brightnesses /\ led.id \in IDs
      /\ led.evidence \in Nat /\ d_length \in Nat \ {0} /\ Len(h) \in Nat /\ Len(h) <= d_length
  BY PatternLength DEF Leds, Measurements
<1>2. a \in Seq(Brightnesses) /\ Len(a) = Len(h) + 1
  BY <1>1, AppendProperties
<1>3. t \in Seq(Brightnesses) /\ Len(t) = IF Len(h) < d_length THEN Len(h) + 1 ELSE d_length
  BY <1>1, HistoryGrows
<1>4. got \in IDs /\ (got > 0 => Len(a) >= d_length)
  <2> HIDE DEF a
  <2> QED BY <1>1, <1>2, GetIdType
<1>5. withSticky(led.id, got) \in IDs /\ (withSticky(led.id, got) > 0 => got > 0)
  <2> HIDE DEF got
  <2> QED BY <1>1, <1>4 DEF withSticky, SENTINEL_MARKED_MISIDENTIFIED
<1>6. evidence = Len(t) /\ evidence \in 1..d_length
  <2>1. evidence = IF led.evidence + 1 <= d_length THEN led.evidence + 1 ELSE d_length
    BY <1>1, MinOfTwo
  <2> HIDE DEF t, evidence
  <2> QED BY <1>1, <1>3, <2>1
<1>7. updated = [m_latestMeasurement |-> meas, m_brightnessHistory |-> t,
                 id |-> withSticky(led.id, got), evidence |-> evidence]
  BY DEF addMeasurement
<1>8. identified(updated) => evidence = d_length
  <2> HIDE DEF t, got, evidence, a, updated
  <2> QED BY <1>1, <1>2, <1>3, <1>4, <1>5, <1>6, <1>7 DEF identified
<1> HIDE DEF t, got, evidence
<1> QED BY <1>1, <1>3, <1>5, <1>6, <1>7, <1>8 DEF Leds

\* What refuting does to an LED.
LEMMA Misidentified ==
  ASSUME NEW led \in Leds
  PROVE  LET marked == markMisidentified(led) IN
         /\ marked \in Leds
         /\ marked.m_latestMeasurement = led.m_latestMeasurement
         /\ marked.m_brightnessHistory = <<led.m_latestMeasurement.brightness>>
         /\ Len(marked.m_brightnessHistory) = 1
         /\ marked.evidence = 1 /\ marked.id = SENTINEL_MARKED_MISIDENTIFIED
         /\ ~ identified(marked)
<1>1. led.m_latestMeasurement.brightness \in Brightnesses
  BY DEF Leds, Measurements
<1>2. /\ <<led.m_latestMeasurement.brightness>> \in Seq(Brightnesses)
      /\ Len(<<led.m_latestMeasurement.brightness>>) = 1
  BY <1>1
<1>3. SENTINEL_MARKED_MISIDENTIFIED \in IDs
  BY PatternLength DEF IDs, SENTINEL_MARKED_MISIDENTIFIED
<1>4. /\ markMisidentified(led).m_latestMeasurement = led.m_latestMeasurement
      /\ markMisidentified(led).m_brightnessHistory = <<led.m_latestMeasurement.brightness>>
      /\ markMisidentified(led).id = SENTINEL_MARKED_MISIDENTIFIED
      /\ markMisidentified(led).evidence = 1
  BY DEF markMisidentified, Leds
<1>5. ~ (SENTINEL_MARKED_MISIDENTIFIED > 0)
  BY DEF SENTINEL_MARKED_MISIDENTIFIED
<1>6. markMisidentified(led) \in Leds
  BY <1>2, <1>3 DEF markMisidentified, Leds
<1> QED BY <1>2, <1>4, <1>5, <1>6 DEF identified

-----------------------------------------------------------------------------
(***************************************************************************)
(* The steps                                                               *)
(***************************************************************************)

\* What the camera takes of a scene: one blob each of the sources visible.
LEMMA ImageTaken ==
  ASSUME NEW newPlaces \in CalmScenes \cup RoughScenes, NEW visible \in SUBSET (DOMAIN newPlaces),
         NEW when, NEW image \in images(newPlaces, visible, when)
  PROVE  /\ image \in Seq(Measurements) /\ DOMAIN image = 1..Len(image) /\ Len(image) \in Nat
         /\ \A m \in DOMAIN image :
              /\ image[m].of \in visible /\ image[m].loc = newPlaces[image[m].of]
              /\ image[m].brightness \in shining(image[m].of, when)
         /\ \A m, n \in DOMAIN image : image[m].of = image[n].of => m = n
<1> DEFINE order == SetToSeq(visible)
           n == Cardinality(visible)
<1>1. newPlaces \in [DOMAIN newPlaces -> Int] /\ DOMAIN newPlaces \subseteq Sources
  BY SceneAssumption DEF Sources, enabledBeacons
<1>2. IsFiniteSet(visible)
  <2>1. Sources \subseteq 0..Len(Patterns) /\ Len(Patterns) \in Int
    BY PatternLength DEF Sources, LIGHT
  <2>2. IsFiniteSet(0..Len(Patterns))
    <3>1. 0 \in Int
      OBVIOUS
    <3> QED BY <2>1, <3>1, FS_Interval
  <2>3. visible \in SUBSET (0..Len(Patterns))
    BY <1>1, <2>1
  <2> QED BY <2>2, <2>3, FS_Subset
<1>3. /\ n \in Nat /\ order \in [1..n -> visible]
      /\ \A i, j \in 1..n : order[i] = order[j] => i = j
  BY <1>2, SetToSeqEnumerates
<1> HIDE DEF order, n
<1>4. DOMAIN order = 1..n
  BY <1>3
<1>5. PICK b \in [1..n -> Brightnesses] :
        image = [i \in 1..n |->
                   [loc |-> newPlaces[order[i]], brightness |-> b[i], of |-> order[i]]]
  BY <1>4 DEF images, order
<1>6. \A i \in DOMAIN image : image[i].brightness \in shining(image[i].of, when)
  BY DEF images
<1>7. \A i \in 1..n :
        /\ image[i].of = order[i] /\ image[i].of \in visible
        /\ image[i].loc = newPlaces[image[i].of]
        /\ image[i] \in Measurements
  BY <1>1, <1>3, <1>5 DEF Measurements
<1>8. image \in [1..n -> Measurements]
  BY <1>5, <1>7
<1>9. image \in Seq(Measurements) /\ DOMAIN image = 1..n
  BY <1>3, <1>8, IsASeq
<1>10. Len(image) = n
  BY <1>3, <1>9, LenProperties
<1>11. \A k, m \in 1..n : image[k].of = image[m].of => k = m
  BY <1>3, <1>7
<1> QED BY <1>3, <1>6, <1>7, <1>9, <1>10, <1>11

LEMMA GapType ==
  ASSUME NEW a \in Int, NEW b \in Int
  PROVE  gap(a, b) \in Nat
BY DEF gap

\* The pairs put on the heap.
LEMMA CandidatesType ==
  ASSUME leds \in Seq(Leds), NEW image \in Seq(Measurements), NEW pair \in candidates(image)
  PROVE  /\ pair \in [led : DOMAIN leds, meas : DOMAIN image, dist : Nat]
         /\ near(leds[pair.led], image[pair.meas])
<1>1. PICK q \in (DOMAIN leds) \X (DOMAIN image) :
        /\ near(leds[q[1]], image[q[2]])
        /\ pair = [led |-> q[1], meas |-> q[2], dist |-> distance(leds[q[1]], image[q[2]])]
  BY DEF candidates
<1>2. q[1] \in DOMAIN leds /\ q[2] \in DOMAIN image
  BY <1>1
<1>3. leds[q[1]] \in Leds /\ image[q[2]] \in Measurements
  BY <1>2
<1>4. leds[q[1]].m_latestMeasurement.loc \in Int /\ image[q[2]].loc \in Int
  BY <1>3 DEF Leds, Measurements
<1>5. distance(leds[q[1]], image[q[2]]) \in Nat
  BY <1>4, GapType DEF distance
<1> QED BY <1>1, <1>2, <1>5

\* A pair on the heap is of an LED and a measurement that there are.
LEMMA PairType ==
  ASSUME TypeOK, NEW pair \in distanceHeap_
  PROVE  /\ pair.led \in DOMAIN leds /\ leds[pair.led] \in Leds
         /\ pair.meas \in DOMAIN measurements /\ measurements[pair.meas] \in Measurements
         /\ pair.dist \in Nat
BY DEF TypeOK

\* The sets of what is unclaimed are finite.
LEMMA RefsFinite ==
  ASSUME TypeOK
  PROVE  /\ IsFiniteSet(ledRefs_) /\ Cardinality(ledRefs_) \in Nat
         /\ IsFiniteSet(measRefs_) /\ Cardinality(measRefs_) \in Nat
         /\ IsFiniteSet(settled) /\ settled \in SUBSET Nat /\ measRefs_ \in SUBSET Nat
<1>1. /\ DOMAIN leds = 1..Len(leds) /\ Len(leds) \in Nat
      /\ DOMAIN measurements = 1..Len(measurements) /\ Len(measurements) \in Nat
  BY DEF TypeOK
<1>2. IsFiniteSet(DOMAIN leds) /\ IsFiniteSet(DOMAIN measurements)
  BY <1>1, FS_Interval
<1>3. /\ ledRefs_ \in SUBSET (DOMAIN leds) /\ settled \in SUBSET (DOMAIN leds)
      /\ measRefs_ \in SUBSET (DOMAIN measurements)
  BY DEF TypeOK, settled
<1>4. IsFiniteSet(ledRefs_) /\ IsFiniteSet(measRefs_) /\ IsFiniteSet(settled)
  BY <1>2, <1>3, FS_Subset
<1> QED BY <1>1, <1>3, <1>4, FS_CardinalityType

\* What becomes of the LED matched.
matchedLed(pair) ==
  LET updated == addMeasurement(leds[pair.led], measurements[pair.meas], blobsKeepIdentity) IN
  IF outOfRange(updated) THEN markMisidentified(updated) ELSE updated

givenBack(pair) ==
  outOfRange(addMeasurement(leds[pair.led], measurements[pair.meas], blobsKeepIdentity))

\* One turn of the loop, in terms of the LED matched.
LEMMA MatchStep ==
  ASSUME TypeOK, EvidenceInv, NEW pair \in distanceHeap_, Match(pair)
  PROVE  /\ pair.led \in ledRefs_ /\ pair.meas \in measRefs_ /\ assigning
         /\ leds' = [leds EXCEPT ![pair.led] = matchedLed(pair)]
         /\ leds' \in Seq(Leds) /\ DOMAIN leds' = DOMAIN leds /\ Len(leds') = Len(leds)
         /\ leds'[pair.led] = matchedLed(pair)
         /\ \A i \in DOMAIN leds : i # pair.led => leds'[i] = leds[i]
         /\ matchedLed(pair) \in Leds
         /\ matchedLed(pair).m_latestMeasurement = measurements[pair.meas]
         /\ matchedLed(pair).evidence = Len(matchedLed(pair).m_brightnessHistory)
         /\ matchedLed(pair).evidence \in 1..d_length
         /\ identified(matchedLed(pair)) => matchedLed(pair).evidence = d_length
         /\ givenBack(pair) =>
              /\ matchedLed(pair).id = SENTINEL_MARKED_MISIDENTIFIED
              /\ m_numBeacons < Len(Patterns)
         /\ ledRefs_' = ledRefs_ \ {pair.led}
         /\ measRefs_' = IF givenBack(pair) THEN measRefs_ ELSE measRefs_ \ {pair.meas}
         /\ numMatches_' = IF givenBack(pair) THEN numMatches_ ELSE numMatches_ + 1
         /\ matched' = IF givenBack(pair) THEN matched ELSE matched \cup {pair}
         /\ UNCHANGED <<usableLeds, configured, measurements, distanceHeap_, assigning, scene>>
<1> DEFINE led == leds[pair.led]
           meas == measurements[pair.meas]
           updated == addMeasurement(led, meas, blobsKeepIdentity)
<1>1. /\ led \in Leds /\ meas \in Measurements /\ pair.led \in DOMAIN leds
      /\ blobsKeepIdentity \in BOOLEAN
      /\ led.evidence = Len(led.m_brightnessHistory) /\ led.evidence <= d_length
  BY PairType, PatternLength DEF TypeOK, EvidenceInv
<1>2. /\ updated \in Leds
      /\ updated.m_latestMeasurement = meas
      /\ updated.evidence = Len(updated.m_brightnessHistory)
      /\ updated.evidence \in 1..d_length
      /\ identified(updated) => updated.evidence = d_length
  <2> HIDE DEF led, meas
  <2> QED BY <1>1, MeasurementAdded
<1> HIDE DEF updated
<1>3. /\ markMisidentified(updated) \in Leds
      /\ markMisidentified(updated).m_latestMeasurement = meas
      /\ Len(markMisidentified(updated).m_brightnessHistory) = 1
      /\ markMisidentified(updated).evidence = 1
      /\ markMisidentified(updated).id = SENTINEL_MARKED_MISIDENTIFIED
      /\ ~ identified(markMisidentified(updated))
  BY <1>2, Misidentified
<1>4. givenBack(pair) = outOfRange(updated)
  BY DEF givenBack, updated
<1>5. matchedLed(pair) = IF outOfRange(updated) THEN markMisidentified(updated) ELSE updated
  BY DEF matchedLed, updated
<1>6. outOfRange(updated) => m_numBeacons < Len(Patterns)
  <2>1. updated.id \in Int /\ updated.id <= Len(Patterns) /\ m_numBeacons \in Int
    BY <1>2, TargetAssumption, PatternLength DEF Leds, IDs, SENTINEL_MARKED_MISIDENTIFIED, TypeOK
  <2>2. Len(Patterns) \in Int
    BY PatternLength
  <2> QED BY <2>1, <2>2 DEF outOfRange
<1>7. /\ matchedLed(pair) \in Leds
      /\ matchedLed(pair).m_latestMeasurement = meas
      /\ matchedLed(pair).evidence = Len(matchedLed(pair).m_brightnessHistory)
      /\ matchedLed(pair).evidence \in 1..d_length
      /\ identified(matchedLed(pair)) => matchedLed(pair).evidence = d_length
      /\ givenBack(pair) =>
           /\ matchedLed(pair).id = SENTINEL_MARKED_MISIDENTIFIED
           /\ m_numBeacons < Len(Patterns)
  <2>1. CASE outOfRange(updated)
    <3>1. 1 \in 1..d_length
      BY PatternLength
    <3>2. matchedLed(pair) = markMisidentified(updated)
      BY <1>5, <2>1
    <3> QED BY <1>3, <1>6, <2>1, <3>1, <3>2
  <2>2. CASE ~ outOfRange(updated)
    BY <1>2, <1>4, <1>5, <2>2
  <2> QED BY <2>1, <2>2
<1>8. pair.led \in ledRefs_ /\ pair.meas \in measRefs_ /\ assigning
  BY DEF Match, isTop, validPairs, isValid, isLedValid, isMeasValid
<1>9. /\ leds' = [leds EXCEPT ![pair.led] = matchedLed(pair)]
      /\ ledRefs_' = ledRefs_ \ {pair.led}
      /\ measRefs_' = IF givenBack(pair) THEN measRefs_ ELSE measRefs_ \ {pair.meas}
      /\ numMatches_' = IF givenBack(pair) THEN numMatches_ ELSE numMatches_ + 1
      /\ matched' = IF givenBack(pair) THEN matched ELSE matched \cup {pair}
      /\ UNCHANGED <<usableLeds, configured, measurements, distanceHeap_, assigning, scene>>
  BY <1>4, <1>5 DEF Match, updated
<1> HIDE DEF led, meas
<1>10. /\ leds' \in Seq(Leds) /\ DOMAIN leds' = DOMAIN leds /\ Len(leds') = Len(leds)
       /\ leds'[pair.led] = matchedLed(pair)
       /\ \A i \in DOMAIN leds : i # pair.led => leds'[i] = leds[i]
  BY <1>1, <1>7, <1>9, ExceptSeq DEF TypeOK
<1> QED BY <1>7, <1>8, <1>9, <1>10 DEF meas

\* An LED before its first measurement.
blankLed(meas) == [m_latestMeasurement |-> meas, m_brightnessHistory |-> <<>>,
                   id |-> SENTINEL_NO_IDENTIFIER_OBJECT, evidence |-> 0]

LEMMA BlankLed ==
  ASSUME NEW meas \in Measurements
  PROVE  /\ blankLed(meas) \in Leds /\ newLed(meas) = addMeasurement(blankLed(meas), meas, FALSE)
         /\ blankLed(meas).evidence = 0 /\ Len(blankLed(meas).m_brightnessHistory) = 0
<1>1. SENTINEL_NO_IDENTIFIER_OBJECT \in IDs
  BY PatternLength DEF IDs, SENTINEL_MARKED_MISIDENTIFIED, SENTINEL_NO_IDENTIFIER_OBJECT
<1>2. <<>> \in Seq(Brightnesses) /\ Len(<<>>) = 0
  BY EmptySeq
<1> QED BY <1>1, <1>2 DEF blankLed, newLed, Leds

LEMMA NewLedMade ==
  ASSUME NEW meas \in Measurements
  PROVE  /\ newLed(meas) \in Leds
         /\ newLed(meas).m_latestMeasurement = meas
         /\ newLed(meas).evidence = Len(newLed(meas).m_brightnessHistory)
         /\ newLed(meas).evidence \in 1..d_length
         /\ identified(newLed(meas)) => newLed(meas).evidence = d_length
<1> DEFINE blank == blankLed(meas)
           added(keep) == addMeasurement(blank, meas, keep)
<1>1. /\ blank \in Leds
      /\ blank.evidence = Len(blank.m_brightnessHistory)
      /\ blank.evidence <= d_length
  <2>1. blank \in Leds /\ blank.evidence = 0 /\ Len(blank.m_brightnessHistory) = 0
    BY BlankLed
  <2>2. 0 <= d_length
    BY PatternLength
  <2> HIDE DEF blank
  <2> QED BY <2>1, <2>2
<1> HIDE DEF blank
<1>2. ASSUME NEW keep \in BOOLEAN
      PROVE  /\ added(keep) \in Leds
             /\ added(keep).m_latestMeasurement = meas
             /\ added(keep).evidence = Len(added(keep).m_brightnessHistory)
             /\ added(keep).evidence \in 1..d_length
             /\ identified(added(keep)) => added(keep).evidence = d_length
  BY <1>1, MeasurementAdded
<1>3. newLed(meas) = added(FALSE)
  BY BlankLed DEF blank
<1> HIDE DEF added
<1> QED BY <1>2, <1>3, Zenon

\* After the loop the list is the LEDs claimed and a new one for each blob not.
LEMMA FinishedLeds ==
  ASSUME TypeOK, EvidenceInv
  PROVE  LET list == claimedLeds \o newLeds
             n == Cardinality(settled)
             all == n + Cardinality(measRefs_)
         IN
         /\ n \in Nat /\ all \in Nat /\ n <= all
         /\ list \in Seq(Leds) /\ Len(list) = all /\ DOMAIN list = 1..all
         /\ \A i \in 1..n : indices(settled)[i] \in settled /\ list[i] = leds[indices(settled)[i]]
         /\ \A i \in (n + 1)..all :
              /\ indices(measRefs_)[i - n] \in measRefs_
              /\ list[i] = newLed(measurements[indices(measRefs_)[i - n]])
         /\ \A i, j \in 1..n : indices(settled)[i] = indices(settled)[j] => i = j
         /\ \A i, j \in (n + 1)..all :
              indices(measRefs_)[i - n] = indices(measRefs_)[j - n] => i = j
         /\ \A k \in settled : \E i \in 1..n : list[i] = leds[k]
         /\ \A m \in measRefs_ : \E i \in (n + 1)..all : list[i] = newLed(measurements[m])
<1> DEFINE list == claimedLeds \o newLeds
           kept == indices(settled)
           fresh == indices(measRefs_)
           n == Cardinality(settled)
           k == Cardinality(measRefs_)
<1>1. /\ n \in Nat /\ kept \in [1..n -> settled]
      /\ \A i, j \in 1..n : kept[i] = kept[j] => i = j
      /\ \A x \in settled : \E i \in 1..n : kept[i] = x
  BY RefsFinite, IndicesEnumerate
<1>2. /\ k \in Nat /\ fresh \in [1..k -> measRefs_]
      /\ \A i, j \in 1..k : fresh[i] = fresh[j] => i = j
      /\ \A x \in measRefs_ : \E i \in 1..k : fresh[i] = x
  BY RefsFinite, IndicesEnumerate
<1>3. \A x \in settled : leds[x] \in Leds
  BY DEF TypeOK, settled
<1>4. \A x \in measRefs_ : measurements[x] \in Measurements
  BY DEF TypeOK
<1>5. claimedLeds = [i \in DOMAIN kept |-> leds[kept[i]]]
  BY DEF claimedLeds, settled
<1>6. newLeds = [i \in DOMAIN fresh |-> newLed(measurements[fresh[i]])]
  BY DEF newLeds
<1> HIDE DEF kept, fresh, n, k
<1>7. claimedLeds = [i \in 1..n |-> leds[kept[i]]] /\ claimedLeds \in [1..n -> Leds]
  BY <1>1, <1>3, <1>5
<1>8. newLeds = [i \in 1..k |-> newLed(measurements[fresh[i]])] /\ newLeds \in [1..k -> Leds]
  <2>1. \A i \in 1..k : newLed(measurements[fresh[i]]) \in Leds
    BY <1>2, <1>4, NewLedMade
  <2> QED BY <1>2, <1>6, <2>1
<1>9. /\ claimedLeds \in Seq(Leds) /\ Len(claimedLeds) = n
      /\ newLeds \in Seq(Leds) /\ Len(newLeds) = k
  BY <1>1, <1>2, <1>7, <1>8, SeqDef, LenProperties
<1>10. /\ list \in Seq(Leds) /\ Len(list) = n + k
       /\ \A i \in 1..(n + k) : list[i] = IF i <= n THEN claimedLeds[i] ELSE newLeds[i - n]
  BY <1>9, ConcatProperties
<1> HIDE DEF list
<1>11. DOMAIN list = 1..(n + k)
  BY <1>10, LenProperties
<1>12. ASSUME NEW i \in 1..n PROVE kept[i] \in settled /\ list[i] = leds[kept[i]]
  <2>1. i \in 1..(n + k) /\ i <= n
    BY <1>1, <1>2
  <2>2. list[i] = claimedLeds[i]
    BY <1>10, <2>1
  <2> QED BY <1>1, <1>7, <2>2
<1>13. ASSUME NEW i \in (n + 1)..(n + k)
       PROVE  /\ i - n \in 1..k /\ fresh[i - n] \in measRefs_
              /\ list[i] = newLed(measurements[fresh[i - n]])
  <2>1. i \in 1..(n + k) /\ ~ (i <= n) /\ i - n \in 1..k
    BY <1>1, <1>2
  <2>2. list[i] = newLeds[i - n]
    BY <1>10, <2>1
  <2> QED BY <1>2, <1>8, <2>1, <2>2
<1>14. ASSUME NEW i \in (n + 1)..(n + k), NEW j \in (n + 1)..(n + k),
              fresh[i - n] = fresh[j - n]
       PROVE  i = j
  <2>1. i - n = j - n
    BY <1>2, <1>13, <1>14
  <2> QED BY <1>1, <1>2, <2>1
<1>15. ASSUME NEW x \in settled PROVE \E i \in 1..n : list[i] = leds[x]
  BY <1>1, <1>12
<1>16. ASSUME NEW m \in measRefs_
       PROVE  \E i \in (n + 1)..(n + k) : list[i] = newLed(measurements[m])
  <2>1. PICK i \in 1..k : fresh[i] = m
    BY <1>2
  <2>2. n + i \in (n + 1)..(n + k) /\ (n + i) - n = i
    BY <1>1, <1>2
  <2> QED BY <1>13, <2>1, <2>2
<1>17. n + k \in Nat /\ n <= n + k
  BY <1>1, <1>2
<1> QED BY <1>1, <1>10, <1>11, <1>12, <1>13, <1>14, <1>15, <1>16, <1>17 DEF kept, fresh, n, k, list

\* What the camera and the loop are given are scenes there are.
LEMMA NextSteps ==
  ASSUME Next
  PROVE  \/ \E newPlaces \in CalmScenes \cup RoughScenes, steps \in {1, 2} :
              /\ calm => newPlaces \in CalmScenes /\ steps = 1
              /\ \E visible \in SUBSET (DOMAIN newPlaces) : Image(newPlaces, visible, steps)
         \/ \E pair \in distanceHeap_ : Match(pair)
         \/ Finish
         \/ \E i \in usableLeds : Refute(i)
BY DEF Next

\* What Image leaves.
LEMMA ImageStep ==
  ASSUME TypeOK, NEW newPlaces \in CalmScenes \cup RoughScenes,
         NEW visible \in SUBSET (DOMAIN newPlaces), NEW steps \in {1, 2},
         Image(newPlaces, visible, steps)
  PROVE  /\ ~ assigning /\ move(newPlaces) /\ places' = newPlaces
         /\ tick' = (tick + steps) % d_length /\ tick' \in 0..d_length - 1
         /\ measurements' \in Seq(Measurements)
         /\ DOMAIN measurements' = 1..Len(measurements') /\ Len(measurements') \in Nat
         /\ \A m \in DOMAIN measurements' :
              /\ measurements'[m].of \in DOMAIN newPlaces
              /\ measurements'[m].loc = newPlaces[measurements'[m].of]
              /\ measurements'[m].brightness \in shining(measurements'[m].of, tick')
         /\ \A m, n \in DOMAIN measurements' :
              measurements'[m].of = measurements'[n].of => m = n
         /\ distanceHeap_' = candidates(measurements')
         /\ distanceHeap_' \subseteq [led : DOMAIN leds, meas : DOMAIN measurements', dist : Nat]
         /\ measRefs_' = DOMAIN measurements' /\ ledRefs_' = DOMAIN leds
         /\ numMatches_' = 0 /\ matched' = {} /\ assigning' = TRUE /\ usableLeds' = {}
         /\ UNCHANGED <<leds, configured, calm>>
<1>1. PICK image \in images(newPlaces, visible, tick') :
        /\ measurements' = image /\ distanceHeap_' = candidates(image)
        /\ measRefs_' = DOMAIN image
  BY DEF Image
<1>2. /\ image \in Seq(Measurements) /\ DOMAIN image = 1..Len(image) /\ Len(image) \in Nat
      /\ \A m \in DOMAIN image :
           /\ image[m].of \in visible /\ image[m].loc = newPlaces[image[m].of]
           /\ image[m].brightness \in shining(image[m].of, tick')
      /\ \A m, n \in DOMAIN image : image[m].of = image[n].of => m = n
  BY ImageTaken
<1>3. candidates(image) \subseteq [led : DOMAIN leds, meas : DOMAIN image, dist : Nat]
  BY <1>2, CandidatesType DEF TypeOK
<1>4. tick' = (tick + steps) % d_length /\ tick' \in 0..d_length - 1
  <2>1. tick' = (tick + steps) % d_length /\ tick + steps \in Int /\ d_length \in Nat /\ d_length > 0
    BY PatternLength DEF Image, TypeOK
  <2> QED BY <2>1
<1> QED BY <1>1, <1>2, <1>3, <1>4 DEF Image

\* What Finish leaves.
LEMMA FinishStep ==
  ASSUME TypeOK, EvidenceInv, Finish
  PROVE  /\ assigning /\ ~ hasMoreMatches /\ leds' = claimedLeds \o newLeds
         /\ leds' \in Seq(Leds)
         /\ \A i \in DOMAIN leds' :
              \/ \E k \in settled : leds'[i] = leds[k]
              \/ \E m \in measRefs_ : leds'[i] = newLed(measurements[m])
         /\ usableLeds' \subseteq DOMAIN leds'
         /\ assigning' = FALSE
         /\ distanceHeap_' = {} /\ ledRefs_' = {} /\ measRefs_' = {} /\ matched' = {}
         /\ UNCHANGED <<configured, measurements, numMatches_, scene>>
<1> DEFINE n == Cardinality(settled)
           all == n + Cardinality(measRefs_)
<1>1. leds' = claimedLeds \o newLeds
  BY DEF Finish
<1>2. /\ n \in Nat /\ all \in Nat
      /\ leds' \in Seq(Leds) /\ DOMAIN leds' = 1..all
      /\ \A i \in 1..n : indices(settled)[i] \in settled /\ leds'[i] = leds[indices(settled)[i]]
      /\ \A i \in (n + 1)..all :
           /\ indices(measRefs_)[i - n] \in measRefs_
           /\ leds'[i] = newLed(measurements[indices(measRefs_)[i - n]])
  BY <1>1, FinishedLeds
<1> HIDE DEF n, all
<1>3. ASSUME NEW i \in DOMAIN leds'
      PROVE  \/ \E k \in settled : leds'[i] = leds[k]
             \/ \E m \in measRefs_ : leds'[i] = newLed(measurements[m])
  <2>1. i \in 1..n \/ i \in (n + 1)..all
    BY <1>2
  <2> QED BY <1>2, <2>1
<1> QED BY <1>1, <1>2, <1>3 DEF Finish

\* Types, evidence and counts.
StructInv == TypeOK /\ EvidenceInv /\ CountInv

LEMMA StructInit == Init => StructInv
<1> SUFFICES ASSUME Init PROVE StructInv
  OBVIOUS
<1>1. Init => blobsKeepIdentity \in BOOLEAN /\ calm \in BOOLEAN /\ assigning \in BOOLEAN
  BY DEF Init
<1>2. places \in CalmScenes \cup RoughScenes
  BY DEF Init
<1>3. tick \in 0..d_length - 1
  BY PatternLength DEF Init
<1>4. /\ leds \in Seq(Leds) /\ DOMAIN leds = {}
      /\ measurements \in Seq(Measurements) /\ Len(measurements) = 0
  BY EmptySeq DEF Init
<1>5. TypeOK
  BY <1>1, <1>2, <1>3, <1>4 DEF Init, TypeOK
<1>6. EvidenceInv /\ CountInv
  BY <1>4 DEF Init, EvidenceInv, CountInv
<1> QED BY <1>5, <1>6 DEF StructInv

LEMMA StructImage ==
  ASSUME StructInv, NEW newPlaces \in CalmScenes \cup RoughScenes,
         NEW visible \in SUBSET (DOMAIN newPlaces), NEW steps \in {1, 2},
         Image(newPlaces, visible, steps)
  PROVE  StructInv'
<1> USE DEF StructInv
<1>1. TypeOK'
  <2>1. matched' \subseteq distanceHeap_' /\ numMatches_' \in 0..Len(measurements')
    <3>1. matched' = {} /\ numMatches_' = 0 /\ Len(measurements') \in Nat
      BY ImageStep
    <3> QED BY <3>1
  <2>2. ledRefs_' \subseteq DOMAIN leds' /\ measRefs_' \subseteq DOMAIN measurements'
        /\ usableLeds' \subseteq DOMAIN leds'
        /\ distanceHeap_' \subseteq [led : DOMAIN leds', meas : DOMAIN measurements', dist : Nat]
    BY ImageStep
  <2>3. leds' \in Seq(Leds) /\ measurements' \in Seq(Measurements)
    BY ImageStep DEF TypeOK
  <2>4. assigning' \in BOOLEAN /\ blobsKeepIdentity' \in BOOLEAN /\ calm' \in BOOLEAN
    BY ImageStep DEF TypeOK, configured
  <2>5. m_numBeacons' \in NumBeacons /\ places' \in CalmScenes \cup RoughScenes
        /\ tick' \in 0..d_length - 1
    <3>1. places' = newPlaces
      BY DEF Image
    <3>2. tick' \in 0..d_length - 1
      BY ImageStep
    <3>3. m_numBeacons' = m_numBeacons
      BY DEF Image, configured
    <3> QED BY <3>1, <3>2, <3>3 DEF TypeOK
  <2>6. d_length' = d_length
    BY DEF d_length
  <2> QED BY <2>1, <2>2, <2>3, <2>4, <2>5, <2>6 DEF TypeOK
<1>2. EvidenceInv'
  BY ImageStep DEF EvidenceInv
<1>3. CountInv'
  <2>1. DOMAIN leds = 1..Len(leds) /\ Len(leds) \in Nat
    BY DEF TypeOK
  <2>2. Cardinality(DOMAIN leds) = Len(leds)
    BY <2>1, CountTo
  <2>3. /\ Len(measurements') \in Nat /\ measRefs_' = 1..Len(measurements')
        /\ ledRefs_' = DOMAIN leds /\ numMatches_' = 0 /\ leds' = leds /\ assigning'
    BY ImageStep
  <2>4. Cardinality(measRefs_') = Len(measurements')
    BY <2>3, CountTo
  <2>5. 0 + Cardinality(measRefs_') = Len(measurements') /\ 0 + Cardinality(ledRefs_') = Len(leds')
    BY <2>1, <2>2, <2>3, <2>4
  <2> QED BY <2>3, <2>5 DEF CountInv
<1> QED BY <1>1, <1>2, <1>3

LEMMA StructMatch ==
  ASSUME StructInv, NEW pair \in distanceHeap_, Match(pair)
  PROVE  StructInv'
<1> USE DEF StructInv
<1>1. /\ pair.led \in ledRefs_ /\ pair.meas \in measRefs_ /\ assigning
      /\ leds' \in Seq(Leds) /\ DOMAIN leds' = DOMAIN leds /\ Len(leds') = Len(leds)
      /\ ledRefs_' = ledRefs_ \ {pair.led}
      /\ measRefs_' = (IF givenBack(pair) THEN measRefs_ ELSE measRefs_ \ {pair.meas})
      /\ numMatches_' = (IF givenBack(pair) THEN numMatches_ ELSE numMatches_ + 1)
      /\ matched' = (IF givenBack(pair) THEN matched ELSE matched \cup {pair})
      /\ UNCHANGED <<usableLeds, configured, measurements, distanceHeap_, assigning, scene>>
  BY MatchStep
<1>2. /\ numMatches_ \in Nat /\ Len(measurements) \in Nat /\ Len(leds) \in Nat
      /\ numMatches_ + Cardinality(measRefs_) = Len(measurements)
      /\ m_numBeacons >= Len(Patterns) => numMatches_ + Cardinality(ledRefs_) = Len(leds)
  BY <1>1 DEF TypeOK, CountInv
<1>3. /\ Cardinality(measRefs_ \ {pair.meas}) = Cardinality(measRefs_) - 1
      /\ Cardinality(measRefs_ \ {pair.meas}) \in Nat /\ Cardinality(measRefs_) \in Nat
      /\ Cardinality(ledRefs_ \ {pair.led}) = Cardinality(ledRefs_) - 1
      /\ Cardinality(ledRefs_) \in Nat
  BY <1>1, RefsFinite, FS_RemoveElement, FS_CardinalityType
<1>4. TypeOK'
  <2>1. numMatches_' \in 0..Len(measurements')
    <3>1. numMatches_ + 1 <= Len(measurements)
      BY <1>2, <1>3
    <3> QED BY <1>1, <1>2, <3>1 DEF TypeOK
  <2>2. /\ ledRefs_' \subseteq DOMAIN leds' /\ measRefs_' \subseteq DOMAIN measurements'
        /\ usableLeds' \subseteq DOMAIN leds' /\ matched' \subseteq distanceHeap_'
        /\ distanceHeap_' \subseteq [led : DOMAIN leds', meas : DOMAIN measurements', dist : Nat]
    BY <1>1 DEF TypeOK
  <2>3. leds' \in Seq(Leds) /\ measurements' \in Seq(Measurements)
    BY <1>1 DEF TypeOK
  <2>4. assigning' \in BOOLEAN /\ blobsKeepIdentity' \in BOOLEAN /\ calm' \in BOOLEAN
    BY <1>1 DEF TypeOK, configured, scene
  <2>5. m_numBeacons' \in NumBeacons /\ places' \in CalmScenes \cup RoughScenes
        /\ tick' \in 0..d_length - 1
    BY <1>1 DEF TypeOK, configured, scene
  <2> QED BY <2>1, <2>2, <2>3, <2>4, <2>5 DEF TypeOK, d_length
<1>5. EvidenceInv'
  <2>1. ASSUME NEW i \in DOMAIN leds
        PROVE  /\ leds'[i].evidence = Len(leds'[i].m_brightnessHistory)
               /\ leds'[i].evidence \in 1..d_length
               /\ identified(leds'[i]) => leds'[i].evidence = d_length
    <3>1. CASE i = pair.led
      BY <3>1, MatchStep
    <3>2. CASE i # pair.led
      <4>1. leds'[i] = leds[i]
        BY <3>2, MatchStep
      <4> QED BY <4>1 DEF EvidenceInv
    <3> QED BY <3>1, <3>2
  <2> QED BY <1>1, <2>1 DEF EvidenceInv
<1>6. CountInv'
  <2>1. CASE givenBack(pair)
    <3>1. m_numBeacons < Len(Patterns) /\ m_numBeacons \in Nat /\ Len(Patterns) \in Nat
      BY <2>1, MatchStep, TargetAssumption, PatternLength DEF TypeOK
    <3>2. ~ (m_numBeacons >= Len(Patterns))
      BY <3>1
    <3> QED BY <1>1, <1>2, <2>1, <3>2 DEF CountInv, configured
  <2>2. CASE ~ givenBack(pair)
    <3>1. (numMatches_ + 1) + (Cardinality(measRefs_) - 1) = Len(measurements)
      BY <1>2, <1>3
    <3>2. m_numBeacons >= Len(Patterns) =>
            (numMatches_ + 1) + (Cardinality(ledRefs_) - 1) = Len(leds)
      BY <1>2, <1>3
    <3> QED BY <1>1, <1>3, <2>2, <3>1, <3>2 DEF CountInv, configured
  <2> QED BY <2>1, <2>2
<1> QED BY <1>4, <1>5, <1>6

LEMMA StructFinish ==
  ASSUME StructInv, Finish
  PROVE  StructInv'
<1> USE DEF StructInv
<1>1. TypeOK'
  <2>1. leds' \in Seq(Leds) /\ usableLeds' \subseteq DOMAIN leds'
    BY FinishStep
  <2>2. /\ ledRefs_' = {} /\ measRefs_' = {} /\ matched' = {} /\ distanceHeap_' = {}
        /\ assigning' = FALSE
        /\ UNCHANGED <<configured, measurements, numMatches_, scene>>
    BY FinishStep
  <2>3. assigning' \in BOOLEAN /\ blobsKeepIdentity' \in BOOLEAN /\ calm' \in BOOLEAN
    BY <2>2 DEF TypeOK, configured, scene
  <2> QED BY <2>1, <2>2, <2>3 DEF TypeOK, d_length, configured, scene
<1>2. EvidenceInv'
  <2>1. ASSUME NEW i \in DOMAIN leds'
        PROVE  /\ leds'[i].evidence = Len(leds'[i].m_brightnessHistory)
               /\ leds'[i].evidence \in 1..d_length
               /\ identified(leds'[i]) => leds'[i].evidence = d_length
    <3>1. CASE \E k \in settled : leds'[i] = leds[k]
      BY <3>1 DEF EvidenceInv, settled
    <3>2. CASE \E m \in measRefs_ : leds'[i] = newLed(measurements[m])
      <4>1. PICK m \in measRefs_ : leds'[i] = newLed(measurements[m])
        BY <3>2
      <4>2. measurements[m] \in Measurements
        BY DEF TypeOK
      <4> QED BY <4>1, <4>2, NewLedMade
    <3> QED BY <3>1, <3>2, FinishStep
  <2> QED BY <2>1 DEF EvidenceInv
<1>3. CountInv'
  BY FinishStep DEF CountInv
<1> QED BY <1>1, <1>2, <1>3

\* What Refute leaves.
LEMMA RefuteStep ==
  ASSUME TypeOK, NEW i \in usableLeds, Refute(i)
  PROVE  /\ i \in DOMAIN leds /\ ~ assigning
         /\ leds' \in Seq(Leds) /\ DOMAIN leds' = DOMAIN leds
         /\ leds'[i] = markMisidentified(leds[i]) /\ leds[i] \in Leds
         /\ \A j \in DOMAIN leds : j # i => leds'[j] = leds[j]
         /\ UNCHANGED <<usableLeds, configured, measurements, assignment, scene>>
<1>1. i \in DOMAIN leds /\ leds[i] \in Leds
  BY DEF TypeOK
<1>2. markMisidentified(leds[i]) \in Leds
  BY <1>1, Misidentified
<1>3. leds' = [leds EXCEPT ![i] = markMisidentified(leds[i])]
  BY DEF Refute
<1>4. /\ leds' \in Seq(Leds) /\ DOMAIN leds' = DOMAIN leds
      /\ leds'[i] = markMisidentified(leds[i])
      /\ \A j \in DOMAIN leds : j # i => leds'[j] = leds[j]
  BY <1>1, <1>2, <1>3, ExceptSeq DEF TypeOK
<1> QED BY <1>1, <1>4 DEF Refute

LEMMA StructRefute ==
  ASSUME StructInv, NEW i \in usableLeds, Refute(i)
  PROVE  StructInv'
<1> USE DEF StructInv
<1>1. TypeOK'
  <2>1. leds' \in Seq(Leds) /\ DOMAIN leds' = DOMAIN leds
        /\ UNCHANGED <<usableLeds, configured, measurements, assignment, scene>>
    BY RefuteStep
  <2>2. assigning' \in BOOLEAN /\ blobsKeepIdentity' \in BOOLEAN /\ calm' \in BOOLEAN
    BY <2>1 DEF TypeOK, configured, scene, assignment
  <2> QED BY <2>1, <2>2 DEF TypeOK, d_length, configured, scene, assignment
<1>2. EvidenceInv'
  <2>1. ASSUME NEW j \in DOMAIN leds
        PROVE  /\ leds'[j].evidence = Len(leds'[j].m_brightnessHistory)
               /\ leds'[j].evidence \in 1..d_length
               /\ identified(leds'[j]) => leds'[j].evidence = d_length
    <3>1. CASE i = j
      <4>1. 1 \in 1..d_length
        BY PatternLength
      <4>2. leds'[j] = markMisidentified(leds[j]) /\ leds[j] \in Leds
        BY <3>1, RefuteStep
      <4> QED BY <4>1, <4>2, Misidentified
    <3>2. CASE i # j
      <4>1. leds'[j] = leds[j]
        BY <3>2, RefuteStep
      <4> QED BY <4>1 DEF EvidenceInv
    <3> QED BY <3>1, <3>2
  <2> QED BY <2>1, RefuteStep DEF EvidenceInv
<1>3. CountInv'
  BY RefuteStep DEF CountInv, assignment
<1> QED BY <1>1, <1>2, <1>3

LEMMA StructStep ==
  ASSUME StructInv, [Next]_vars
  PROVE  StructInv'
<1>1. CASE Next
  BY <1>1, NextSteps, StructImage, StructMatch, StructFinish, StructRefute
<1>2. CASE UNCHANGED vars
  <2>1. UNCHANGED <<leds, usableLeds, measurements, m_numBeacons, blobsKeepIdentity>>
        /\ UNCHANGED <<distanceHeap_, ledRefs_, measRefs_, numMatches_, assigning, matched>>
        /\ UNCHANGED <<calm, places, tick>>
    BY <1>2 DEF vars, configured, assignment, scene
  <2> QED BY <2>1 DEF StructInv, TypeOK, EvidenceInv, CountInv, d_length
<1> QED BY <1>1, <1>2



-----------------------------------------------------------------------------
(***************************************************************************)
(* The closest first                                                       *)
(***************************************************************************)

\* What makes a pair unmatchable is the match of its LED or of its blob to one
\* no farther away, since the pair matched was the closest still valid.
LEMMA ClosestMatch ==
  ASSUME StructInv, ClosestInv, NEW pair \in distanceHeap_, Match(pair)
  PROVE  ClosestInv'
<1> SUFFICES ASSUME assigning', (m_numBeacons >= Len(Patterns))', NEW other \in distanceHeap_',
                    ~ isValid(other)'
             PROVE  \E made \in matched' :
                      /\ made.led = other.led \/ made.meas = other.meas
                      /\ made.dist <= other.dist
  BY DEF ClosestInv
<1>1. /\ assigning /\ distanceHeap_' = distanceHeap_ /\ UNCHANGED configured
      /\ ledRefs_' = ledRefs_ \ {pair.led}
      /\ measRefs_' = IF givenBack(pair) THEN measRefs_ ELSE measRefs_ \ {pair.meas}
      /\ matched' = IF givenBack(pair) THEN matched ELSE matched \cup {pair}
      /\ givenBack(pair) => m_numBeacons < Len(Patterns)
  BY MatchStep DEF StructInv
<1>2. m_numBeacons >= Len(Patterns) /\ m_numBeacons \in Nat /\ Len(Patterns) \in Nat
  BY <1>1, TargetAssumption, PatternLength DEF configured, StructInv, TypeOK
<1>3. ~ givenBack(pair)
  BY <1>1, <1>2
<1>4. CASE isValid(other)
  <2>1. other \in validPairs
    BY <1>1, <1>4 DEF validPairs
  <2>2. pair.dist <= other.dist
    BY <2>1 DEF Match, isTop
  <2>3. pair.led = other.led \/ pair.meas = other.meas
    BY <1>1, <1>3, <1>4 DEF isValid, isLedValid, isMeasValid
  <2> QED BY <1>1, <1>3, <2>2, <2>3
<1>5. CASE ~ isValid(other)
  BY <1>1, <1>2, <1>3, <1>5 DEF ClosestInv
<1> QED BY <1>4, <1>5

LEMMA ClosestStep ==
  ASSUME StructInv, ClosestInv, [Next]_vars
  PROVE  ClosestInv'
<1>1. ASSUME NEW newPlaces \in CalmScenes \cup RoughScenes,
             NEW visible \in SUBSET (DOMAIN newPlaces), NEW steps \in {1, 2},
             Image(newPlaces, visible, steps)
      PROVE  ClosestInv'
  <2>1. /\ distanceHeap_' \subseteq [led : DOMAIN leds, meas : DOMAIN measurements', dist : Nat]
        /\ measRefs_' = DOMAIN measurements' /\ ledRefs_' = DOMAIN leds
    BY <1>1, ImageStep DEF StructInv
  <2>2. \A pair \in distanceHeap_' : pair.led \in ledRefs_' /\ pair.meas \in measRefs_'
    BY <2>1
  <2> QED BY <2>2 DEF ClosestInv, isValid, isLedValid, isMeasValid
<1>2. CASE \E pair \in distanceHeap_ : Match(pair)
  BY <1>2, ClosestMatch
<1>3. CASE Finish
  BY <1>3, FinishStep DEF ClosestInv, StructInv
<1>4. CASE \E i \in usableLeds : Refute(i)
  BY <1>4 DEF Refute, ClosestInv, assignment
<1>5. CASE UNCHANGED vars
  BY <1>5 DEF vars, configured, assignment, ClosestInv, isValid, isLedValid, isMeasValid
<1> QED BY <1>1, <1>2, <1>3, <1>4, <1>5, NextSteps

\* With as many beacons as patterns the loop ends when no pair is valid: if all
\* matches possible were made, no LED or no blob is left.
LEMMA NoneValid ==
  ASSUME StructInv, assigning, ~ hasMoreMatches, m_numBeacons >= Len(Patterns)
  PROVE  validPairs = {}
<1>1. CASE numMatches_ = maxMatches_
  <2>1. /\ Len(leds) \in Nat /\ Len(measurements) \in Nat
        /\ Cardinality(ledRefs_) \in Nat /\ Cardinality(measRefs_) \in Nat
        /\ numMatches_ + Cardinality(measRefs_) = Len(measurements)
        /\ numMatches_ + Cardinality(ledRefs_) = Len(leds)
    BY RefsFinite DEF StructInv, CountInv, TypeOK
  <2>2. maxMatches_ = Len(leds) \/ maxMatches_ = Len(measurements)
    BY <2>1, MinOfTwo DEF maxMatches_
  <2>3. Cardinality(ledRefs_) = 0 \/ Cardinality(measRefs_) = 0
    <3>1. numMatches_ \in Nat
      BY DEF StructInv, TypeOK
    <3> HIDE DEF maxMatches_
    <3> QED BY <1>1, <2>1, <2>2, <3>1
  <2>4. ledRefs_ = {} \/ measRefs_ = {}
    BY <2>3, RefsFinite, FS_EmptySet DEF StructInv
  <2> QED BY <2>4 DEF validPairs, isValid, isLedValid, isMeasValid
<1>2. CASE numMatches_ # maxMatches_
  BY <1>2 DEF hasMoreMatches
<1> QED BY <1>1, <1>2


-----------------------------------------------------------------------------
(***************************************************************************)
(* Every blob followed                                                     *)
(***************************************************************************)

LEMMA FollowImage ==
  ASSUME StructInv, NEW newPlaces \in CalmScenes \cup RoughScenes,
         NEW visible \in SUBSET (DOMAIN newPlaces), NEW steps \in {1, 2},
         Image(newPlaces, visible, steps)
  PROVE  FollowInv'
<1>1. /\ ledRefs_' = DOMAIN leds /\ leds' = leds /\ measRefs_' = DOMAIN measurements'
      /\ \A m, n \in DOMAIN measurements' : measurements'[m].of = measurements'[n].of => m = n
  BY ImageStep DEF StructInv
<1>2. settled' = {}
  BY <1>1 DEF settled
<1>3. \A m, n \in DOMAIN measurements' : measurements'[m] = measurements'[n] => m = n
  BY <1>1
<1> QED BY <1>1, <1>2, <1>3 DEF FollowInv

LEMMA FollowMatch ==
  ASSUME StructInv, FollowInv, NEW pair \in distanceHeap_, Match(pair)
  PROVE  FollowInv'
<1> DEFINE led == pair.led
           meas == pair.meas
<1>1. /\ led \in ledRefs_ /\ meas \in measRefs_ /\ led \in DOMAIN leds
      /\ meas \in DOMAIN measurements
      /\ DOMAIN leds' = DOMAIN leds
      /\ leds'[led].m_latestMeasurement = measurements[meas]
      /\ \A i \in DOMAIN leds : i # led => leds'[i] = leds[i]
      /\ givenBack(pair) =>
           leds'[led].id = SENTINEL_MARKED_MISIDENTIFIED /\ m_numBeacons < Len(Patterns)
      /\ ledRefs_' = ledRefs_ \ {led}
      /\ measRefs_' = (IF givenBack(pair) THEN measRefs_ ELSE measRefs_ \ {meas})
      /\ measurements' = measurements /\ m_numBeacons' = m_numBeacons
      /\ measRefs_ \subseteq DOMAIN measurements
  BY MatchStep, PairType DEF StructInv, configured, TypeOK
<1> HIDE DEF led, meas
<1>2. settled' = settled \cup {led} /\ led \notin settled /\ settled \subseteq DOMAIN leds
  BY <1>1 DEF settled
<1>3. \A i \in settled : leds'[i] = leds[i]
  BY <1>1, <1>2
<1>4. ASSUME NEW m \in DOMAIN measurements
      PROVE  /\ \A i \in settled : i \in followers(m)' <=> i \in followers(m)
             /\ led \in followers(m)' <=> m = meas
  <2>1. \A i \in settled : i \in followers(m)' <=> i \in followers(m)
    BY <1>1, <1>2, <1>3 DEF followers
  <2>2. led \in followers(m)' <=> measurements[meas] = measurements[m]
    BY <1>1 DEF followers
  <2>3. measurements[meas] = measurements[m] <=> m = meas
    BY <1>1 DEF FollowInv
  <2> QED BY <2>1, <2>2, <2>3
<1>5. ASSUME NEW i \in settled'
      PROVE  \E m \in DOMAIN measurements' : i \in followers(m)'
  <2>1. CASE i \in settled
    <3>1. PICK m \in DOMAIN measurements : i \in followers(m)
      BY <2>1 DEF FollowInv
    <3> QED BY <1>1, <1>4, <2>1, <3>1
  <2>2. CASE i = led
    BY <1>1, <1>4, <2>2
  <2> QED BY <1>2, <2>1, <2>2
<1>6. ASSUME NEW m \in DOMAIN measurements' \ measRefs_'
      PROVE  followers(m)' \cap settled' # {}
  <2>1. CASE m = meas
    BY <1>1, <1>2, <1>4, <2>1
  <2>2. CASE m # meas
    <3>1. m \in DOMAIN measurements \ measRefs_
      BY <1>1, <2>2
    <3>2. PICK i \in settled : i \in followers(m)
      BY <3>1 DEF FollowInv
    <3> QED BY <1>2, <1>4, <3>1, <3>2
  <2> QED BY <2>1, <2>2
<1>7. ASSUME NEW m \in DOMAIN measurements', NEW i \in followers(m)' \cap settled',
             NEW j \in followers(m)' \cap settled', i # j
      PROVE  /\ (m_numBeacons < Len(Patterns))'
             /\ SENTINEL_MARKED_MISIDENTIFIED \in {leds'[i].id, leds'[j].id}
  <2>1. CASE i \in settled /\ j \in settled
    <3>1. i \in followers(m) \cap settled /\ j \in followers(m) \cap settled
      BY <1>1, <1>4, <2>1
    <3>2. /\ m_numBeacons < Len(Patterns)
          /\ SENTINEL_MARKED_MISIDENTIFIED \in {leds[i].id, leds[j].id}
      BY <1>1, <1>7, <3>1 DEF FollowInv
    <3> QED BY <1>1, <1>3, <2>1, <3>2
  <2>2. ASSUME NEW k \in settled, k \in followers(m)', m = meas
        PROVE  /\ (m_numBeacons < Len(Patterns))'
               /\ leds'[k].id = SENTINEL_MARKED_MISIDENTIFIED
    <3>1. m \in measRefs_ /\ k \in followers(m) \cap settled
      BY <1>1, <1>4, <2>2
    <3>2. m_numBeacons < Len(Patterns) /\ leds[k].id = SENTINEL_MARKED_MISIDENTIFIED
      BY <3>1 DEF FollowInv
    <3> QED BY <1>1, <1>3, <3>2
  <2>3. CASE i = led
    <3>1. m = meas /\ j \in settled
      BY <1>1, <1>2, <1>4, <1>7, <2>3
    <3> QED BY <2>2, <3>1
  <2>4. CASE j = led
    <3>1. m = meas /\ i \in settled
      BY <1>1, <1>2, <1>4, <1>7, <2>4
    <3> QED BY <2>2, <3>1
  <2> QED BY <1>2, <2>1, <2>3, <2>4
<1>8. ASSUME NEW m \in measRefs_', NEW i \in followers(m)' \cap settled'
      PROVE  /\ (m_numBeacons < Len(Patterns))'
             /\ leds'[i].id = SENTINEL_MARKED_MISIDENTIFIED
  <2>1. m \in measRefs_ /\ m \in DOMAIN measurements
    BY <1>1
  <2>2. CASE i \in settled
    <3>1. i \in followers(m) \cap settled
      BY <1>4, <2>1, <2>2
    <3>2. m_numBeacons < Len(Patterns) /\ leds[i].id = SENTINEL_MARKED_MISIDENTIFIED
      BY <2>1, <3>1 DEF FollowInv
    <3> QED BY <1>1, <1>3, <2>2, <3>2
  <2>3. CASE i = led
    <3>1. m = meas
      BY <1>4, <2>1, <2>3
    <3>2. givenBack(pair)
      BY <1>1, <3>1
    <3> QED BY <1>1, <2>3, <3>2
  <2> QED BY <1>2, <2>2, <2>3
<1>9. \A m, n \in DOMAIN measurements' : measurements'[m] = measurements'[n] => m = n
  BY <1>1 DEF FollowInv
<1> QED BY <1>5, <1>6, <1>7, <1>8, <1>9 DEF FollowInv

LEMMA FollowFinish ==
  ASSUME StructInv, FollowInv, Finish
  PROVE  FollowInv'
<1> DEFINE n == Cardinality(settled)
           all == n + Cardinality(measRefs_)
           kept(i) == indices(settled)[i]
           fresh(i) == indices(measRefs_)[i - n]
<1>1. /\ leds' = claimedLeds \o newLeds /\ ledRefs_' = {} /\ measRefs_' = {}
      /\ measurements' = measurements /\ m_numBeacons' = m_numBeacons
  BY FinishStep DEF StructInv, configured
<1>2. /\ n \in Nat /\ all \in Nat /\ n <= all /\ DOMAIN leds' = 1..all
      /\ \A i \in 1..n : kept(i) \in settled /\ leds'[i] = leds[kept(i)]
      /\ \A i \in (n + 1)..all :
           fresh(i) \in measRefs_ /\ leds'[i] = newLed(measurements[fresh(i)])
      /\ \A i, j \in 1..n : kept(i) = kept(j) => i = j
      /\ \A i, j \in (n + 1)..all : fresh(i) = fresh(j) => i = j
      /\ \A k \in settled : \E i \in 1..n : leds'[i] = leds[k]
      /\ \A m \in measRefs_ : \E i \in (n + 1)..all : leds'[i] = newLed(measurements[m])
  BY <1>1, FinishedLeds DEF StructInv
<1> HIDE DEF n, all, kept, fresh
<1>3. /\ settled' = 1..all /\ 1..n \subseteq 1..all /\ (n + 1)..all \subseteq 1..all
      /\ \A i \in 1..all : i \in 1..n \/ i \in (n + 1)..all
  <2>1. settled' = 1..all
    BY <1>1, <1>2 DEF settled
  <2> QED BY <1>2, <2>1
<1>4. ASSUME NEW m \in measRefs_
      PROVE  m \in DOMAIN measurements /\ newLed(measurements[m]).m_latestMeasurement = measurements[m]
  <2>1. m \in DOMAIN measurements /\ measurements[m] \in Measurements
    BY DEF StructInv, TypeOK
  <2> QED BY <2>1, NewLedMade
<1>5. ASSUME NEW m \in DOMAIN measurements, NEW i \in 1..n
      PROVE  i \in followers(m)' <=> kept(i) \in followers(m)
  BY <1>1, <1>2, <1>3 DEF followers, settled
<1>6. ASSUME NEW m \in DOMAIN measurements, NEW i \in (n + 1)..all
      PROVE  i \in followers(m)' <=> fresh(i) = m
  <2>1. i \in followers(m)' <=> measurements[fresh(i)] = measurements[m]
    BY <1>1, <1>2, <1>3, <1>4 DEF followers
  <2> QED BY <1>2, <1>4, <2>1 DEF FollowInv
<1>7. ASSUME NEW i \in settled'
      PROVE  \E m \in DOMAIN measurements' : i \in followers(m)'
  <2>1. CASE i \in 1..n
    <3>1. PICK m \in DOMAIN measurements : kept(i) \in followers(m)
      BY <1>2, <2>1 DEF FollowInv
    <3> QED BY <1>1, <1>5, <2>1, <3>1
  <2>2. CASE i \in (n + 1)..all
    BY <1>1, <1>2, <1>4, <1>6, <2>2
  <2> QED BY <1>3, <2>1, <2>2
<1>8. ASSUME NEW m \in DOMAIN measurements' PROVE followers(m)' \cap settled' # {}
  <2>1. CASE m \in measRefs_
    <3>1. PICK i \in (n + 1)..all : leds'[i] = newLed(measurements[m])
      BY <1>2, <2>1
    <3>2. i \in followers(m)'
      BY <1>1, <1>2, <1>3, <1>4, <2>1, <3>1 DEF followers
    <3> QED BY <1>3, <3>2
  <2>2. CASE m \notin measRefs_
    <3>1. PICK k \in settled : k \in followers(m)
      BY <1>1, <2>2 DEF FollowInv
    <3>2. PICK i \in 1..n : leds'[i] = leds[k]
      BY <1>2, <3>1
    <3>3. i \in followers(m)'
      BY <1>1, <1>2, <1>3, <3>1, <3>2 DEF followers
    <3> QED BY <1>3, <3>3
  <2> QED BY <2>1, <2>2
<1>9. ASSUME NEW m \in DOMAIN measurements', NEW i \in followers(m)' \cap settled',
             NEW j \in followers(m)' \cap settled', i # j
      PROVE  /\ (m_numBeacons < Len(Patterns))'
             /\ SENTINEL_MARKED_MISIDENTIFIED \in {leds'[i].id, leds'[j].id}
  <2>1. CASE i \in 1..n /\ j \in 1..n
    <3>1. /\ kept(i) # kept(j) /\ kept(i) \in followers(m) \cap settled
          /\ kept(j) \in followers(m) \cap settled
      BY <1>1, <1>2, <1>5, <1>9, <2>1
    <3>2. /\ m_numBeacons < Len(Patterns)
          /\ SENTINEL_MARKED_MISIDENTIFIED \in {leds[kept(i)].id, leds[kept(j)].id}
      BY <1>1, <3>1 DEF FollowInv
    <3> QED BY <1>1, <1>2, <2>1, <3>2
  <2>2. ASSUME NEW k \in 1..n, k \in followers(m)', NEW other \in (n + 1)..all,
               other \in followers(m)'
        PROVE  /\ (m_numBeacons < Len(Patterns))'
               /\ leds'[k].id = SENTINEL_MARKED_MISIDENTIFIED
    <3>1. m \in measRefs_ /\ kept(k) \in followers(m) \cap settled
      BY <1>1, <1>2, <1>5, <1>6, <2>2
    <3>2. m_numBeacons < Len(Patterns) /\ leds[kept(k)].id = SENTINEL_MARKED_MISIDENTIFIED
      BY <3>1 DEF FollowInv
    <3> QED BY <1>1, <1>2, <3>2
  <2>3. CASE i \in (n + 1)..all /\ j \in (n + 1)..all
    BY <1>1, <1>2, <1>6, <1>9, <2>3
  <2> QED BY <1>3, <1>9, <2>1, <2>2, <2>3
<1>10. \A m, k \in DOMAIN measurements' : measurements'[m] = measurements'[k] => m = k
  BY <1>1 DEF FollowInv
<1> QED BY <1>1, <1>7, <1>8, <1>9, <1>10 DEF FollowInv

LEMMA FollowRefute ==
  ASSUME StructInv, FollowInv, NEW i \in usableLeds, Refute(i)
  PROVE  FollowInv'
<1>1. /\ DOMAIN leds' = DOMAIN leds /\ ~ assigning
      /\ \A j \in DOMAIN leds :
           /\ leds'[j].m_latestMeasurement = leds[j].m_latestMeasurement
           /\ leds'[j].id \in {leds[j].id, SENTINEL_MARKED_MISIDENTIFIED}
      /\ UNCHANGED <<measurements, ledRefs_, measRefs_, m_numBeacons>>
  <2>1. /\ i \in DOMAIN leds /\ ~ assigning /\ DOMAIN leds' = DOMAIN leds
        /\ leds'[i] = markMisidentified(leds[i]) /\ leds[i] \in Leds
        /\ \A j \in DOMAIN leds : j # i => leds'[j] = leds[j]
        /\ UNCHANGED <<measurements, ledRefs_, measRefs_, m_numBeacons>>
    BY RefuteStep DEF StructInv, configured, assignment
  <2>2. /\ leds'[i].m_latestMeasurement = leds[i].m_latestMeasurement
        /\ leds'[i].id = SENTINEL_MARKED_MISIDENTIFIED
    BY <2>1, Misidentified
  <2> QED BY <2>1, <2>2
<1>2. settled' = settled /\ settled \subseteq DOMAIN leds /\ measRefs_ = {}
  BY <1>1 DEF settled, StructInv, CountInv
<1>3. ASSUME NEW m \in DOMAIN measurements PROVE followers(m)' = followers(m)
  BY <1>1 DEF followers
<1>4. ASSUME NEW m \in DOMAIN measurements, NEW j \in followers(m) \cap settled,
             NEW k \in followers(m) \cap settled, j # k
      PROVE  /\ m_numBeacons < Len(Patterns)
             /\ SENTINEL_MARKED_MISIDENTIFIED \in {leds'[j].id, leds'[k].id}
  <2>1. /\ m_numBeacons < Len(Patterns)
        /\ SENTINEL_MARKED_MISIDENTIFIED \in {leds[j].id, leds[k].id}
    BY <1>4 DEF FollowInv
  <2> QED BY <1>1, <1>2, <2>1
<1>5. /\ \A m, n \in DOMAIN measurements' : measurements'[m] = measurements'[n] => m = n
      /\ \A j \in settled' : \E m \in DOMAIN measurements' : j \in followers(m)'
      /\ \A m \in DOMAIN measurements' \ measRefs_' : followers(m)' \cap settled' # {}
  BY <1>1, <1>2, <1>3 DEF FollowInv
<1> QED BY <1>1, <1>2, <1>3, <1>4, <1>5 DEF FollowInv

LEMMA FollowStep ==
  ASSUME StructInv, FollowInv, [Next]_vars
  PROVE  FollowInv'
<1>1. CASE Next
  BY <1>1, NextSteps, FollowImage, FollowMatch, FollowFinish, FollowRefute
<1>2. CASE UNCHANGED vars
  <2>1. UNCHANGED <<leds, measurements, m_numBeacons, ledRefs_, measRefs_>>
    BY <1>2 DEF vars, configured, assignment
  <2> QED BY <2>1 DEF FollowInv, settled, followers
<1> QED BY <1>1, <1>2

LEMMA FollowInit == Init => FollowInv
BY DEF Init, FollowInv, settled, followers


-----------------------------------------------------------------------------
(***************************************************************************)
(* Beacons recognized                                                      *)
(***************************************************************************)

LEMMA Modulo ==
  ASSUME NEW d \in Nat \ {0}, NEW x \in (0 - d)..(2 * d - 1)
  PROVE  x % d = IF x < 0 THEN x + d ELSE IF x < d THEN x ELSE x - d
<1>1. CASE x \in (0 - d)..(0 - 1)
  BY <1>1
<1>2. CASE x \in 0..d - 1
  BY <1>2
<1>3. CASE x \in d..(2 * d - 1)
  BY <1>3
<1> QED BY <1>1, <1>2, <1>3

\* The entry i of a whole pattern seen until time when is the bit at that time
\* in the pattern, which is a rotation of it and meets every bit.
phase(when, i) == (when - (d_length - i)) % d_length

LEMMA PhaseRotates ==
  ASSUME NEW when \in 0..d_length - 1
  PROVE  /\ \A i \in 1..d_length : phase(when, i) \in 0..d_length - 1
         /\ \E shift \in 0..d_length - 1 : \A i \in 1..d_length :
              ((i + shift - 1) % d_length) + 1 = phase(when, i) + 1
         /\ \A p \in 1..d_length : \E i \in 1..d_length : phase(when, i) + 1 = p
<1> DEFINE d == d_length
<1>1. d \in Nat \ {0}
  BY PatternLength
<1> HIDE DEF d
<1>2. when \in 0..d - 1
  BY DEF d
<1>3. ASSUME NEW i \in 1..d
      PROVE  phase(when, i) = IF when + i < d THEN when + i ELSE when + i - d
  <2>1. when - (d - i) \in (0 - d)..(2 * d - 1) /\ i \in Int /\ when \in Int
    BY <1>1, <1>2
  <2>2. phase(when, i) =
          IF when - (d - i) < 0 THEN when - (d - i) + d
          ELSE IF when - (d - i) < d THEN when - (d - i) ELSE when - (d - i) - d
    BY <1>1, <2>1, Modulo DEF phase, d
  <2> QED BY <1>1, <1>2, <2>1, <2>2
<1>4. ASSUME NEW i \in 1..d PROVE phase(when, i) \in 0..d - 1
  BY <1>1, <1>2, <1>3
<1>5. ASSUME NEW p \in 1..d PROVE \E i \in 1..d : phase(when, i) + 1 = p
  <2> DEFINE i == IF p - 1 - when > 0 THEN p - 1 - when ELSE p - 1 - when + d
  <2>1. /\ i \in 1..d
        /\ IF when + i < d THEN when + i = p - 1 ELSE when + i - d = p - 1
    BY <1>1, <1>2
  <2> HIDE DEF i
  <2>2. phase(when, i) = p - 1
    BY <1>3, <2>1
  <2>3. phase(when, i) + 1 = p
    BY <1>1, <2>2
  <2> QED BY <2>1, <2>3
<1> DEFINE shift == IF when + 1 < d THEN when + 1 ELSE 0
<1>6. shift \in 0..d - 1
  BY <1>1, <1>2
<1>7. ASSUME NEW i \in 1..d PROVE ((i + shift - 1) % d) + 1 = phase(when, i) + 1
  <2> DEFINE x == i + shift - 1
  <2>1. /\ x \in (0 - d)..(2 * d - 1)
        /\ x = IF when + 1 < d THEN when + i ELSE i - 1
        /\ when + 1 < d \/ when = d - 1
    BY <1>1, <1>2
  <2> HIDE DEF x
  <2>2. x % d = IF x < 0 THEN x + d ELSE IF x < d THEN x ELSE x - d
    BY <1>1, <2>1, Modulo
  <2>3. x % d = IF when + i < d THEN when + i ELSE when + i - d
    <3>1. when \in Int /\ i \in Int /\ when >= 0 /\ i >= 1 /\ i <= d
      BY <1>1, <1>2
    <3>2. CASE when + 1 < d
      BY <1>1, <2>1, <2>2, <3>1, <3>2
    <3>3. CASE ~ (when + 1 < d)
      BY <1>1, <2>1, <2>2, <3>1, <3>3
    <3> QED BY <3>2, <3>3
  <2>4. x % d = phase(when, i)
    BY <1>3, <2>3
  <2> QED BY <2>4 DEF x
<1> QED BY <1>4, <1>5, <1>6, <1>7 DEF d

\* A whole pattern of a beacon seen is read as its pattern and as no other.
LEMMA BeaconRead ==
  ASSUME NEW beacon \in enabledBeacons, NEW when \in 0..d_length - 1,
         NEW recent \in Seq(Brightnesses), Len(recent) = d_length,
         \A i \in 1..d_length : recent[i] \in shining(beacon, phase(when, i))
  PROVE  /\ Max(ToSet(recent)) - Min(ToSet(recent)) > TODO_MIN_BRIGHTNESS_DIFF
         /\ matching(bitsOf(recent)) = {beacon}
<1> DEFINE bit(i) == Patterns[beacon][phase(when, i) + 1]
           low == Min(ToSet(recent))
           high == Max(ToSet(recent))
<1>1. /\ d_length \in Nat \ {0} /\ Patterns[beacon] \in [1..d_length -> {0, 1}]
      /\ beacon # LIGHT /\ DOMAIN recent = 1..d_length
  <2>1. beacon # LIGHT
    BY PatternLength DEF enabledBeacons, LIGHT
  <2> QED BY <2>1, PatternLength, LenProperties
<1>2. ASSUME NEW i \in 1..d_length
      PROVE  /\ bit(i) \in {0, 1} /\ recent[i] = IF bit(i) = 1 THEN Bright ELSE Dim
  <2>1. phase(when, i) + 1 \in 1..d_length
    <3>1. phase(when, i) \in 0..d_length - 1
      BY PhaseRotates
    <3> QED BY <1>1, <3>1
  <2>2. recent[i] = IF bit(i) = 1 THEN Bright ELSE Dim
    BY <1>1 DEF shining
  <2> QED BY <1>1, <2>1, <2>2
<1>3. /\ Dim \in Nat /\ Bright \in Nat /\ TODO_MIN_BRIGHTNESS_DIFF \in Nat
      /\ Bright - Dim > TODO_MIN_BRIGHTNESS_DIFF
  BY SceneAssumption, PatternAssumption
<1>4. ASSUME NEW level \in {0, 1} PROVE \E i \in 1..d_length : bit(i) = level
  <2>1. PICK p \in 1..d_length : Patterns[beacon][p] = level
    <3>1. level \in ToSet(Patterns[beacon])
      BY CodeAssumption
    <3> QED BY <1>1, <3>1 DEF ToSet
  <2>2. PICK i \in 1..d_length : phase(when, i) + 1 = p
    BY PhaseRotates
  <2> QED BY <2>1, <2>2
<1>5. low = Dim /\ high = Bright
  <2>1. /\ low \in Dim..Bright /\ high \in Dim..Bright
        /\ \A i \in 1..d_length : low <= recent[i] /\ recent[i] <= high
    <3>1. recent # <<>>
      BY <1>1, EmptySeq
    <3> QED BY <1>1, <3>1, ListExtremes
  <2>2. PICK i \in 1..d_length : bit(i) = 1
    BY <1>4
  <2>3. PICK j \in 1..d_length : bit(j) = 0
    BY <1>4
  <2>4. recent[i] = Bright /\ recent[j] = Dim
    BY <1>2, <2>2, <2>3
  <2>5. Bright <= high /\ low <= Dim
    BY <2>1, <2>4
  <2> HIDE DEF low, high
  <2> QED BY <1>3, <2>1, <2>5
<1> DEFINE bits == bitsOf(recent)
<1>6. bits = [i \in 1..d_length |-> IF 2 * recent[i] >= low + high THEN 1 ELSE 0]
  BY <1>1 DEF bitsOf
<1> HIDE DEF low, high, bits
<1>7. ASSUME NEW i \in 1..d_length PROVE bits[i] = bit(i)
  <2>1. CASE bit(i) = 1
    <3>1. recent[i] = Bright
      BY <1>2, <2>1
    <3> QED BY <1>3, <1>5, <1>6, <2>1, <3>1
  <2>2. CASE bit(i) = 0
    <3>1. recent[i] = Dim
      BY <1>2, <2>2
    <3> QED BY <1>3, <1>5, <1>6, <2>2, <3>1
  <2> QED BY <1>2, <2>1, <2>2
<1>8. bits \in [1..d_length -> {0, 1}]
  BY <1>6
<1>9. beacon \in matching(bits)
  <2>1. PICK shift \in 0..d_length - 1 : \A i \in 1..d_length :
          ((i + shift - 1) % d_length) + 1 = phase(when, i) + 1
    BY PhaseRotates
  <2>2. isRotation(bits, Patterns[beacon])
    BY <1>7, <2>1 DEF isRotation
  <2> QED BY <2>2 DEF matching
<1>10. matching(bits) = {beacon}
  BY <1>8, <1>9, CodeAssumption
<1> QED BY <1>3, <1>5, <1>10 DEF low, high, bits

\* A light that is no beacon varies too little to be read.
LEMMA LightRead ==
  ASSUME NEW when, NEW recent \in Seq(Brightnesses), Len(recent) = d_length,
         \A i \in 1..d_length : recent[i] \in shining(LIGHT, phase(when, i))
  PROVE  Max(ToSet(recent)) - Min(ToSet(recent)) <= TODO_MIN_BRIGHTNESS_DIFF
<1>1. d_length \in Nat \ {0} /\ DOMAIN recent = 1..d_length
  BY PatternLength, LenProperties
<1>2. \A x \in ToSet(recent) : x \in Dim..Dim + TODO_MIN_BRIGHTNESS_DIFF
  BY <1>1 DEF ToSet, shining
<1>3. Min(ToSet(recent)) \in ToSet(recent) /\ Max(ToSet(recent)) \in ToSet(recent)
  <2>1. recent # <<>>
    BY <1>1, EmptySeq
  <2> QED BY <2>1, ListExtremes
<1>4. Dim \in Nat /\ TODO_MIN_BRIGHTNESS_DIFF \in Nat
  BY SceneAssumption, PatternAssumption
<1> DEFINE low == Min(ToSet(recent))
           high == Max(ToSet(recent))
<1>5. low \in Dim..Dim + TODO_MIN_BRIGHTNESS_DIFF /\ high \in Dim..Dim + TODO_MIN_BRIGHTNESS_DIFF
  BY <1>2, <1>3
<1> HIDE DEF low, high
<1>6. high - low <= TODO_MIN_BRIGHTNESS_DIFF
  BY <1>4, <1>5
<1> QED BY <1>6 DEF low, high

\* What a measurement of its own source makes of an LED that remembers it.
LEMMA SourceMeasured ==
  ASSUME NEW led \in Leds, NEW meas \in Measurements, NEW keep \in BOOLEAN,
         NEW when \in 0..d_length - 1,
         led.evidence = Len(led.m_brightnessHistory), led.evidence <= d_length,
         led.m_latestMeasurement.of = meas.of, meas.of \in enabledBeacons \cup {LIGHT},
         remembersSource(led, when - 1), meas.brightness \in shining(meas.of, when),
         identified(led) => led.id = meas.of
  PROVE  LET updated == addMeasurement(led, meas, keep) IN
         /\ remembersSource(updated, when)
         /\ identified(updated) => updated.id = meas.of
         /\ updated.evidence = d_length /\ meas.of # LIGHT => identified(updated)
<1> DEFINE h == led.m_brightnessHistory
           a == Append(h, meas.brightness)
           t == truncateBrightnessListTo(a, d_length)
           got == getId(led.id, a, keep)
           updated == addMeasurement(led, meas, keep)
<1>1. /\ h \in Seq(Brightnesses) /\ meas.brightness \in Brightnesses /\ led.id \in IDs
      /\ d_length \in Nat \ {0} /\ Len(h) \in Nat /\ Len(h) <= d_length /\ DOMAIN h = 1..Len(h)
  BY PatternLength DEF Leds, Measurements
<1>2. a \in Seq(Brightnesses) /\ Len(a) = Len(h) + 1
  BY <1>1, AppendProperties
<1>3. /\ t \in Seq(Brightnesses) /\ DOMAIN t = 1..Len(t)
      /\ Len(t) = IF Len(h) < d_length THEN Len(h) + 1 ELSE d_length
      /\ t[Len(t)] = meas.brightness
      /\ \A i \in 1..Len(t) : i # Len(t) =>
           /\ i + (Len(h) + 1 - Len(t)) \in DOMAIN h
           /\ t[i] = h[i + (Len(h) + 1 - Len(t))]
  BY <1>1, HistoryGrows
<1>4. /\ updated.m_latestMeasurement = meas /\ updated.m_brightnessHistory = t
      /\ updated.id = withSticky(led.id, got) /\ updated.evidence = Len(t)
  <2>1. updated.evidence = Len(updated.m_brightnessHistory)
    BY MeasurementAdded
  <2>2. /\ updated.m_latestMeasurement = meas /\ updated.m_brightnessHistory = t
        /\ updated.id = withSticky(led.id, got)
    BY DEF addMeasurement
  <2> QED BY <2>1, <2>2
<1> HIDE DEF h, a, t, got, updated
<1>5. ASSUME NEW i \in 1..Len(t)
      PROVE  t[i] \in shining(meas.of, (when - (Len(t) - i)) % d_length)
  <2>1. CASE i = Len(t)
    <3>1. when - (Len(t) - i) = when /\ when % d_length = when
      BY <1>1, <1>3, <2>1
    <3> QED BY <1>3, <2>1, <3>1
  <2>2. CASE i # Len(t)
    <3> DEFINE j == i + (Len(h) + 1 - Len(t))
    <3>1. j \in DOMAIN h /\ t[i] = h[j]
      BY <1>3, <2>2
    <3>2. when - 1 - (Len(h) - j) = when - (Len(t) - i)
      BY <1>1, <1>3
    <3> HIDE DEF j
    <3>3. h[j] \in shining(meas.of, (when - 1 - (Len(h) - j)) % d_length)
      BY <3>1 DEF remembersSource, h
    <3> QED BY <3>1, <3>2, <3>3
  <2> QED BY <2>1, <2>2
<1>6. remembersSource(updated, when)
  BY <1>3, <1>4, <1>5 DEF remembersSource
<1>7. CASE Len(a) < d_length
  <2>1. got = SENTINEL_INSUFFICIENT_DATA
    BY <1>7 DEF getId, got
  <2>2. ~ identified(updated)
    BY <1>4, <2>1 DEF identified, withSticky, SENTINEL_INSUFFICIENT_DATA,
                      SENTINEL_MARKED_MISIDENTIFIED, SENTINEL_NO_PATTERN_RECOGNIZED
  <2>3. Len(t) # d_length
    BY <1>1, <1>2, <1>3, <1>7
  <2> QED BY <1>4, <1>6, <2>2, <2>3 DEF updated
<1>8. CASE ~ (Len(a) < d_length)
  <2>1. Len(t) = d_length
    BY <1>1, <1>2, <1>3, <1>8
  <2>2. \A i \in 1..d_length : t[i] \in shining(meas.of, phase(when, i))
    BY <1>5, <2>1 DEF phase
  <2>3. got = IF Max(ToSet(t)) - Min(ToSet(t)) <= TODO_MIN_BRIGHTNESS_DIFF
                THEN SENTINEL_INSUFFICIENT_EXTREMA_DIFFERENCE
              ELSE IF keep /\ led.id > 0 THEN led.id
              ELSE IF matching(bitsOf(t)) = {} THEN SENTINEL_NO_PATTERN_RECOGNIZED
              ELSE Min(matching(bitsOf(t)))
    BY <1>8 DEF getId, got, t
  <2>4. CASE meas.of = LIGHT
    <3>1. Max(ToSet(t)) - Min(ToSet(t)) <= TODO_MIN_BRIGHTNESS_DIFF
      BY <1>3, <2>1, <2>2, <2>4, LightRead
    <3>2. got = SENTINEL_INSUFFICIENT_EXTREMA_DIFFERENCE
      BY <2>3, <3>1
    <3>3. ~ identified(updated)
      BY <1>4, <3>2 DEF identified, withSticky, SENTINEL_INSUFFICIENT_EXTREMA_DIFFERENCE,
                        SENTINEL_INSUFFICIENT_DATA, SENTINEL_MARKED_MISIDENTIFIED,
                        SENTINEL_NO_PATTERN_RECOGNIZED
    <3> QED BY <1>6, <2>4, <3>3 DEF updated
  <2>5. CASE meas.of \in enabledBeacons
    <3>1. /\ Max(ToSet(t)) - Min(ToSet(t)) > TODO_MIN_BRIGHTNESS_DIFF
          /\ matching(bitsOf(t)) = {meas.of}
      BY <1>3, <2>1, <2>2, <2>5, BeaconRead
    <3>2. meas.of \in 1..Len(Patterns) /\ Len(Patterns) \in Nat
      BY <2>5, PatternLength DEF enabledBeacons
    <3>3. Min({meas.of}) = meas.of
      BY <3>2, MinOfTwo
    <3>4. ~ (Max(ToSet(t)) - Min(ToSet(t)) <= TODO_MIN_BRIGHTNESS_DIFF)
      <4> DEFINE low == Min(ToSet(t))
                 high == Max(ToSet(t))
      <4>1. low \in Int /\ high \in Int /\ TODO_MIN_BRIGHTNESS_DIFF \in Nat
        <5>1. t # <<>>
          BY <1>1, <2>1, EmptySeq
        <5>2. low \in Dim..Bright /\ high \in Dim..Bright
          BY <1>3, <5>1, ListExtremes
        <5> QED BY <5>2, PatternAssumption
      <4>2. high - low > TODO_MIN_BRIGHTNESS_DIFF
        BY <3>1
      <4> HIDE DEF low, high
      <4>3. ~ (high - low <= TODO_MIN_BRIGHTNESS_DIFF)
        BY <4>1, <4>2
      <4> QED BY <4>3 DEF low, high
    <3>5. got = meas.of
      <4>1. led.id > 0 => led.id = meas.of
        BY DEF identified
      <4>2. matching(bitsOf(t)) # {} /\ Min(matching(bitsOf(t))) = meas.of
        BY <3>1, <3>3
      <4> QED BY <2>3, <3>4, <4>1, <4>2
    <3>6. updated.id = meas.of
      BY <1>4, <3>2, <3>5 DEF withSticky, SENTINEL_INSUFFICIENT_DATA,
                              SENTINEL_NO_PATTERN_RECOGNIZED
    <3>7. identified(updated)
      BY <3>2, <3>6 DEF identified
    <3> QED BY <1>6, <3>6, <3>7 DEF updated
  <2> QED BY <2>4, <2>5
<1> QED BY <1>7, <1>8

-----------------------------------------------------------------------------
(***************************************************************************)
(* Calm scenes                                                             *)
(***************************************************************************)

\* What an LED remembers up to now it remembers, at the next image, up to the
\* time before.
LEMMA TimePasses ==
  ASSUME NEW led \in Leds, Len(led.m_brightnessHistory) <= d_length,
         NEW when \in 0..d_length - 1, NEW next, next = (when + 1) % d_length,
         remembersSource(led, when)
  PROVE  remembersSource(led, next - 1)
<1> DEFINE h == led.m_brightnessHistory
           d == d_length
<1>1. /\ d \in Nat \ {0} /\ Len(h) \in Nat /\ Len(h) <= d /\ DOMAIN h = 1..Len(h)
      /\ when \in 0..d - 1 /\ next = (when + 1) % d
  BY PatternLength DEF Leds
<1> HIDE DEF h, d
<1>2. CASE when + 1 < d
  <2>1. when + 1 \in (0 - d)..(2 * d - 1) /\ ~ (when + 1 < 0)
    BY <1>1, <1>2
  <2>2. next = when + 1
    BY <1>1, <1>2, <2>1, Modulo
  <2>3. next - 1 = when
    BY <1>1, <2>2
  <2> QED BY <2>3
<1>3. CASE ~ (when + 1 < d)
  <2>1. when = d - 1 /\ when + 1 = d
    BY <1>1, <1>3
  <2>2. next = 0
    BY <1>1, <2>1
  <2>3. ASSUME NEW i \in 1..Len(h)
        PROVE  (when - (Len(h) - i)) % d = (next - 1 - (Len(h) - i)) % d
    <3> DEFINE x == when - (Len(h) - i)
               y == next - 1 - (Len(h) - i)
    <3>1. x \in 0..d - 1 /\ y \in (0 - d)..(0 - 1) /\ y + d = x
      BY <1>1, <2>1, <2>2
    <3> HIDE DEF x, y
    <3>2. x % d = x
      BY <1>1, <3>1
    <3>3. y % d = y + d
      <4>1. y \in (0 - d)..(2 * d - 1) /\ y < 0
        BY <1>1, <3>1
      <4> QED BY <1>1, <4>1, Modulo
    <3>4. x % d = y % d
      BY <3>1, <3>2, <3>3
    <3> QED BY <3>4 DEF x, y
  <2> QED BY <1>1, <2>3 DEF remembersSource, h, d
<1> QED BY <1>2, <1>3

\* What is refuted remembers its latest measurement.
LEMMA MarkedFollows ==
  ASSUME NEW led \in Leds, NEW when \in 0..d_length - 1,
         led.m_latestMeasurement.of \in enabledBeacons \cup {LIGHT},
         led.m_latestMeasurement.brightness \in shining(led.m_latestMeasurement.of, when)
  PROVE  followsSource(markMisidentified(led), when)
<1> DEFINE marked == markMisidentified(led)
           latest == led.m_latestMeasurement
<1>1. /\ marked.m_latestMeasurement = latest
      /\ marked.m_brightnessHistory = <<latest.brightness>>
      /\ marked.evidence = 1 /\ ~ identified(marked)
  BY Misidentified
<1> HIDE DEF marked
<1>2. when % d_length = when /\ when - (1 - 1) = when
  <2>1. d_length \in Nat \ {0}
    BY PatternLength
  <2> QED BY <2>1
<1>3. remembersSource(marked, when)
  <2> DEFINE h == <<latest.brightness>>
  <2>1. Len(h) = 1 /\ DOMAIN h = {1} /\ h[1] = latest.brightness
    OBVIOUS
  <2> HIDE DEF h
  <2>2. \A i \in DOMAIN h : h[i] \in shining(latest.of, (when - (Len(h) - i)) % d_length)
    BY <1>2, <2>1
  <2> QED BY <1>1, <2>2 DEF remembersSource, h
<1>4. ASSUME latest.of # LIGHT PROVE d_length # 1
  <2>1. latest.of \in enabledBeacons
    BY <1>4
  <2>2. Patterns[latest.of] \in [1..d_length -> {0, 1}] /\ ToSet(Patterns[latest.of]) = {0, 1}
    BY <2>1, PatternLength, CodeAssumption
  <2>3. ASSUME d_length = 1 PROVE FALSE
    <3>1. ToSet(Patterns[latest.of]) = {Patterns[latest.of][1]}
      BY <2>2, <2>3 DEF ToSet
    <3>2. 0 \in ToSet(Patterns[latest.of]) /\ 1 \in ToSet(Patterns[latest.of])
      BY <2>2
    <3> QED BY <3>1, <3>2
  <2> QED BY <2>3
<1> QED BY <1>1, <1>3, <1>4 DEF followsSource, marked

\* Sources that keep their distance and move slowly are not mistaken.
LEMMA SameSource ==
  ASSUME NEW at \in CalmScenes, NEW newPlaces \in CalmScenes,
         DOMAIN newPlaces = DOMAIN at,
         \A s \in DOMAIN at : gap(newPlaces[s], at[s]) <= MaxMove,
         NEW s \in DOMAIN at, NEW t \in DOMAIN at, NEW brightness \in Brightnesses,
         gap(at[s], newPlaces[t]) < blobMoveThreshold * brightness
  PROVE  s = t
<1>1. /\ newPlaces[s] \in Int /\ newPlaces[t] \in Int /\ at[s] \in Int
      /\ MaxMove \in Nat /\ blobMoveThreshold \in Nat
      /\ brightness \in Nat /\ Bright \in Nat /\ brightness <= Bright
  BY SceneAssumption, TargetAssumption, BrightnessType
<1>2. gap(newPlaces[s], at[s]) <= MaxMove
  OBVIOUS
<1>3. s # t => gap(newPlaces[s], newPlaces[t]) >= blobMoveThreshold * Bright + MaxMove
  BY SceneAssumption
<1> DEFINE reach == blobMoveThreshold * brightness
           far == blobMoveThreshold * Bright
<1>4. reach \in Nat /\ far \in Nat /\ reach <= far
  BY <1>1
<1> HIDE DEF reach, far
<1>5. gap(newPlaces[s], newPlaces[t]) <= gap(newPlaces[s], at[s]) + gap(at[s], newPlaces[t])
  BY <1>1 DEF gap
<1>6. gap(newPlaces[s], newPlaces[t]) \in Nat /\ gap(newPlaces[s], at[s]) \in Nat
      /\ gap(at[s], newPlaces[t]) \in Nat
  BY <1>1, GapType
<1>7. gap(at[s], newPlaces[t]) < reach
  BY DEF reach
<1>8. s # t => gap(newPlaces[s], newPlaces[t]) >= far + MaxMove
  BY <1>3 DEF far
<1> QED BY <1>1, <1>2, <1>4, <1>5, <1>6, <1>7, <1>8

LEMMA CalmImage ==
  ASSUME StructInv, FollowInv, CalmInv, calm, NEW newPlaces \in CalmScenes,
         NEW visible \in SUBSET (DOMAIN newPlaces), Image(newPlaces, visible, 1)
  PROVE  CalmInv'
<1>0. newPlaces \in CalmScenes \cup RoughScenes /\ 1 \in {1, 2}
  OBVIOUS
<1>1. /\ ~ assigning /\ move(newPlaces) /\ places' = newPlaces
      /\ tick' = (tick + 1) % d_length
      /\ measurements' \in Seq(Measurements)
      /\ \A m \in DOMAIN measurements' :
           /\ measurements'[m].of \in DOMAIN newPlaces
           /\ measurements'[m].loc = newPlaces[measurements'[m].of]
           /\ measurements'[m].brightness \in shining(measurements'[m].of, tick')
      /\ distanceHeap_' = candidates(measurements') /\ ledRefs_' = DOMAIN leds
      /\ UNCHANGED <<leds, configured, calm>>
  BY <1>0, ImageStep DEF StructInv
<1>2. ledRefs_ = {} /\ settled = DOMAIN leds
  BY <1>1 DEF StructInv, CountInv, settled
<1>3. ASSUME NEW i \in DOMAIN leds
      PROVE  \E m \in DOMAIN measurements :
               /\ leds[i].m_latestMeasurement = measurements[m]
               /\ measurements[m].of \in DOMAIN places
               /\ measurements[m].loc = places[measurements[m].of]
  BY <1>2 DEF FollowInv, CalmInv, followers
<1>4. /\ places \in CalmScenes /\ DOMAIN newPlaces = DOMAIN places
      /\ \A s \in DOMAIN places : gap(newPlaces[s], places[s]) <= MaxMove
  BY <1>1 DEF CalmInv, move
<1>5. ASSUME NEW pair \in distanceHeap_'
      PROVE  leds[pair.led].m_latestMeasurement.of = measurements'[pair.meas].of
  <2>1. /\ pair.led \in DOMAIN leds /\ pair.meas \in DOMAIN measurements'
        /\ near(leds[pair.led], measurements'[pair.meas])
    BY <1>1, CandidatesType DEF StructInv, TypeOK
  <2>2. PICK m \in DOMAIN measurements :
          /\ leds[pair.led].m_latestMeasurement = measurements[m]
          /\ measurements[m].of \in DOMAIN places
          /\ measurements[m].loc = places[measurements[m].of]
    BY <1>3, <2>1
  <2> DEFINE meas == measurements'[pair.meas]
             source == measurements[m].of
  <2>3. /\ meas \in Measurements /\ meas.of \in DOMAIN places
        /\ meas.loc = newPlaces[meas.of]
    BY <1>1, <1>4, <2>1
  <2>4. gap(places[source], newPlaces[meas.of]) < blobMoveThreshold * meas.brightness
    BY <2>1, <2>2, <2>3 DEF near, distance
  <2>5. source \in DOMAIN places /\ meas.brightness \in Brightnesses
    BY <2>2, <2>3 DEF Measurements
  <2> HIDE DEF meas, source
  <2>6. source = meas.of
    BY <1>4, <2>3, <2>4, <2>5, SameSource
  <2> QED BY <2>2, <2>6 DEF meas, source
<1>6. ASSUME NEW i \in DOMAIN leds PROVE followsSource(leds[i], tick' - 1)
  <2>1. followsSource(leds[i], tick)
    BY <1>2 DEF CalmInv
  <2>2. /\ leds[i] \in Leds /\ tick \in 0..d_length - 1
        /\ Len(leds[i].m_brightnessHistory) <= d_length
    <3>1. leds[i].evidence \in 1..d_length /\ leds[i].evidence = Len(leds[i].m_brightnessHistory)
      BY DEF StructInv, EvidenceInv
    <3>2. d_length \in Nat
      BY PatternLength
    <3> QED BY <3>1, <3>2 DEF StructInv, TypeOK
  <2>3. remembersSource(leds[i], tick' - 1)
    BY <1>1, <2>1, <2>2, TimePasses DEF followsSource
  <2> QED BY <2>1, <2>3 DEF followsSource
<1>7. \A i \in DOMAIN leds' :
        followsSource(leds[i], IF i \in ledRefs_' THEN tick' - 1 ELSE tick')
  BY <1>1, <1>6
<1>8. \A i \in DOMAIN leds' :
        followsSource(leds[i], IF i \in ledRefs_ THEN tick - 1 ELSE tick)'
  <2>1. d_length' = d_length
    BY DEF d_length
  <2> QED BY <1>1, <1>7, <2>1 DEF followsSource, configured, remembersSource, identified
<1> QED BY <1>1, <1>4, <1>5, <1>8 DEF CalmInv, shining

LEMMA CalmMatch ==
  ASSUME StructInv, CalmInv, calm, NEW pair \in distanceHeap_, Match(pair)
  PROVE  CalmInv'
<1> DEFINE led == leds[pair.led]
           meas == measurements[pair.meas]
           updated == addMeasurement(led, meas, blobsKeepIdentity)
<1>1. /\ pair.led \in ledRefs_
      /\ DOMAIN leds' = DOMAIN leds /\ leds'[pair.led] = matchedLed(pair)
      /\ \A i \in DOMAIN leds : i # pair.led => leds'[i] = leds[i]
      /\ ledRefs_' = ledRefs_ \ {pair.led}
      /\ UNCHANGED <<configured, measurements, distanceHeap_, scene>>
  BY MatchStep DEF StructInv
<1>2. /\ pair.led \in DOMAIN leds /\ led \in Leds /\ pair.meas \in DOMAIN measurements
      /\ meas \in Measurements /\ blobsKeepIdentity \in BOOLEAN /\ tick \in 0..d_length - 1
      /\ led.evidence = Len(led.m_brightnessHistory) /\ led.evidence <= d_length
  BY PairType, PatternLength DEF StructInv, TypeOK, EvidenceInv
<1>3. followsSource(led, tick - 1) /\ led.m_latestMeasurement.of = meas.of
      /\ meas.brightness \in shining(meas.of, tick)
  BY <1>1, <1>2 DEF CalmInv
<1>4. meas.of \in enabledBeacons \cup {LIGHT} /\ (identified(led) => led.id = meas.of)
      /\ remembersSource(led, tick - 1)
  BY <1>3 DEF followsSource
<1> HIDE DEF led, meas
<1>5. /\ remembersSource(updated, tick)
      /\ identified(updated) => updated.id = meas.of
      /\ updated.evidence = d_length /\ meas.of # LIGHT => identified(updated)
  BY <1>2, <1>3, <1>4, SourceMeasured
<1>6. updated \in Leds /\ updated.m_latestMeasurement = meas
  BY <1>2, MeasurementAdded
<1> HIDE DEF updated
<1>7. followsSource(updated, tick)
  BY <1>4, <1>5, <1>6 DEF followsSource
<1>8. followsSource(markMisidentified(updated), tick)
  BY <1>2, <1>3, <1>4, <1>6, MarkedFollows
<1>9. followsSource(leds'[pair.led], tick)
  <2>1. leds'[pair.led] = IF outOfRange(updated) THEN markMisidentified(updated) ELSE updated
    BY <1>1 DEF matchedLed, updated, led, meas
  <2> QED BY <1>7, <1>8, <2>1
<1>10. \A i \in DOMAIN leds' :
         followsSource(leds'[i], IF i \in ledRefs_' THEN tick - 1 ELSE tick)
  BY <1>1, <1>9 DEF CalmInv
<1>11. \A i \in DOMAIN leds' :
         followsSource(leds[i], IF i \in ledRefs_ THEN tick - 1 ELSE tick)'
  <2>1. d_length' = d_length
    BY DEF d_length
  <2> QED BY <1>1, <1>10, <2>1
          DEF followsSource, configured, scene, remembersSource, identified
<1>12. ASSUME NEW other \in distanceHeap_', other.led \in ledRefs_'
       PROVE  leds'[other.led].m_latestMeasurement.of = measurements'[other.meas].of
  <2>1. other.led \in ledRefs_ /\ other.led # pair.led /\ other.led \in DOMAIN leds
    BY <1>1, <1>12 DEF StructInv, TypeOK
  <2> QED BY <1>1, <2>1 DEF CalmInv
<1>13. /\ places' \in CalmScenes
       /\ \A m \in DOMAIN measurements' :
            /\ measurements'[m].of \in DOMAIN places'
            /\ measurements'[m].loc = places'[measurements'[m].of]
            /\ measurements'[m].brightness \in shining(measurements'[m].of, tick')
  BY <1>1 DEF CalmInv, scene
<1> QED BY <1>11, <1>12, <1>13 DEF CalmInv, shining

LEMMA CalmFinish ==
  ASSUME StructInv, CalmInv, calm, Finish
  PROVE  CalmInv'
<1>1. /\ ledRefs_' = {} /\ distanceHeap_' = {}
      /\ \A i \in DOMAIN leds' :
           \/ \E k \in settled : leds'[i] = leds[k]
           \/ \E m \in measRefs_ : leds'[i] = newLed(measurements[m])
      /\ UNCHANGED <<configured, measurements, scene>>
  BY FinishStep DEF StructInv
<1>2. ASSUME NEW k \in settled PROVE followsSource(leds[k], tick)
  BY DEF settled, CalmInv
<1>3. ASSUME NEW m \in measRefs_ PROVE followsSource(newLed(measurements[m]), tick)
  <2> DEFINE meas == measurements[m]
             blank == blankLed(meas)
             added(keep) == addMeasurement(blank, meas, keep)
  <2>1. /\ meas \in Measurements /\ meas.brightness \in shining(meas.of, tick)
        /\ meas.of \in enabledBeacons \cup {LIGHT} /\ tick \in 0..d_length - 1
    BY SceneAssumption DEF StructInv, TypeOK, CalmInv
  <2> HIDE DEF meas
  <2>2. /\ blank \in Leds /\ newLed(meas) = added(FALSE)
        /\ blank.evidence = 0 /\ Len(blank.m_brightnessHistory) = 0
    BY <2>1, BlankLed
  <2>3. /\ blank.m_latestMeasurement.of = meas.of /\ ~ identified(blank)
        /\ remembersSource(blank, tick - 1) /\ 0 <= d_length
    <3>1. blank.m_latestMeasurement = meas /\ blank.m_brightnessHistory = <<>>
          /\ blank.id = SENTINEL_NO_IDENTIFIER_OBJECT
      BY DEF blankLed
    <3>2. ~ (SENTINEL_NO_IDENTIFIER_OBJECT > 0)
      BY DEF SENTINEL_NO_IDENTIFIER_OBJECT
    <3> QED BY <3>1, <3>2, PatternLength DEF identified, remembersSource
  <2> HIDE DEF blank
  <2>4. ASSUME NEW keep \in BOOLEAN
        PROVE  /\ remembersSource(added(keep), tick)
               /\ identified(added(keep)) => added(keep).id = meas.of
               /\ added(keep).evidence = d_length /\ meas.of # LIGHT => identified(added(keep))
               /\ added(keep).m_latestMeasurement = meas
    <3>1. blank.evidence = Len(blank.m_brightnessHistory) /\ blank.evidence <= d_length
      BY <2>2, <2>3
    <3> QED BY <2>1, <2>2, <2>3, <3>1, SourceMeasured, MeasurementAdded
  <2> HIDE DEF added
  <2>5. /\ remembersSource(newLed(meas), tick)
        /\ identified(newLed(meas)) => newLed(meas).id = meas.of
        /\ newLed(meas).evidence = d_length /\ meas.of # LIGHT => identified(newLed(meas))
        /\ newLed(meas).m_latestMeasurement = meas
    BY <2>2, <2>4, Zenon
  <2> QED BY <2>1, <2>5 DEF followsSource, meas
<1>4. \A i \in DOMAIN leds' : followsSource(leds'[i], tick)
  BY <1>1, <1>2, <1>3
<1>5. \A i \in DOMAIN leds' :
        followsSource(leds[i], IF i \in ledRefs_ THEN tick - 1 ELSE tick)'
  <2>1. d_length' = d_length
    BY DEF d_length
  <2> QED BY <1>1, <1>4, <2>1
          DEF followsSource, configured, scene, remembersSource, identified
<1>6. /\ places' \in CalmScenes
      /\ \A m \in DOMAIN measurements' :
           /\ measurements'[m].of \in DOMAIN places'
           /\ measurements'[m].loc = places'[measurements'[m].of]
           /\ measurements'[m].brightness \in shining(measurements'[m].of, tick')
  BY <1>1 DEF CalmInv, scene
<1> QED BY <1>1, <1>5, <1>6 DEF CalmInv, shining

LEMMA CalmRefute ==
  ASSUME StructInv, FollowInv, CalmInv, calm, NEW i \in usableLeds, Refute(i)
  PROVE  CalmInv'
<1>1. /\ i \in DOMAIN leds /\ ~ assigning /\ DOMAIN leds' = DOMAIN leds
      /\ leds'[i] = markMisidentified(leds[i]) /\ leds[i] \in Leds
      /\ \A j \in DOMAIN leds : j # i => leds'[j] = leds[j]
      /\ UNCHANGED <<configured, measurements, ledRefs_, distanceHeap_, scene>>
  BY RefuteStep DEF StructInv, assignment
<1>2. ledRefs_ = {} /\ distanceHeap_ = {} /\ i \in settled /\ tick \in 0..d_length - 1
  BY <1>1 DEF StructInv, CountInv, TypeOK, settled
<1>3. PICK m \in DOMAIN measurements : leds[i].m_latestMeasurement = measurements[m]
  BY <1>2 DEF FollowInv, followers
<1>4. /\ leds[i].m_latestMeasurement.of \in enabledBeacons \cup {LIGHT}
      /\ leds[i].m_latestMeasurement.brightness \in shining(leds[i].m_latestMeasurement.of, tick)
  BY <1>1, <1>3 DEF CalmInv, followsSource
<1>5. followsSource(leds'[i], tick)
  BY <1>1, <1>2, <1>4, MarkedFollows
<1>6. \A j \in DOMAIN leds' : followsSource(leds'[j], tick)
  BY <1>1, <1>2, <1>5 DEF CalmInv
<1>7. \A j \in DOMAIN leds' :
        followsSource(leds[j], IF j \in ledRefs_ THEN tick - 1 ELSE tick)'
  <2>1. d_length' = d_length
    BY DEF d_length
  <2> QED BY <1>1, <1>2, <1>6, <2>1
          DEF followsSource, configured, scene, remembersSource, identified
<1>8. /\ places' \in CalmScenes
      /\ \A k \in DOMAIN measurements' :
           /\ measurements'[k].of \in DOMAIN places'
           /\ measurements'[k].loc = places'[measurements'[k].of]
           /\ measurements'[k].brightness \in shining(measurements'[k].of, tick')
  BY <1>1 DEF CalmInv, scene
<1> QED BY <1>1, <1>2, <1>7, <1>8 DEF CalmInv, shining

LEMMA CalmInit == Init => CalmInv
BY DEF Init, CalmInv

LEMMA CalmStep ==
  ASSUME StructInv, FollowInv, CalmInv, [Next]_vars
  PROVE  CalmInv'
<1>1. CASE UNCHANGED vars
  <2>1. UNCHANGED <<leds, measurements, m_numBeacons, ledRefs_, distanceHeap_,
                    calm, places, tick>> /\ d_length' = d_length
    BY <1>1 DEF vars, configured, assignment, scene, d_length
  <2> QED BY <2>1 DEF CalmInv, shining, followsSource, remembersSource, identified
<1>2. CASE Next
  <2>1. calm' = calm
    BY <1>2, NextSteps DEF Image, Match, Finish, Refute, scene
  <2>2. CASE calm
    <3>1. ASSUME NEW newPlaces \in CalmScenes \cup RoughScenes, NEW steps \in {1, 2},
                 calm => newPlaces \in CalmScenes /\ steps = 1,
                 NEW visible \in SUBSET (DOMAIN newPlaces), Image(newPlaces, visible, steps)
          PROVE  CalmInv'
      BY <2>2, <3>1, CalmImage
    <3> QED BY <1>2, <2>2, <3>1, NextSteps, CalmMatch, CalmFinish, CalmRefute
  <2>3. CASE ~ calm
    BY <2>1, <2>3 DEF CalmInv
  <2> QED BY <2>2, <2>3
<1> QED BY <1>1, <1>2

-----------------------------------------------------------------------------
(***************************************************************************)
(* The theorems                                                            *)
(***************************************************************************)

\* What the properties rest on: types, counts, what matching has done so far and
\* what the LEDs of a calm scene remember.
THEOREM Inductive == Spec => []IInv
<1>1. Init => StructInv /\ ClosestInv /\ FollowInv /\ CalmInv
  BY StructInit, FollowInit, CalmInit DEF Init, ClosestInv
<1>2. ASSUME StructInv, ClosestInv, FollowInv, CalmInv, [Next]_vars
      PROVE  StructInv' /\ ClosestInv' /\ FollowInv' /\ CalmInv'
  BY <1>2, StructStep, ClosestStep, FollowStep, CalmStep
<1>3. StructInv /\ ClosestInv /\ FollowInv /\ CalmInv => IInv
  BY DEF StructInv, IInv
<1> QED BY <1>1, <1>2, <1>3, PTL DEF Spec

\* Every variable keeps its type: each pair on the heap is of an LED and a blob
\* that there are, and there are no more matches than blobs.
THEOREM TypeCorrect == Spec => []TypeOK
<1>1. IInv => TypeOK
  BY DEF IInv
<1> QED BY <1>1, Inductive, PTL

\* After an image every blob has its LED and every LED its blob; two LEDs are on
\* one blob only where the target has fewer beacons than patterns, and one of
\* them is marked misidentified (processLedMeasurements()).
THEOREM EachFollowed == Spec => []BlobsFollowed
<1>1. IInv => BlobsFollowed
  <2> SUFFICES ASSUME CountInv, FollowInv, ~ assigning PROVE BlobsFollowed
    BY DEF BlobsFollowed, IInv
  <2>1. settled = DOMAIN leds /\ measRefs_ = {}
    BY DEF CountInv, settled
  <2>2. \A m : followers(m) \subseteq settled
    BY <2>1 DEF followers
  <2>3. \A m \in DOMAIN measurements : followers(m) # {}
    BY <2>1 DEF FollowInv
  <2>4. \A i \in DOMAIN leds : \E m \in DOMAIN measurements : i \in followers(m)
    BY <2>1 DEF FollowInv
  <2> QED BY <2>2, <2>3, <2>4 DEF FollowInv, BlobsFollowed
<1> QED BY <1>1, Inductive, PTL

\* When matching ends no LED and blob near each other were passed over for a
\* pair farther apart (getMatch(), hasMoreMatches()).
THEOREM ClosestMatched == Spec => []ClosestFirst
<1>1. IInv => ClosestFirst
  <2> SUFFICES ASSUME StructInv, ClosestInv, assigning, ~ hasMoreMatches,
                      m_numBeacons >= Len(Patterns), NEW pair \in distanceHeap_
               PROVE  \E made \in matched :
                        /\ made.led = pair.led \/ made.meas = pair.meas
                        /\ made.dist <= pair.dist
    BY DEF ClosestFirst, IInv, StructInv
  <2>1. pair \notin validPairs
    BY NoneValid
  <2> QED BY <2>1 DEF ClosestInv, validPairs
<1> QED BY <1>1, Inductive, PTL

\* An LED is identified only on a whole pattern of measurements of its own, all
\* taken since it was last refuted (getId(), markMisidentified()).
THEOREM WholePattern == Spec => []IdentifiedOnEvidence
<1>1. IInv => IdentifiedOnEvidence
  BY DEF IInv, EvidenceInv, IdentifiedOnEvidence
<1> QED BY <1>1, Inductive, PTL

\* In a calm scene an LED is never taken for another beacon than the one it
\* follows, and no other light for a beacon (getId(), addMeasurement()).
THEOREM NeverAnother == Spec => []IdentifiedRight
<1>1. IInv => IdentifiedRight
  BY DEF IInv, CalmInv, followsSource, IdentifiedRight
<1> QED BY <1>1, Inductive, PTL

\* In a calm scene a beacon seen for the length of its pattern is recognized,
\* also after its LED was refuted (getId(), markMisidentified()).
THEOREM SeenIsRecognized == Spec => []RecognizedInTime
<1>1. IInv => RecognizedInTime
  BY DEF IInv, CalmInv, followsSource, RecognizedInTime
<1> QED BY <1>1, Inductive, PTL
=============================================================================
