------------------------------ MODULE Setup_proofs ------------------------------
(***************************************************************************)
(* Proofs about the setup: the report on target data of any number of      *)
(* beacons is exact, and clean data can be built; the HDK is set up as     *)
(* built, and each of its beacons is recognized as itself.                 *)
(***************************************************************************)
EXTENDS Setup, SequenceTheorems, TLAPS

\* Of six numbers one is the least and one the greatest.
LEMMA SixLengths ==
  ASSUME NEW a \in Nat, NEW b \in Nat, NEW c \in Nat, NEW e \in Nat, NEW f \in Nat, NEW g \in Nat
  PROVE  LET S == {a, b, c, e, f, g} IN
         /\ least(S) \in S /\ \A n \in S : least(S) <= n
         /\ greatest(S) \in S /\ \A n \in S : n <= greatest(S)
<1> DEFINE S == {a, b, c, e, f, g}
<1>1. \E n \in S : \A m \in S : n <= m
  <2>1. \E n \in {a, b, c} : \A m \in {a, b, c} : n <= m
    OBVIOUS
  <2>2. \E n \in {e, f, g} : \A m \in {e, f, g} : n <= m
    OBVIOUS
  <2> QED BY <2>1, <2>2
<1>2. \E n \in S : \A m \in S : m <= n
  <2>1. \E n \in {a, b, c} : \A m \in {a, b, c} : m <= n
    OBVIOUS
  <2>2. \E n \in {e, f, g} : \A m \in {e, f, g} : m <= n
    OBVIOUS
  <2> QED BY <2>1, <2>2
<1>3. least(S) \in S /\ \A n \in S : least(S) <= n
  BY <1>1 DEF least
<1>4. greatest(S) \in S /\ \A n \in S : n <= greatest(S)
  BY <1>2 DEF greatest
<1> QED BY <1>3, <1>4

\* The least and the greatest of the lengths of the six vectors.
LEMMA SizesOrdered ==
  ASSUME d \in TargetSetupData
  PROVE  /\ minSize \in sizes(d) /\ maxSize \in sizes(d) /\ sizes(d) \subseteq Nat
         /\ \A n \in sizes(d) : minSize <= n /\ n <= maxSize
<1>1. /\ Len(d.patterns) \in Nat /\ Len(d.locations) \in Nat
      /\ Len(d.emissionDirections) \in Nat /\ Len(d.baseMeasurementVariances) \in Nat
      /\ Len(d.initialAutocalibrationErrors) \in Nat /\ Len(d.isFixed) \in Nat
  BY DEF TargetSetupData
<1>2. sizes(d) \subseteq Nat
  BY <1>1 DEF sizes
<1>3. /\ least(sizes(d)) \in sizes(d) /\ \A n \in sizes(d) : least(sizes(d)) <= n
      /\ greatest(sizes(d)) \in sizes(d) /\ \A n \in sizes(d) : n <= greatest(sizes(d))
  BY <1>1, SixLengths, Zenon DEF sizes
<1> QED BY <1>2, <1>3 DEF minSize, maxSize

-----------------------------------------------------------------------------
(***************************************************************************)
(* What the checks of a beacon say.                                        *)
(***************************************************************************)

\* Cleaning keeps the lengths of the vectors, and so where the tails begin.
LEMMA SizesKept ==
  ASSUME DataKept, DataKept',
         given' = given
  PROVE  sizes(d') = sizes(d) /\ minSize' = minSize /\ maxSize' = maxSize
<1>1. sizes(d') = sizes(d)
  BY DEF DataKept, sizes
<1> QED BY <1>1 DEF minSize, maxSize

\* The beacons below minSize are in every vector.
LEMMA InAllVectors ==
  ASSUME DataKept, NEW i \in 1..minSize
  PROVE  /\ i \in DOMAIN d.patterns /\ i \in DOMAIN d.locations
         /\ i \in DOMAIN d.emissionDirections /\ i \in DOMAIN d.baseMeasurementVariances
         /\ i \in DOMAIN d.initialAutocalibrationErrors /\ i \in DOMAIN d.isFixed
         /\ i \in DOMAIN given.patterns /\ i \in DOMAIN given.initialAutocalibrationErrors
<1>1. \A n \in sizes(d) : n \in Nat /\ minSize <= n
  BY SizesOrdered DEF DataKept
<1>2. minSize \in Nat
  BY SizesOrdered DEF DataKept
<1>3. \A n \in sizes(d) : i \in 1..n
  BY <1>1, <1>2
<1>4. /\ i \in 1..Len(d.patterns) /\ i \in 1..Len(d.locations)
      /\ i \in 1..Len(d.emissionDirections) /\ i \in 1..Len(d.baseMeasurementVariances)
      /\ i \in 1..Len(d.initialAutocalibrationErrors) /\ i \in 1..Len(d.isFixed)
  BY <1>3 DEF sizes
<1>5. /\ DOMAIN d.patterns = 1..Len(d.patterns) /\ DOMAIN d.locations = 1..Len(d.locations)
      /\ DOMAIN d.emissionDirections = 1..Len(d.emissionDirections)
      /\ DOMAIN d.baseMeasurementVariances = 1..Len(d.baseMeasurementVariances)
      /\ DOMAIN d.initialAutocalibrationErrors = 1..Len(d.initialAutocalibrationErrors)
      /\ DOMAIN d.isFixed = 1..Len(d.isFixed)
  BY DEF DataKept, TargetSetupData
<1>6. /\ DOMAIN given.patterns = 1..Len(d.patterns)
      /\ DOMAIN given.initialAutocalibrationErrors = 1..Len(d.initialAutocalibrationErrors)
  BY DEF DataKept, TargetSetupData
<1> QED BY <1>4, <1>5, <1>6

\* The checks of a beacon, done on data cleaned so far, find nothing if and only
\* if the beacon was well-formed as it was handed over.
LEMMA ChecksAreExact ==
  ASSUME DataKept, NEW i \in 1..minSize
  PROVE  checkLocationValidity(i) \cup checkEmissionDirection(i) \cup checkMeasVariance(i)
           \cup checkAutocalib(i) = {} <=> WellFormedBeacon(given, i)
<1>1. i \in DOMAIN d.initialAutocalibrationErrors /\ i \in DOMAIN d.isFixed
      /\ i \in DOMAIN d.baseMeasurementVariances
  BY InAllVectors
<1>2. /\ d.initialAutocalibrationErrors[i] \in Int /\ d.isFixed[i] \in BOOLEAN
      /\ d.baseMeasurementVariances[i] \in Int
  BY <1>1 DEF DataKept, TargetSetupData
<1>3. given.isFixed[i] \/ d.initialAutocalibrationErrors[i] = given.initialAutocalibrationErrors[i]
  BY InAllVectors DEF DataKept
<1>4. checkLocationValidity(i) = {} <=> given.locations[i] # "bogus"
  BY DEF DataKept, checkLocationValidity
<1>5. checkEmissionDirection(i) = {} <=> given.emissionDirections[i] # "zero"
  BY DEF DataKept, checkEmissionDirection
<1>6. checkMeasVariance(i) = {} <=> given.baseMeasurementVariances[i] > 0
  BY <1>2 DEF DataKept, checkMeasVariance
<1>7. checkAutocalib(i) = {} <=> given.isFixed[i] \/ given.initialAutocalibrationErrors[i] > 0
  BY <1>2, <1>3 DEF DataKept, checkAutocalib
<1> QED BY <1>4, <1>5, <1>6, <1>7 DEF WellFormedBeacon

-----------------------------------------------------------------------------
(***************************************************************************)
(* The patterns of the HDK, as sets of lit places.                         *)
(***************************************************************************)
bitsOf(L) == patternOf(L, FALSE)

\* Place j of what starts at place k, going round.
ahead(j, k) == IF j + k <= 17 THEN j + k - 1 ELSE j + k - 17

turned(L, k) == {j \in 1..16 : ahead(j, k) \in L}

other(L, k) == IF k \in L THEN L \ {k} ELSE L \cup {k}

LEMMA BitsAreAll ==
  ASSUME NEW L \in SUBSET (1..16), NEW M \in SUBSET (1..16), bitsOf(L) = bitsOf(M)
  PROVE  L = M
<1>1. ASSUME NEW k \in 1..16 PROVE k \in L <=> k \in M
  <2>1. bitsOf(L)[k] = bitsOf(M)[k]
    OBVIOUS
  <2>2. bitsOf(L)[k] = (IF k \in L THEN 1 ELSE 0) /\ bitsOf(M)[k] = (IF k \in M THEN 1 ELSE 0)
    BY DEF bitsOf, patternOf
  <2> QED BY <2>1, <2>2
<1> QED BY <1>1

LEMMA Ahead ==
  ASSUME NEW j \in 1..16, NEW k \in 1..16
  PROVE  ahead(j, k) \in 1..16
BY DEF ahead

(***************************************************************************)
(* How many places are lit: turning keeps the number, judging one wrongly  *)
(* changes it by one.                                                      *)
(***************************************************************************)
bit(L, j) == IF j \in L THEN 1 ELSE 0
ones(L) == bit(L, 1) + bit(L, 2) + bit(L, 3) + bit(L, 4) + bit(L, 5) + bit(L, 6) + bit(L, 7)
             + bit(L, 8) + bit(L, 9) + bit(L, 10) + bit(L, 11) + bit(L, 12) + bit(L, 13)
             + bit(L, 14) + bit(L, 15) + bit(L, 16)

LEMMA OnesTurned ==
  ASSUME NEW L, NEW k \in 1..16
  PROVE  ones(turned(L, k)) = ones(L)
<1>1. \A j \in 1..16 : bit(turned(L, k), j) = bit(L, ahead(j, k))
  BY DEF bit, turned
<1>2. \A j \in 1..16 : bit(L, j) \in Int
  BY DEF bit
<1> QED BY <1>1, <1>2 DEF ones, ahead

LEMMA OnesAdded ==
  ASSUME NEW L, NEW k \in 1..16, k \notin L
  PROVE  ones(L \cup {k}) = ones(L) + 1 /\ ones(L) \in Int
<1>1. \A j \in 1..16 : bit(L \cup {k}, j) = IF j = k THEN 1 ELSE bit(L, j)
  BY DEF bit
<1>2. \A j \in 1..16 : bit(L, j) \in Int
  BY DEF bit
<1> DEFINE new(j) == IF j = k THEN 1 ELSE 0
<1>3. \A j \in 1..16 : bit(L \cup {k}, j) = bit(L, j) + new(j) /\ new(j) \in Int
  BY <1>1, <1>2 DEF bit
<1>4. new(1) + new(2) + new(3) + new(4) + new(5) + new(6) + new(7) + new(8) + new(9) + new(10)
        + new(11) + new(12) + new(13) + new(14) + new(15) + new(16) = 1
  OBVIOUS
<1> HIDE DEF new
<1> QED BY <1>2, <1>3, <1>4 DEF ones

LEMMA OnesOther ==
  ASSUME NEW L, NEW k \in 1..16
  PROVE  ones(other(L, k)) = ones(L) + 1 \/ ones(other(L, k)) = ones(L) - 1
<1>1. CASE k \notin L
  BY <1>1, OnesAdded DEF other
<1>2. CASE k \in L
  <2>1. L = (L \ {k}) \cup {k} /\ k \notin L \ {k}
    BY <1>2
  <2> DEFINE M == L \ {k}
  <2>2. ones(L) = ones(M) + 1 /\ ones(M) \in Int
    <3>1. L = M \cup {k} /\ k \notin M
      BY <2>1
    <3> HIDE DEF M
    <3> QED BY <3>1, OnesAdded
  <2>3. other(L, k) = M
    BY <1>2 DEF other
  <2> HIDE DEF M
  <2> QED BY <2>2, <2>3
<1> QED BY <1>1, <1>2

(***************************************************************************)
(* Three lit places are told from others by the distances between them: a  *)
(* number made of the three that is the same wherever one begins.          *)
(***************************************************************************)
code(p, q, r) == p * q * (p + 8) + q * r * (q + 8) + r * p * (r + 8)

three(L, n) ==
  \E x, y, z \in 1..16 : x < y /\ y < z /\ L = {x, y, z}
                         /\ n = code(y - x, z - y, 16 + x - z)

LEMMA Three ==
  ASSUME NEW x \in 1..16, NEW y \in 1..16, NEW z \in 1..16, x < y, y < z
  PROVE  three({x, y, z}, code(y - x, z - y, 16 + x - z))
BY DEF three

LEMMA CodeTurns ==
  ASSUME NEW p \in Int, NEW q \in Int, NEW r \in Int
  PROVE  code(p, q, r) = code(q, r, p)
BY DEF code

LEMMA ThreeOnes == ASSUME NEW L, NEW n, three(L, n) PROVE ones(L) = 3
<1>1. PICK x, y, z \in 1..16 : x < y /\ y < z /\ L = {x, y, z}
  BY DEF three
<1>2. ones({}) = 0
  BY DEF ones, bit
<1>3. ones({x}) = 1
  <2>1. ones({} \cup {x}) = ones({}) + 1
    BY OnesAdded
  <2>2. {} \cup {x} = {x}
    OBVIOUS
  <2> QED BY <1>2, <2>1, <2>2
<1>4. ones({x, y}) = 2
  <2>3. y \notin {x}
    BY <1>1
  <2>1. ones({x} \cup {y}) = ones({x}) + 1
    BY <2>3, OnesAdded
  <2>2. {x} \cup {y} = {x, y}
    OBVIOUS
  <2> QED BY <1>3, <2>1, <2>2
<1>5. ones({x, y, z}) = 3
  <2>3. z \notin {x, y}
    BY <1>1
  <2>1. ones({x, y} \cup {z}) = ones({x, y}) + 1
    BY <2>3, OnesAdded
  <2>2. {x, y} \cup {z} = {x, y, z}
    OBVIOUS
  <2> QED BY <1>4, <2>1, <2>2
<1> QED BY <1>1, <1>5

LEMMA ThreeIsOne ==
  ASSUME NEW L, NEW m, NEW n, three(L, m), three(L, n)
  PROVE  m = n
<1>1. PICK x, y, z \in 1..16 : x < y /\ y < z /\ L = {x, y, z}
                                /\ m = code(y - x, z - y, 16 + x - z)
  BY DEF three
<1>2. PICK u, v, w \in 1..16 : u < v /\ v < w /\ L = {u, v, w}
                                /\ n = code(v - u, w - v, 16 + u - w)
  BY DEF three
<1>3. x = u /\ y = v /\ z = w
  BY <1>1, <1>2
<1> QED BY <1>1, <1>2, <1>3

LEMMA ThreeTurned ==
  ASSUME NEW L, NEW n, three(L, n), NEW k \in 1..16
  PROVE  three(turned(L, k), n)
<1>1. PICK x, y, z \in 1..16 : x < y /\ y < z /\ L = {x, y, z}
                                /\ n = code(y - x, z - y, 16 + x - z)
  BY DEF three
<1> DEFINE back(a) == IF a >= k THEN a - k + 1 ELSE a - k + 17
<1>2. \A a \in 1..16 : back(a) \in 1..16 /\ \A j \in 1..16 : ahead(j, k) = a <=> j = back(a)
  BY DEF ahead
<1>3. turned(L, k) = {back(x), back(y), back(z)}
  <2> HIDE DEF back
  <2> QED BY <1>1, <1>2 DEF turned
<1>4. CASE k <= x \/ z < k
  <2>1. back(x) < back(y) /\ back(y) < back(z)
        /\ back(y) - back(x) = y - x /\ back(z) - back(y) = z - y
        /\ 16 + back(x) - back(z) = 16 + x - z
    BY <1>1, <1>4
  <2> HIDE DEF back
  <2>2. three({back(x), back(y), back(z)},
              code(back(y) - back(x), back(z) - back(y), 16 + back(x) - back(z)))
    BY <1>2, <2>1, Three
  <2> QED BY <1>1, <1>3, <2>1, <2>2
<1>5. CASE x < k /\ k <= y
  <2>1. back(y) < back(z) /\ back(z) < back(x)
        /\ back(z) - back(y) = z - y /\ back(x) - back(z) = 16 + x - z
        /\ 16 + back(y) - back(x) = y - x
    BY <1>1, <1>5
  <2>2. n = code(z - y, 16 + x - z, y - x)
    BY <1>1, CodeTurns
  <2>3. turned(L, k) = {back(y), back(z), back(x)}
    BY <1>3
  <2> HIDE DEF back
  <2>4. three({back(y), back(z), back(x)},
              code(back(z) - back(y), back(x) - back(z), 16 + back(y) - back(x)))
    BY <1>2, <2>1, Three
  <2> QED BY <2>1, <2>2, <2>3, <2>4
<1>6. CASE y < k /\ k <= z
  <2>1. back(z) < back(x) /\ back(x) < back(y)
        /\ back(x) - back(z) = 16 + x - z /\ back(y) - back(x) = y - x
        /\ 16 + back(z) - back(y) = z - y
    BY <1>1, <1>6
  <2>2. n = code(16 + x - z, y - x, z - y)
    BY <1>1, CodeTurns
  <2>3. turned(L, k) = {back(z), back(x), back(y)}
    BY <1>3
  <2> HIDE DEF back
  <2>4. three({back(z), back(x), back(y)},
              code(back(x) - back(z), back(y) - back(x), 16 + back(z) - back(y)))
    BY <1>2, <2>1, Three
  <2> QED BY <2>1, <2>2, <2>3, <2>4
<1> QED BY <1>4, <1>5, <1>6

(***************************************************************************)
(* The patterns with five lit places, four of them in a row: the distances *)
(* between lit places tell them apart.                                     *)
(***************************************************************************)
apart(L, n) == \E x \in 1..16 : x \in L /\ ahead(x, n + 1) \in L

LEMMA ApartTurned ==
  ASSUME NEW L \in SUBSET (1..16), NEW k \in 1..16, NEW n \in 0..15
  PROVE  apart(turned(L, k), n) <=> apart(L, n)
<1>1. \A x \in 1..16 : x \in turned(L, k) <=> ahead(x, k) \in L
  BY DEF turned
<1>2. \A x \in 1..16 : /\ ahead(ahead(x, k), n + 1) = ahead(ahead(x, n + 1), k)
                       /\ ahead(x, k) \in 1..16 /\ ahead(x, n + 1) \in 1..16
  BY DEF ahead
<1>3. \A x \in 1..16 : \E y \in 1..16 : ahead(y, k) = x
  <2>1. ASSUME NEW x \in 1..16 PROVE \E y \in 1..16 : ahead(y, k) = x
    <3>1. CASE x >= k
      <4>1. x - k + 1 \in 1..16 /\ ahead(x - k + 1, k) = x
        BY <3>1 DEF ahead
      <4> QED BY <4>1
    <3>2. CASE x < k
      <4>1. x - k + 17 \in 1..16 /\ ahead(x - k + 17, k) = x
        BY <3>2 DEF ahead
      <4> QED BY <4>1
    <3> QED BY <3>1, <3>2
  <2> QED BY <2>1
<1>4. ASSUME apart(turned(L, k), n) PROVE apart(L, n)
  <2>1. PICK x \in 1..16 : x \in turned(L, k) /\ ahead(x, n + 1) \in turned(L, k)
    BY <1>4 DEF apart
  <2>2. ahead(x, k) \in 1..16 /\ ahead(x, k) \in L /\ ahead(ahead(x, k), n + 1) \in L
    BY <1>1, <1>2, <2>1
  <2> QED BY <2>2 DEF apart
<1>5. ASSUME apart(L, n) PROVE apart(turned(L, k), n)
  <2>1. PICK y \in 1..16 : y \in L /\ ahead(y, n + 1) \in L
    BY <1>5 DEF apart
  <2>2. PICK x \in 1..16 : ahead(x, k) = y
    BY <1>3
  <2>3. x \in turned(L, k) /\ ahead(x, n + 1) \in turned(L, k)
    BY <1>1, <1>2, <2>1, <2>2
  <2> QED BY <2>3 DEF apart
<1> QED BY <1>4, <1>5

five(L, seventh, sixth, fifth) ==
  /\ L \subseteq 1..16 /\ ones(L) = 5
  /\ (apart(L, 7) <=> seventh) /\ (apart(L, 6) <=> sixth) /\ (apart(L, 5) <=> fifth)

LEMMA FiveTold ==
  /\ five({1, 2, 3, 7, 16}, TRUE, TRUE, TRUE)
  /\ five({4, 5, 6, 7, 10}, FALSE, TRUE, TRUE)
  /\ five({1, 3, 14, 15, 16}, FALSE, FALSE, TRUE)
  /\ five({1, 2, 14, 15, 16}, FALSE, FALSE, FALSE)
<1>1. /\ ones({1, 2, 3, 7, 16}) = 5 /\ ones({4, 5, 6, 7, 10}) = 5
      /\ ones({1, 3, 14, 15, 16}) = 5 /\ ones({1, 2, 14, 15, 16}) = 5
  BY DEF ones, bit
<1>2. five({1, 2, 3, 7, 16}, TRUE, TRUE, TRUE)
  <2>1. ahead(16, 8) = 7 /\ ahead(1, 7) = 7 /\ ahead(2, 6) = 7
    BY DEF ahead
  <2> QED BY <1>1, <2>1 DEF five, apart
<1>3. five({4, 5, 6, 7, 10}, FALSE, TRUE, TRUE)
  <2>1. ahead(4, 7) = 10 /\ ahead(5, 6) = 10
    BY DEF ahead
  <2>2. \A x \in {4, 5, 6, 7, 10} : ahead(x, 8) \notin {4, 5, 6, 7, 10}
    BY DEF ahead
  <2> QED BY <1>1, <2>1, <2>2 DEF five, apart
<1>4. five({1, 3, 14, 15, 16}, FALSE, FALSE, TRUE)
  <2>1. ahead(14, 6) = 3
    BY DEF ahead
  <2>2. \A x \in {1, 3, 14, 15, 16} : /\ ahead(x, 8) \notin {1, 3, 14, 15, 16}
                                      /\ ahead(x, 7) \notin {1, 3, 14, 15, 16}
    BY DEF ahead
  <2> QED BY <1>1, <2>1, <2>2 DEF five, apart
<1>5. five({1, 2, 14, 15, 16}, FALSE, FALSE, FALSE)
  <2>1. \A x \in {1, 2, 14, 15, 16} : /\ ahead(x, 8) \notin {1, 2, 14, 15, 16}
                                      /\ ahead(x, 7) \notin {1, 2, 14, 15, 16}
                                      /\ ahead(x, 6) \notin {1, 2, 14, 15, 16}
    BY DEF ahead
  <2> QED BY <1>1, <2>1 DEF five, apart
<1> QED BY <1>2, <1>3, <1>4, <1>5

(***************************************************************************)
(* The table.                                                              *)
(***************************************************************************)
Lit(i) == IF i <= 34 THEN Sensor0Lit[i] ELSE Sensor1Lit[i - 34]

used == (1..40) \ {35, 38}
threes == used \ (31..34)

codeOf == <<875, 773, 983, 1055, 1083, 1073, 841, 760, 683, 861, 1085, 1048, 991, 920, 913,
            1016, 1075, 1096, 1101, 1069, 1023, 969, 1088, 1053, 1099, 1113, 1135, 1121, 1128,
            1115, 0, 0, 0, 0, 0, 551, 443, 0, 1031, 963>>

LEMMA CodesDiffer ==
  ASSUME NEW i \in threes, NEW j \in threes, codeOf[i] = codeOf[j]
  PROVE  i = j
BY DEF codeOf, threes, used

LEMMA ThreesTold == \A i \in threes : three(Lit(i), codeOf[i])
<1>1. three(Lit(1), 875)
  <2>1. Lit(1) = {2, 3, 8} /\ code(1, 5, 10) = 875
    BY DEF Lit, Sensor0Lit, Sensor1Lit, code
  <2>2. three({2, 3, 8}, code(1, 5, 10))
    BY DEF three
  <2> QED BY <2>1, <2>2
<1>2. three(Lit(2), 773)
  <2>1. Lit(2) = {5, 6, 10} /\ code(1, 4, 11) = 773
    BY DEF Lit, Sensor0Lit, Sensor1Lit, code
  <2>2. three({5, 6, 10}, code(1, 4, 11))
    BY DEF three
  <2> QED BY <2>1, <2>2
<1>3. three(Lit(3), 983)
  <2>1. Lit(3) = {2, 6, 7} /\ code(4, 1, 11) = 983
    BY DEF Lit, Sensor0Lit, Sensor1Lit, code
  <2>2. three({2, 6, 7}, code(4, 1, 11))
    BY DEF three
  <2> QED BY <2>1, <2>2
<1>4. three(Lit(4), 1055)
  <2>1. Lit(4) = {10, 15, 16} /\ code(5, 1, 10) = 1055
    BY DEF Lit, Sensor0Lit, Sensor1Lit, code
  <2>2. three({10, 15, 16}, code(5, 1, 10))
    BY DEF three
  <2> QED BY <2>1, <2>2
<1>5. three(Lit(5), 1083)
  <2>1. Lit(5) = {3, 9, 10} /\ code(6, 1, 9) = 1083
    BY DEF Lit, Sensor0Lit, Sensor1Lit, code
  <2>2. three({3, 9, 10}, code(6, 1, 9))
    BY DEF three
  <2> QED BY <2>1, <2>2
<1>6. three(Lit(6), 1073)
  <2>1. Lit(6) = {1, 8, 9} /\ code(7, 1, 8) = 1073
    BY DEF Lit, Sensor0Lit, Sensor1Lit, code
  <2>2. three({1, 8, 9}, code(7, 1, 8))
    BY DEF three
  <2> QED BY <2>1, <2>2
<1>7. three(Lit(7), 841)
  <2>1. Lit(7) = {5, 7, 10} /\ code(2, 3, 11) = 841
    BY DEF Lit, Sensor0Lit, Sensor1Lit, code
  <2>2. three({5, 7, 10}, code(2, 3, 11))
    BY DEF three
  <2> QED BY <2>1, <2>2
<1>8. three(Lit(8), 760)
  <2>1. Lit(8) = {2, 4, 6} /\ code(2, 2, 12) = 760
    BY DEF Lit, Sensor0Lit, Sensor1Lit, code
  <2>2. three({2, 4, 6}, code(2, 2, 12))
    BY DEF three
  <2> QED BY <2>1, <2>2
<1>9. three(Lit(9), 683)
  <2>1. Lit(9) = {10, 12, 13} /\ code(2, 1, 13) = 683
    BY DEF Lit, Sensor0Lit, Sensor1Lit, code
  <2>2. three({10, 12, 13}, code(2, 1, 13))
    BY DEF three
  <2> QED BY <2>1, <2>2
<1>10. three(Lit(10), 861)
  <2>1. Lit(10) = {1, 2, 14} /\ code(1, 12, 3) = 861
    BY DEF Lit, Sensor0Lit, Sensor1Lit, code
  <2>2. three({1, 2, 14}, code(1, 12, 3))
    BY DEF three
  <2> QED BY <2>1, <2>2
<1>11. three(Lit(11), 1085)
  <2>1. Lit(11) = {5, 7, 14} /\ code(2, 7, 7) = 1085
    BY DEF Lit, Sensor0Lit, Sensor1Lit, code
  <2>2. three({5, 7, 14}, code(2, 7, 7))
    BY DEF three
  <2> QED BY <2>1, <2>2
<1>12. three(Lit(12), 1048)
  <2>1. Lit(12) = {1, 9, 11} /\ code(8, 2, 6) = 1048
    BY DEF Lit, Sensor0Lit, Sensor1Lit, code
  <2>2. three({1, 9, 11}, code(8, 2, 6))
    BY DEF three
  <2> QED BY <2>1, <2>2
<1>13. three(Lit(13), 991)
  <2>1. Lit(13) = {2, 11, 13} /\ code(9, 2, 5) = 991
    BY DEF Lit, Sensor0Lit, Sensor1Lit, code
  <2>2. three({2, 11, 13}, code(9, 2, 5))
    BY DEF three
  <2> QED BY <2>1, <2>2
<1>14. three(Lit(14), 920)
  <2>1. Lit(14) = {2, 12, 14} /\ code(10, 2, 4) = 920
    BY DEF Lit, Sensor0Lit, Sensor1Lit, code
  <2>2. three({2, 12, 14}, code(10, 2, 4))
    BY DEF three
  <2> QED BY <2>1, <2>2
<1>15. three(Lit(15), 913)
  <2>1. Lit(15) = {3, 6, 8} /\ code(3, 2, 11) = 913
    BY DEF Lit, Sensor0Lit, Sensor1Lit, code
  <2>2. three({3, 6, 8}, code(3, 2, 11))
    BY DEF three
  <2> QED BY <2>1, <2>2
<1>16. three(Lit(16), 1016)
  <2>1. Lit(16) = {5, 9, 11} /\ code(4, 2, 10) = 1016
    BY DEF Lit, Sensor0Lit, Sensor1Lit, code
  <2>2. three({5, 9, 11}, code(4, 2, 10))
    BY DEF three
  <2> QED BY <2>1, <2>2
<1>17. three(Lit(17), 1075)
  <2>1. Lit(17) = {4, 6, 15} /\ code(2, 9, 5) = 1075
    BY DEF Lit, Sensor0Lit, Sensor1Lit, code
  <2>2. three({4, 6, 15}, code(2, 9, 5))
    BY DEF three
  <2> QED BY <2>1, <2>2
<1>18. three(Lit(18), 1096)
  <2>1. Lit(18) = {4, 10, 12} /\ code(6, 2, 8) = 1096
    BY DEF Lit, Sensor0Lit, Sensor1Lit, code
  <2>2. three({4, 10, 12}, code(6, 2, 8))
    BY DEF three
  <2> QED BY <2>1, <2>2
<1>19. three(Lit(19), 1101)
  <2>1. Lit(19) = {5, 12, 15} /\ code(7, 3, 6) = 1101
    BY DEF Lit, Sensor0Lit, Sensor1Lit, code
  <2>2. three({5, 12, 15}, code(7, 3, 6))
    BY DEF three
  <2> QED BY <2>1, <2>2
<1>20. three(Lit(20), 1069)
  <2>1. Lit(20) = {5, 8, 13} /\ code(3, 5, 8) = 1069
    BY DEF Lit, Sensor0Lit, Sensor1Lit, code
  <2>2. three({5, 8, 13}, code(3, 5, 8))
    BY DEF three
  <2> QED BY <2>1, <2>2
<1>21. three(Lit(21), 1023)
  <2>1. Lit(21) = {3, 7, 16} /\ code(4, 9, 3) = 1023
    BY DEF Lit, Sensor0Lit, Sensor1Lit, code
  <2>2. three({3, 7, 16}, code(4, 9, 3))
    BY DEF three
  <2> QED BY <2>1, <2>2
<1>22. three(Lit(22), 969)
  <2>1. Lit(22) = {9, 12, 15} /\ code(3, 3, 10) = 969
    BY DEF Lit, Sensor0Lit, Sensor1Lit, code
  <2>2. three({9, 12, 15}, code(3, 3, 10))
    BY DEF three
  <2> QED BY <2>1, <2>2
<1>23. three(Lit(23), 1088)
  <2>1. Lit(23) = {8, 12, 16} /\ code(4, 4, 8) = 1088
    BY DEF Lit, Sensor0Lit, Sensor1Lit, code
  <2>2. three({8, 12, 16}, code(4, 4, 8))
    BY DEF three
  <2> QED BY <2>1, <2>2
<1>24. three(Lit(24), 1053)
  <2>1. Lit(24) = {7, 11, 14} /\ code(4, 3, 9) = 1053
    BY DEF Lit, Sensor0Lit, Sensor1Lit, code
  <2>2. three({7, 11, 14}, code(4, 3, 9))
    BY DEF three
  <2> QED BY <2>1, <2>2
<1>25. three(Lit(25), 1099)
  <2>1. Lit(25) = {8, 13, 16} /\ code(5, 3, 8) = 1099
    BY DEF Lit, Sensor0Lit, Sensor1Lit, code
  <2>2. three({8, 13, 16}, code(5, 3, 8))
    BY DEF three
  <2> QED BY <2>1, <2>2
<1>26. three(Lit(26), 1113)
  <2>1. Lit(26) = {3, 9, 12} /\ code(6, 3, 7) = 1113
    BY DEF Lit, Sensor0Lit, Sensor1Lit, code
  <2>2. three({3, 9, 12}, code(6, 3, 7))
    BY DEF three
  <2> QED BY <2>1, <2>2
<1>27. three(Lit(27), 1135)
  <2>1. Lit(27) = {1, 6, 11} /\ code(5, 5, 6) = 1135
    BY DEF Lit, Sensor0Lit, Sensor1Lit, code
  <2>2. three({1, 6, 11}, code(5, 5, 6))
    BY DEF three
  <2> QED BY <2>1, <2>2
<1>28. three(Lit(28), 1121)
  <2>1. Lit(28) = {4, 9, 13} /\ code(5, 4, 7) = 1121
    BY DEF Lit, Sensor0Lit, Sensor1Lit, code
  <2>2. three({4, 9, 13}, code(5, 4, 7))
    BY DEF three
  <2> QED BY <2>1, <2>2
<1>29. three(Lit(29), 1128)
  <2>1. Lit(29) = {3, 9, 13} /\ code(6, 4, 6) = 1128
    BY DEF Lit, Sensor0Lit, Sensor1Lit, code
  <2>2. three({3, 9, 13}, code(6, 4, 6))
    BY DEF three
  <2> QED BY <2>1, <2>2
<1>30. three(Lit(30), 1115)
  <2>1. Lit(30) = {4, 11, 15} /\ code(7, 4, 5) = 1115
    BY DEF Lit, Sensor0Lit, Sensor1Lit, code
  <2>2. three({4, 11, 15}, code(7, 4, 5))
    BY DEF three
  <2> QED BY <2>1, <2>2
<1>31. three(Lit(36), 551)
  <2>1. Lit(36) = {7, 8, 10} /\ code(1, 2, 13) = 551
    BY DEF Lit, Sensor0Lit, Sensor1Lit, code
  <2>2. three({7, 8, 10}, code(1, 2, 13))
    BY DEF three
  <2> QED BY <2>1, <2>2
<1>32. three(Lit(37), 443)
  <2>1. Lit(37) = {14, 15, 16} /\ code(1, 1, 14) = 443
    BY DEF Lit, Sensor0Lit, Sensor1Lit, code
  <2>2. three({14, 15, 16}, code(1, 1, 14))
    BY DEF three
  <2> QED BY <2>1, <2>2
<1>33. three(Lit(39), 1031)
  <2>1. Lit(39) = {4, 12, 13} /\ code(8, 1, 7) = 1031
    BY DEF Lit, Sensor0Lit, Sensor1Lit, code
  <2>2. three({4, 12, 13}, code(8, 1, 7))
    BY DEF three
  <2> QED BY <2>1, <2>2
<1>34. three(Lit(40), 963)
  <2>1. Lit(40) = {4, 5, 11} /\ code(1, 6, 9) = 963
    BY DEF Lit, Sensor0Lit, Sensor1Lit, code
  <2>2. three({4, 5, 11}, code(1, 6, 9))
    BY DEF three
  <2> QED BY <2>1, <2>2
<1> QED BY <1>1, <1>2, <1>3, <1>4, <1>5, <1>6, <1>7, <1>8, <1>9, <1>10, <1>11, <1>12, <1>13, <1>14, <1>15, <1>16, <1>17, <1>18, <1>19, <1>20, <1>21, <1>22, <1>23, <1>24, <1>25, <1>26, <1>27, <1>28, <1>29, <1>30, <1>31, <1>32, <1>33, <1>34
   DEF codeOf, threes, used

LEMMA FivesTold ==
  ASSUME NEW i \in 31..34
  PROVE  five(Lit(i), i = 31, i <= 32, i <= 33)
<1>1. /\ Lit(31) = {1, 2, 3, 7, 16} /\ Lit(32) = {4, 5, 6, 7, 10}
      /\ Lit(33) = {1, 3, 14, 15, 16} /\ Lit(34) = {1, 2, 14, 15, 16}
  BY DEF Lit, Sensor0Lit
<1>2. CASE i = 31
  BY <1>1, <1>2, FiveTold DEF five
<1>3. CASE i = 32
  BY <1>1, <1>3, FiveTold DEF five
<1>4. CASE i = 33
  BY <1>1, <1>4, FiveTold DEF five
<1>5. CASE i = 34
  BY <1>1, <1>5, FiveTold DEF five
<1> QED BY <1>2, <1>3, <1>4, <1>5

LEMMA OddLit ==
  ASSUME NEW i \in used
  PROVE  /\ Lit(i) \subseteq 1..16
         /\ i \in threes => ones(Lit(i)) = 3
         /\ i \notin threes => i \in 31..34 /\ ones(Lit(i)) = 5
<1>1. CASE i \in threes
  <2>1. three(Lit(i), codeOf[i])
    BY <1>1, ThreesTold
  <2>2. Lit(i) \subseteq 1..16
    BY <2>1 DEF three
  <2> QED BY <1>1, <2>1, <2>2, ThreeOnes
<1>2. CASE i \notin threes
  <2>1. i \in 31..34
    BY <1>2 DEF threes
  <2> QED BY <1>2, <2>1, FivesTold DEF five
<1> QED BY <1>1, <1>2

\* No turn makes the pattern of one beacon that of another.
LEMMA ToldApart ==
  ASSUME NEW i \in used, NEW j \in used, NEW k \in 1..16, NEW m \in 1..16,
         turned(Lit(i), k) = turned(Lit(j), m)
  PROVE  i = j
<1>1. ones(Lit(i)) = ones(Lit(j))
  BY OnesTurned
<1>2. CASE i \in threes
  <2>1. j \in threes
    BY <1>1, <1>2, OddLit
  <2>2. three(turned(Lit(i), k), codeOf[i]) /\ three(turned(Lit(j), m), codeOf[j])
    BY <1>2, <2>1, ThreesTold, ThreeTurned
  <2>3. codeOf[i] = codeOf[j]
    BY <2>2, ThreeIsOne
  <2> QED BY <1>2, <2>1, <2>3, CodesDiffer
<1>3. CASE i \notin threes
  <2>1. i \in 31..34 /\ j \in 31..34
    BY <1>1, <1>3, OddLit
  <2>2. /\ Lit(i) \in SUBSET (1..16) /\ Lit(j) \in SUBSET (1..16)
        /\ 5 \in 0..15 /\ 6 \in 0..15 /\ 7 \in 0..15
    BY OddLit
  <2>3. /\ apart(Lit(i), 7) <=> apart(Lit(j), 7)
        /\ apart(Lit(i), 6) <=> apart(Lit(j), 6)
        /\ apart(Lit(i), 5) <=> apart(Lit(j), 5)
    BY <2>2, ApartTurned
  <2>4. (i = 31 <=> j = 31) /\ (i <= 32 <=> j <= 32) /\ (i <= 33 <=> j <= 33)
    BY <2>1, <2>3, FivesTold DEF five
  <2> QED BY <2>1, <2>4
<1> QED BY <1>2, <1>3

\* Nor does a place misjudged make it the pattern of any.
LEMMA NeverMisjudged ==
  ASSUME NEW i \in used, NEW j \in used, NEW k \in 1..16, NEW m \in 1..16
  PROVE  other(Lit(i), k) # turned(Lit(j), m)
<1>1. ones(Lit(i)) \in {3, 5} /\ ones(Lit(j)) \in {3, 5}
  BY OddLit
<1>2. ones(turned(Lit(j), m)) = ones(Lit(j))
  BY OnesTurned
<1>3. ones(other(Lit(i), k)) = ones(Lit(i)) + 1 \/ ones(other(Lit(i), k)) = ones(Lit(i)) - 1
  BY OnesOther
<1> QED BY <1>1, <1>2, <1>3

-----------------------------------------------------------------------------
(***************************************************************************)
(* The same of the bits that an identifier holds.                          *)
(***************************************************************************)
Digits == {0, 1, 2}

LEMMA Bits ==
  ASSUME NEW L
  PROVE  /\ bitsOf(L) \in Seq(Digits) /\ Len(bitsOf(L)) = 16 /\ DOMAIN bitsOf(L) = 1..16
         /\ \A k \in 1..16 : bitsOf(L)[k] = IF k \in L THEN 1 ELSE 0
<1>1. bitsOf(L) = [k \in 1..16 |-> IF k \in L THEN 1 ELSE 0]
  BY DEF bitsOf, patternOf
<1>2. bitsOf(L) \in [1..16 -> Digits]
  BY <1>1 DEF Digits
<1>3. bitsOf(L) \in Seq(Digits)
  BY <1>2, SeqDef
<1> QED BY <1>1, <1>2, <1>3

\* Sequences of sixteen bits.
LEMMA SameBits ==
  ASSUME NEW L, NEW s \in Seq(Digits), Len(s) = 16,
         \A j \in 1..16 : s[j] = IF j \in L THEN 1 ELSE 0
  PROVE  s = bitsOf(L)
<1>1. s = [j \in 1..16 |-> s[j]]
  OBVIOUS
<1> QED BY <1>1 DEF bitsOf, patternOf

LEMMA Appended ==
  ASSUME NEW S, NEW s \in Seq(S), NEW t \in Seq(S)
  PROVE  /\ s \o t \in Seq(S) /\ Len(s \o t) = Len(s) + Len(t)
         /\ \A i \in 1..Len(s) : (s \o t)[i] = s[i]
         /\ \A j \in 1..Len(t) : (s \o t)[Len(s) + j] = t[j]
OBVIOUS

LEMMA Part ==
  ASSUME NEW S, NEW s \in Seq(S), NEW a \in Int, NEW b \in Int, 1 <= a, a <= b + 1, b <= Len(s)
  PROVE  /\ SubSeq(s, a, b) \in Seq(S) /\ Len(SubSeq(s, a, b)) = b - a + 1
         /\ \A j \in 1..(b - a + 1) : SubSeq(s, a, b)[j] = s[a + j - 1]
<1>1. \A i \in a..b : s[i] \in S
  <2>1. \A i \in a..b : i \in 1..Len(s)
    OBVIOUS
  <2> QED BY <2>1
<1>2. /\ SubSeq(s, a, b) \in Seq(S)
      /\ \A j \in 1..(b - a + 1) : SubSeq(s, a, b)[j] = s[a + j - 1]
  BY <1>1, SubSeqProperties
<1>3. Len(SubSeq(s, a, b)) = IF a <= b THEN b - a + 1 ELSE 0
  BY <1>1, SubSeqProperties
<1> QED BY <1>2, <1>3

LEMMA Wrapped ==
  ASSUME NEW L
  PROVE  /\ wrapped(bitsOf(L)) \in Seq(Digits) /\ Len(wrapped(bitsOf(L))) = 31
         /\ \A j \in 1..16 : wrapped(bitsOf(L))[j] = bitsOf(L)[j]
         /\ \A j \in 1..15 : wrapped(bitsOf(L))[16 + j] = bitsOf(L)[j]
<1> DEFINE p == bitsOf(L)
           pp == p \o p
           text == wrapped(p)
           last == 31
<1>1. p \in Seq(Digits) /\ Len(p) = 16
  BY Bits
<1>2. text = SubSeq(pp, 1, last)
  BY <1>1 DEF wrapped
<1> HIDE DEF p
<1>3. /\ pp \in Seq(Digits) /\ Len(pp) = Len(p) + Len(p)
      /\ \A j \in 1..Len(p) : pp[j] = p[j]
      /\ \A j \in 1..Len(p) : pp[Len(p) + j] = p[j]
  <2>1. p \in Seq(Digits)
    BY <1>1
  <2> QED BY <2>1, Appended
<1> HIDE DEF pp, text
<1>4. last \in Int /\ 1 \in Int /\ 1 <= last + 1 /\ last <= Len(pp)
  BY <1>1, <1>3
<1> HIDE DEF last
<1>5. SubSeq(pp, 1, last) \in Seq(Digits)
  BY <1>3, <1>4, Part
<1>6. Len(SubSeq(pp, 1, last)) = last - 1 + 1
  BY <1>3, <1>4, Part
<1>7. \A j \in 1..(last - 1 + 1) : SubSeq(pp, 1, last)[j] = pp[1 + j - 1]
  BY <1>3, <1>4, Part
<1>8. text \in Seq(Digits) /\ Len(text) = 31 /\ \A j \in 1..31 : text[j] = pp[j]
  <2>1. last - 1 + 1 = 31 /\ \A j \in 1..31 : 1 + j - 1 = j
    BY DEF last
  <2> QED BY <1>2, <1>5, <1>6, <1>7, <2>1
<1>9. ASSUME NEW j \in 1..16 PROVE text[j] = p[j]
  <2>1. j \in 1..31
    OBVIOUS
  <2> QED BY <1>1, <1>3, <1>8, <2>1
<1>10. ASSUME NEW j \in 1..15 PROVE text[16 + j] = p[j]
  <2>1. 16 + j \in 1..31 /\ j \in 1..16
    OBVIOUS
  <2>2. text[16 + j] = pp[16 + j]
    BY <1>8, <2>1
  <2>3. pp[16 + j] = p[j]
    BY <1>1, <1>3, <2>1
  <2> QED BY <2>2, <2>3
<1> QED BY <1>8, <1>9, <1>10 DEF text, p

\* What is read of a pattern wrapped, from place k on, is the pattern turned.
LEMMA Window ==
  ASSUME NEW L, NEW k \in 1..16
  PROVE  SubSeq(wrapped(bitsOf(L)), k, k + 15) = bitsOf(turned(L, k))
<1> DEFINE text == wrapped(bitsOf(L))
           last == k + 15
           s == SubSeq(text, k, last)
<1>1. /\ text \in Seq(Digits) /\ Len(text) = 31
      /\ \A j \in 1..16 : text[j] = bitsOf(L)[j]
      /\ \A j \in 1..15 : text[16 + j] = bitsOf(L)[j]
  BY Wrapped
<1> HIDE DEF text
<1>2. last \in Int /\ 1 <= k /\ k <= last + 1 /\ last <= Len(text) /\ k \in Int
      /\ last - k + 1 = 16
  <2>1. Len(text) = 31
    BY <1>1
  <2> QED BY <2>1
<1> HIDE DEF last
<1>3. s \in Seq(Digits)
  BY <1>1, <1>2, Part
<1>8. Len(s) = last - k + 1
  BY <1>1, <1>2, Part
<1>4. \A j \in 1..(last - k + 1) : s[j] = text[k + j - 1]
  BY <1>1, <1>2, Part
<1> HIDE DEF s
<1>5. ASSUME NEW j \in 1..16 PROVE s[j] = bitsOf(L)[ahead(j, k)]
  <2>1. s[j] = text[k + j - 1]
    BY <1>2, <1>4
  <2>2. CASE j + k <= 17
    <3>1. k + j - 1 \in 1..16 /\ ahead(j, k) = k + j - 1
      BY <2>2 DEF ahead
    <3> QED BY <1>1, <2>1, <3>1
  <2>3. CASE j + k > 17
    <3>1. PICK i \in 1..15 : i = j + k - 17
      BY <2>3
    <3>2. k + j - 1 = 16 + i /\ ahead(j, k) = i
      BY <2>3, <3>1 DEF ahead
    <3> QED BY <1>1, <2>1, <3>2
  <2> QED BY <2>2, <2>3
<1>6. ASSUME NEW j \in 1..16 PROVE s[j] = IF j \in turned(L, k) THEN 1 ELSE 0
  <2>1. ahead(j, k) \in 1..16
    BY Ahead
  <2>2. bitsOf(L)[ahead(j, k)] = IF ahead(j, k) \in L THEN 1 ELSE 0
    BY <2>1, Bits
  <2> QED BY <1>5, <2>2 DEF turned
<1>7. s = bitsOf(turned(L, k))
  BY <1>2, <1>3, <1>6, <1>8, SameBits
<1> QED BY <1>7 DEF s, text, last

LEMMA StartingAt ==
  ASSUME NEW L, NEW k \in 1..16
  PROVE  startingAt(bitsOf(L), k) = bitsOf(turned(L, k))
<1> DEFINE p == bitsOf(L)
           last == 16
           before == k - 1
           s == SubSeq(p, k, last)
           t == SubSeq(p, 1, before)
<1>1. p \in Seq(Digits) /\ Len(p) = 16
  BY Bits
<1>2. startingAt(p, k) = s \o t
  BY <1>1 DEF startingAt
<1> HIDE DEF p
<1>3. /\ last \in Int /\ 1 <= k /\ k \in Int /\ k <= last + 1 /\ last <= Len(p)
      /\ before \in Int /\ 1 \in Int /\ 1 <= 1 /\ 1 <= before + 1 /\ before <= Len(p)
      /\ last - k + 1 = 17 - k /\ before - 1 + 1 = k - 1
  BY <1>1
<1> HIDE DEF last, before
<1>4. s \in Seq(Digits)
  BY <1>1, <1>3, Part
<1>14. Len(s) = last - k + 1
  BY <1>1, <1>3, Part
<1>5. \A j \in 1..(last - k + 1) : s[j] = p[k + j - 1]
  BY <1>1, <1>3, Part
<1>6. t \in Seq(Digits)
  BY <1>1, <1>3, Part
<1>13. Len(t) = before - 1 + 1
  BY <1>1, <1>3, Part
<1>7. \A j \in 1..(before - 1 + 1) : t[j] = p[1 + j - 1]
  BY <1>1, <1>3, Part
<1> HIDE DEF s, t
<1>8. /\ s \o t \in Seq(Digits) /\ Len(s \o t) = Len(s) + Len(t)
      /\ \A i \in 1..Len(s) : (s \o t)[i] = s[i]
      /\ \A j \in 1..Len(t) : (s \o t)[Len(s) + j] = t[j]
  BY <1>4, <1>6, Appended
<1>9. Len(s) = 17 - k /\ Len(t) = k - 1 /\ Len(s \o t) = 16
  BY <1>3, <1>13, <1>14, <1>8
<1>10. ASSUME NEW j \in 1..16 PROVE (s \o t)[j] = p[ahead(j, k)]
  <2>1. CASE j + k <= 17
    <3>1. j \in 1..Len(s) /\ j \in 1..(last - k + 1) /\ ahead(j, k) = k + j - 1
      BY <1>3, <1>9, <2>1 DEF ahead
    <3> QED BY <1>5, <1>8, <3>1
  <2>2. CASE j + k > 17
    <3>1. PICK i \in 1..15 : i = j + k - 17
      BY <2>2
    <3>2. /\ i \in 1..Len(t) /\ i \in 1..(before - 1 + 1) /\ j = Len(s) + i
          /\ ahead(j, k) = i /\ 1 + i - 1 = i
      BY <1>3, <1>9, <2>2, <3>1 DEF ahead
    <3>3. (s \o t)[j] = t[i]
      BY <1>8, <3>2
    <3> QED BY <1>7, <3>2, <3>3
  <2>3. j + k <= 17 \/ j + k > 17
    OBVIOUS
  <2> QED BY <2>1, <2>2, <2>3
<1>11. ASSUME NEW j \in 1..16 PROVE (s \o t)[j] = IF j \in turned(L, k) THEN 1 ELSE 0
  <2>1. ahead(j, k) \in 1..16
    BY Ahead
  <2>2. p[ahead(j, k)] = IF ahead(j, k) \in L THEN 1 ELSE 0
    BY <2>1, Bits DEF p
  <2> QED BY <1>10, <2>2 DEF turned
<1>12. s \o t = bitsOf(turned(L, k))
  BY <1>8, <1>9, <1>11, SameBits
<1> QED BY <1>2, <1>12 DEF p

LEMMA Flipped ==
  ASSUME NEW L, NEW k \in 1..16
  PROVE  flipped(bitsOf(L), k) = bitsOf(other(L, k))
<1> DEFINE p == bitsOf(L)
           s == [p EXCEPT ![k] = 1 - p[k]]
<1>1. DOMAIN p = 1..16 /\ \A j \in 1..16 : p[j] = IF j \in L THEN 1 ELSE 0
  BY Bits
<1>2. flipped(p, k) = s
  BY DEF flipped
<1> HIDE DEF p
<1>3. s = [j \in 1..16 |-> IF j = k THEN 1 - p[k] ELSE p[j]]
  BY <1>1
<1>4. \A j \in 1..16 : s[j] = IF j \in other(L, k) THEN 1 ELSE 0
  BY <1>1, <1>3 DEF other
<1>5. s = [j \in 1..16 |-> IF j \in other(L, k) THEN 1 ELSE 0]
  BY <1>3, <1>4
<1>6. s = bitsOf(other(L, k))
  BY <1>5 DEF bitsOf, patternOf
<1> QED BY <1>2, <1>6 DEF p

LEMMA Windows ==
  ASSUME NEW L, d_length = 16
  PROVE  windows(bitsOf(L)) = {bitsOf(turned(L, k)) : k \in 1..16}
<1>1. Len(wrapped(bitsOf(L))) = 31
  BY Wrapped
<1>2. windows(bitsOf(L)) = {SubSeq(wrapped(bitsOf(L)), k, k + 15) : k \in 1..16}
  BY <1>1 DEF windows
<1> QED BY <1>2, Window

-----------------------------------------------------------------------------
(***************************************************************************)
(* The data of the HDK                                                     *)
(***************************************************************************)
LEMMA Constant ==
  ASSUME NEW n \in Nat, NEW S, NEW v \in S
  PROVE  /\ constant(n, v) \in Seq(S) /\ Len(constant(n, v)) = n
         /\ \A i \in 1..n : constant(n, v)[i] = v
<1>1. constant(n, v) \in [1..n -> S]
  BY DEF constant
<1>2. constant(n, v) \in Seq(S)
  BY <1>1, SeqDef
<1> QED BY <1>1, <1>2 DEF constant

places(first, m) == first..(first + m - 1)

LEMMA Overwritten ==
  ASSUME NEW S, NEW vector \in Seq(S), NEW first \in Nat \ {0}, NEW m \in Nat, NEW v \in S
  PROVE  /\ overwrite(vector, first, constant(m, v)) \in Seq(S)
         /\ Len(overwrite(vector, first, constant(m, v))) = Len(vector)
         /\ \A i \in DOMAIN vector \cap places(first, m) :
              overwrite(vector, first, constant(m, v))[i] = v
         /\ \A i \in DOMAIN vector \ places(first, m) :
              overwrite(vector, first, constant(m, v))[i] = vector[i]
<1> DEFINE new == overwrite(vector, first, constant(m, v))
<1>1. /\ Len(vector) \in Nat /\ DOMAIN vector = 1..Len(vector) /\ Len(constant(m, v)) = m
      /\ \A i \in 1..m : constant(m, v)[i] = v
  BY Constant
<1>2. ASSUME NEW i \in first..(first + m - 1) PROVE constant(m, v)[i - first + 1] = v
  <2>1. i - first + 1 \in 1..m
    OBVIOUS
  <2> QED BY <1>1, <2>1
<1>3. new = [i \in 1..Len(vector) |-> IF i \in first..(first + m - 1) THEN v ELSE vector[i]]
  BY <1>1, <1>2 DEF overwrite
<1>4. new \in [1..Len(vector) -> S]
  BY <1>1, <1>3
<1>5. new \in Seq(S)
  BY <1>1, <1>4, SeqDef
<1> HIDE DEF new
<1>6. Len(new) = Len(vector)
  BY <1>1, <1>4, <1>5
<1>7. /\ \A i \in DOMAIN vector \cap places(first, m) : new[i] = v
      /\ \A i \in DOMAIN vector \ places(first, m) : new[i] = vector[i]
  BY <1>1, <1>3 DEF places
<1> QED BY <1>5, <1>6, <1>7 DEF new

\* A vector with another value computed for each entry.
LEMMA Recomputed ==
  ASSUME NEW S, NEW vector \in Seq(S), NEW new, new = [i \in DOMAIN vector |-> new[i]],
         NEW T, \A i \in 1..Len(vector) : new[i] \in T
  PROVE  new \in Seq(T) /\ Len(new) = Len(vector)
<1>1. Len(vector) \in Nat /\ DOMAIN vector = 1..Len(vector)
  OBVIOUS
<1>2. new \in [1..Len(vector) -> T]
  BY <1>1
<1>3. new \in Seq(T)
  BY <1>1, <1>2, SeqDef
<1> QED BY <1>1, <1>2, <1>3

\* Every pattern of the HDK that is used has sixteen characters; only the unused
\* ones are not legal.
LEMMA PatternIs ==
  ASSUME NEW lit, NEW unused \in BOOLEAN
  PROVE  /\ patternOf(lit, unused) \in Seq({0, 1, 2})
         /\ ~ unused => Len(patternOf(lit, unused)) = 16
         /\ enabled(patternOf(lit, unused)) <=> ~unused
<1> DEFINE n == IF unused THEN 17 ELSE 16
           p == patternOf(lit, unused)
<1>1. n \in Nat /\ 1 \in 1..n /\ (~ unused => n = 16)
  OBVIOUS
<1>2. p \in [1..n -> {0, 1, 2}] /\ \A k \in 1..n : p[k] = 2 <=> k = 1 /\ unused
  BY DEF patternOf
<1> HIDE DEF n, p
<1>3. p \in Seq({0, 1, 2})
  BY <1>1, <1>2, SeqDef
<1>4. Len(p) = n /\ DOMAIN p = 1..n
  BY <1>1, <1>2, <1>3
<1>5. legal(p) <=> ~unused
  BY <1>1, <1>2, <1>4 DEF legal
<1>6. p # <<>>
  BY <1>1, <1>3, <1>4, EmptySeq
<1> HIDE DEF legal
<1>7. enabled(p) <=> ~unused
  BY <1>5, <1>6 DEF enabled
<1>8. p = patternOf(lit, unused)
  BY DEF p
<1> QED BY <1>1, <1>3, <1>4, <1>7, <1>8

LEMMA SensorPatterns ==
  /\ SENSOR0_PATTERNS \in Seq(Seq({0, 1, 2})) /\ Len(SENSOR0_PATTERNS) = 34
  /\ SENSOR1_PATTERNS \in Seq(Seq({0, 1, 2})) /\ Len(SENSOR1_PATTERNS) = 6
  /\ \A i \in 1..34 : /\ Len(SENSOR0_PATTERNS[i]) = 16 /\ enabled(SENSOR0_PATTERNS[i])
                      /\ SENSOR0_PATTERNS[i] = patternOf(Sensor0Lit[i], FALSE)
  /\ \A i \in 1..6 : /\ i \notin Sensor1Unused => Len(SENSOR1_PATTERNS[i]) = 16
                     /\ enabled(SENSOR1_PATTERNS[i]) <=> i \notin Sensor1Unused
                     /\ SENSOR1_PATTERNS[i] = patternOf(Sensor1Lit[i], i \in Sensor1Unused)
<1>1. DOMAIN Sensor0Lit = 1..34
  BY DEF Sensor0Lit
<1>2. DOMAIN Sensor1Lit = 1..6
  BY DEF Sensor1Lit
<1>3. /\ SENSOR0_PATTERNS = [i \in 1..34 |-> patternOf(Sensor0Lit[i], FALSE)]
      /\ SENSOR1_PATTERNS = [i \in 1..6 |-> patternOf(Sensor1Lit[i], i \in Sensor1Unused)]
  BY <1>1, <1>2 DEF SENSOR0_PATTERNS, SENSOR1_PATTERNS
<1>4. \A i : (i \in Sensor1Unused) \in BOOLEAN
  OBVIOUS
<1>5. /\ SENSOR0_PATTERNS \in [1..34 -> Seq({0, 1, 2})]
      /\ SENSOR1_PATTERNS \in [1..6 -> Seq({0, 1, 2})]
  BY <1>3, <1>4, PatternIs
<1>6. /\ SENSOR0_PATTERNS \in Seq(Seq({0, 1, 2})) /\ SENSOR1_PATTERNS \in Seq(Seq({0, 1, 2}))
  <2>1. \A S, n, f : n \in Nat /\ f \in [1..n -> S] => f \in Seq(S)
    BY SeqDef
  <2> QED BY <1>5, <2>1
<1>7. Len(SENSOR0_PATTERNS) = 34 /\ Len(SENSOR1_PATTERNS) = 6
  BY <1>5, <1>6
<1> QED BY <1>3, <1>4, <1>6, <1>7, PatternIs

-----------------------------------------------------------------------------
\* A configuration as the parser returns it, of errors in whole tenths.
Configured(c) ==
  /\ c.includeRearPanel \in BOOLEAN
  /\ c.initialBeaconError \in Int /\ c.initialBeaconError % 10 = 0

beaconCount(c) == IF c.includeRearPanel THEN 40 ELSE 34

\* Data for so many beacons.
DataFor(c, data) ==
  /\ data \in TargetSetupData
  /\ Len(data.patterns) = beaconCount(c) /\ Len(data.locations) = beaconCount(c)
  /\ Len(data.emissionDirections) = beaconCount(c)
  /\ Len(data.baseMeasurementVariances) = beaconCount(c)
  /\ Len(data.initialAutocalibrationErrors) = beaconCount(c)
  /\ Len(data.isFixed) = beaconCount(c)

LEMMA EmptyData ==
  ASSUME NEW c, Configured(c)
  PROVE  LET data == withBeaconCount(beaconCount(c), BaseMeasurementVariance,
                                     c.initialBeaconError) IN
         /\ DataFor(c, data)
         /\ \A i \in 1..beaconCount(c) :
              /\ data.locations[i] = "bogus" /\ data.emissionDirections[i] = "zero"
              /\ data.baseMeasurementVariances[i] = BaseMeasurementVariance
              /\ data.initialAutocalibrationErrors[i] = c.initialBeaconError
              /\ data.isFixed[i] = FALSE
<1> DEFINE n == beaconCount(c)
           e == c.initialBeaconError
<1>1. n \in Nat /\ e \in Int /\ BaseMeasurementVariance \in Int
  BY DEF beaconCount, Configured, BaseMeasurementVariance
<1> HIDE DEF n, e
<1>2. <<>> \in Seq({0, 1, 2})
  BY EmptySeq
<1>10. "bogus" \in Locations /\ "zero" \in Directions
  BY DEF Locations, Directions
<1>3. FALSE \in BOOLEAN
  OBVIOUS
<1>4. constant(n, <<>>) \in Seq(Seq({0, 1, 2})) /\ Len(constant(n, <<>>)) = n
  BY <1>1, <1>2, Constant
<1>5. /\ constant(n, "bogus") \in Seq(Locations) /\ Len(constant(n, "bogus")) = n
      /\ \A i \in 1..n : constant(n, "bogus")[i] = "bogus"
  BY <1>1, <1>10, Constant
<1>6. /\ constant(n, "zero") \in Seq(Directions) /\ Len(constant(n, "zero")) = n
      /\ \A i \in 1..n : constant(n, "zero")[i] = "zero"
  BY <1>1, <1>10, Constant
<1>7. /\ constant(n, BaseMeasurementVariance) \in Seq(Int)
      /\ Len(constant(n, BaseMeasurementVariance)) = n
      /\ \A i \in 1..n : constant(n, BaseMeasurementVariance)[i] = BaseMeasurementVariance
  BY <1>1, Constant
<1>8. /\ constant(n, e) \in Seq(Int) /\ Len(constant(n, e)) = n
      /\ \A i \in 1..n : constant(n, e)[i] = e
  BY <1>1, Constant
<1>9. /\ constant(n, FALSE) \in Seq(BOOLEAN) /\ Len(constant(n, FALSE)) = n
      /\ \A i \in 1..n : constant(n, FALSE)[i] = FALSE
  BY <1>1, <1>3, Constant
<1> QED BY <1>4, <1>5, <1>6, <1>7, <1>8, <1>9
        DEF withBeaconCount, DataFor, TargetSetupData, n, e

\* Fields that the steps leave alone.
sameBut(data, new, fields) ==
  /\ "patterns" \in fields \/ new.patterns = data.patterns
  /\ "locations" \in fields \/ new.locations = data.locations
  /\ "emissionDirections" \in fields \/ new.emissionDirections = data.emissionDirections
  /\ "initialAutocalibrationErrors" \in fields
       \/ new.initialAutocalibrationErrors = data.initialAutocalibrationErrors
  /\ "isFixed" \in fields \/ new.isFixed = data.isFixed
  /\ new.baseMeasurementVariances = data.baseMeasurementVariances

LEMMA DataVectors ==
  ASSUME NEW c, Configured(c), NEW data, DataFor(c, data)
  PROVE  /\ beaconCount(c) \in {34, 40} /\ (beaconCount(c) = 40 <=> c.includeRearPanel)
         /\ DOMAIN data.patterns = 1..beaconCount(c)
         /\ DOMAIN data.locations = 1..beaconCount(c)
         /\ DOMAIN data.emissionDirections = 1..beaconCount(c)
         /\ DOMAIN data.baseMeasurementVariances = 1..beaconCount(c)
         /\ DOMAIN data.initialAutocalibrationErrors = 1..beaconCount(c)
         /\ DOMAIN data.isFixed = 1..beaconCount(c)
<1>1. beaconCount(c) \in {34, 40} /\ (beaconCount(c) = 40 <=> c.includeRearPanel)
  BY DEF beaconCount, Configured
<1> QED BY <1>1 DEF DataFor, TargetSetupData

LEMMA Patterns ==
  ASSUME NEW c, Configured(c), NEW data, DataFor(c, data)
  PROVE  LET new == withPatterns(data, c) IN
         /\ DataFor(c, new) /\ sameBut(data, new, {"patterns"})
         /\ \A i \in 1..beaconCount(c) :
              /\ enabled(new.patterns[i]) <=> i \notin {35, 38}
              /\ i \notin {35, 38} => /\ Len(new.patterns[i]) = 16
                                     /\ new.patterns[i] = bitsOf(Lit(i))
<1> DEFINE all == SENSOR0_PATTERNS \o SENSOR1_PATTERNS
           ps == IF c.includeRearPanel THEN all ELSE SENSOR0_PATTERNS
           new == [data EXCEPT !.patterns = ps]
<1>1. c.includeRearPanel \in BOOLEAN
  BY DEF Configured
<1>2. /\ all \in Seq(Seq({0, 1, 2})) /\ Len(all) = 40
      /\ \A i \in 1..34 : all[i] = SENSOR0_PATTERNS[i]
      /\ \A j \in 1..6 : all[34 + j] = SENSOR1_PATTERNS[j]
  <2>1. /\ SENSOR0_PATTERNS \in Seq(Seq({0, 1, 2})) /\ Len(SENSOR0_PATTERNS) = 34
        /\ SENSOR1_PATTERNS \in Seq(Seq({0, 1, 2})) /\ Len(SENSOR1_PATTERNS) = 6
    BY SensorPatterns
  <2>2. /\ all \in Seq(Seq({0, 1, 2}))
        /\ Len(all) = Len(SENSOR0_PATTERNS) + Len(SENSOR1_PATTERNS)
        /\ \A i \in 1..Len(SENSOR0_PATTERNS) : all[i] = SENSOR0_PATTERNS[i]
        /\ \A j \in 1..Len(SENSOR1_PATTERNS) :
             all[Len(SENSOR0_PATTERNS) + j] = SENSOR1_PATTERNS[j]
    <3> DEFINE s0 == SENSOR0_PATTERNS
               s1 == SENSOR1_PATTERNS
    <3> HIDE DEF s0, s1
    <3>1. s0 \in Seq(Seq({0, 1, 2})) /\ s1 \in Seq(Seq({0, 1, 2}))
      BY <2>1 DEF s0, s1
    <3>2. /\ s0 \o s1 \in Seq(Seq({0, 1, 2})) /\ Len(s0 \o s1) = Len(s0) + Len(s1)
          /\ \A i \in 1..Len(s0) : (s0 \o s1)[i] = s0[i]
          /\ \A j \in 1..Len(s1) : (s0 \o s1)[Len(s0) + j] = s1[j]
      BY <3>1, Appended
    <3> QED BY <3>2 DEF s0, s1
  <2> HIDE DEF all
  <2> QED BY <2>1, <2>2
<1> HIDE DEF all
<1>3. ASSUME NEW i \in 1..40
      PROVE  /\ enabled(all[i]) <=> i \notin {35, 38}
             /\ i \notin {35, 38} => Len(all[i]) = 16 /\ all[i] = bitsOf(Lit(i))
  <2>1. CASE i <= 34
    <3>1. i \in 1..34 /\ i \notin {35, 38} /\ Lit(i) = Sensor0Lit[i]
      BY <2>1 DEF Lit
    <3>2. all[i] = SENSOR0_PATTERNS[i]
      BY <1>2, <3>1
    <3> QED BY <3>1, <3>2, SensorPatterns DEF bitsOf
  <2>2. CASE i > 34
    <3>1. PICK j \in 1..6 : i = 34 + j
      <4>1. i - 34 \in 1..6 /\ i = 34 + (i - 34)
        BY <2>2
      <4> QED BY <4>1
    <3>2. all[i] = SENSOR1_PATTERNS[j] /\ Lit(i) = Sensor1Lit[j]
      <4>1. ~ (i <= 34) /\ i - 34 = j
        BY <3>1
      <4> QED BY <1>2, <3>1, <4>1 DEF Lit
    <3>3. i \notin {35, 38} <=> j \notin Sensor1Unused
      BY <3>1 DEF Sensor1Unused
    <3>4. /\ j \notin Sensor1Unused => Len(all[i]) = 16
          /\ enabled(all[i]) <=> j \notin Sensor1Unused
          /\ all[i] = patternOf(Lit(i), j \in Sensor1Unused)
      BY <3>2, SensorPatterns
    <3>5. ASSUME j \notin Sensor1Unused PROVE all[i] = bitsOf(Lit(i))
      <4>1. (j \in Sensor1Unused) = FALSE
        BY <3>5
      <4> QED BY <3>4, <4>1 DEF bitsOf
    <3> QED BY <3>3, <3>4, <3>5
  <2>3. i <= 34 \/ i > 34
    OBVIOUS
  <2> QED BY <2>1, <2>2, <2>3
<1>4. ps \in Seq(Seq({0, 1, 2})) /\ Len(ps) = beaconCount(c)
  BY <1>1, <1>2, SensorPatterns DEF beaconCount
<1>5. \A i \in 1..beaconCount(c) :
        /\ enabled(ps[i]) <=> i \notin {35, 38}
        /\ i \notin {35, 38} => Len(ps[i]) = 16 /\ ps[i] = bitsOf(Lit(i))
  <2>1. CASE c.includeRearPanel
    BY <1>3, <2>1 DEF beaconCount
  <2>2. CASE ~ c.includeRearPanel
    <3>1. \A i \in 1..34 : i \in 1..40
      OBVIOUS
    <3>2. \A i \in 1..34 : all[i] = SENSOR0_PATTERNS[i]
      BY <1>2
    <3> QED BY <1>3, <2>2, <3>1, <3>2 DEF beaconCount
  <2> QED BY <2>1, <2>2
<1> HIDE DEF ps
<1>6. new.patterns = ps /\ sameBut(data, new, {"patterns"}) /\ DataFor(c, new)
  BY <1>4 DEF sameBut, DataFor, TargetSetupData
<1> HIDE DEF new
<1>7. withPatterns(data, c) = new
  BY DEF withPatterns, new, ps, all
<1> QED BY <1>5, <1>6, <1>7

\* Locations are replaced.
LEMMA Located ==
  ASSUME NEW c, Configured(c), NEW data, DataFor(c, data),
         NEW first \in Nat \ {0}, NEW m \in Nat, NEW v \in Locations
  PROVE  LET new == [data EXCEPT !.locations = overwrite(@, first, constant(m, v))] IN
         /\ DataFor(c, new) /\ sameBut(data, new, {"locations"})
         /\ \A i \in DOMAIN data.locations \cap places(first, m) : new.locations[i] = v
         /\ \A i \in DOMAIN data.locations \ places(first, m) :
              new.locations[i] = data.locations[i]
<1> DEFINE vector == data.locations
           ls == overwrite(vector, first, constant(m, v))
           new == [data EXCEPT !.locations = ls]
<1>1. vector \in Seq(Locations) /\ Len(vector) = beaconCount(c)
  BY DEF DataFor, TargetSetupData
<1> HIDE DEF vector
<1>2. /\ ls \in Seq(Locations) /\ Len(ls) = Len(vector)
      /\ \A i \in DOMAIN vector \cap places(first, m) : ls[i] = v
      /\ \A i \in DOMAIN vector \ places(first, m) : ls[i] = vector[i]
  <2>1. vector \in Seq(Locations)
    BY <1>1
  <2>2. ls \in Seq(Locations) /\ Len(ls) = Len(vector)
    BY <2>1, Overwritten
  <2>3. \A i \in DOMAIN vector \cap places(first, m) : ls[i] = v
    BY <2>1, Overwritten
  <2>4. \A i \in DOMAIN vector \ places(first, m) : ls[i] = vector[i]
    BY <2>1, Overwritten
  <2> QED BY <2>2, <2>3, <2>4
<1> HIDE DEF ls
<1>3. new.locations = ls /\ sameBut(data, new, {"locations"}) /\ DataFor(c, new)
  BY <1>1, <1>2 DEF sameBut, DataFor, TargetSetupData
<1>4. [data EXCEPT !.locations = overwrite(@, first, constant(m, v))] = new
  BY DEF ls, vector
<1> HIDE DEF new
<1> QED BY <1>2, <1>3, <1>4 DEF vector

LEMMA HdkPlaces ==
  ASSUME NEW n \in {34, 40}
  PROVE  /\ \A i \in 1..n : i \in places(1, 34) <=> i <= 34
         /\ \A i \in 1..n : i \in places(35, 6) <=> i > 34
BY DEF places

\* Where the beacons are said to be, at the end.
LEMMA LocationsGiven ==
  ASSUME NEW c, Configured(c), NEW data, DataFor(c, data)
  PROVE  LET new == withRearLocations(withCalibration(withFrontLocations(data), c), c) IN
         /\ DataFor(c, new)
         /\ sameBut(data, new, {"locations", "initialAutocalibrationErrors"})
         /\ \A i \in 1..beaconCount(c) :
              /\ i > 34 => new.locations[i] = "rear"
              /\ i <= 34 => new.locations[i] = IF calibrationFits(c) THEN "calibrated"
                                                                     ELSE "built-in"
              /\ new.initialAutocalibrationErrors[i] =
                   IF calibrationFits(c) /\ i <= 34
                     THEN data.initialAutocalibrationErrors[i] \div 10
                     ELSE data.initialAutocalibrationErrors[i]
<1> DEFINE n == beaconCount(c)
           front == withFrontLocations(data)
           cal == withCalibration(front, c)
           new == withRearLocations(cal, c)
<1>1. n \in {34, 40} /\ (n = 40 <=> c.includeRearPanel)
      /\ DOMAIN data.locations = 1..n /\ numFrontBeacons = 34 /\ numRearBeacons = 6
  BY DataVectors DEF numFrontBeacons, numRearBeacons
<1>2. /\ DataFor(c, front) /\ sameBut(data, front, {"locations"})
      /\ \A i \in 1..n : i <= 34 => front.locations[i] = "built-in"
  <2>1. "built-in" \in Locations /\ 1 \in Nat \ {0} /\ 34 \in Nat
    BY DEF Locations
  <2>2. front = [data EXCEPT !.locations = overwrite(@, 1, constant(34, "built-in"))]
    BY <1>1 DEF withFrontLocations
  <2> HIDE DEF front, n
  <2>3. /\ DataFor(c, front) /\ sameBut(data, front, {"locations"})
        /\ \A i \in DOMAIN data.locations \cap places(1, 34) : front.locations[i] = "built-in"
    BY <2>1, <2>2, Located
  <2> QED BY <1>1, <2>3, HdkPlaces
<1> HIDE DEF front
<1>3. /\ DataFor(c, cal)
      /\ sameBut(data, cal, {"locations", "initialAutocalibrationErrors"})
      /\ \A i \in 1..n : i <= 34 => cal.locations[i] = IF calibrationFits(c) THEN "calibrated"
                                                                          ELSE "built-in"
      /\ \A i \in 1..n : cal.initialAutocalibrationErrors[i] =
              IF calibrationFits(c) /\ i <= 34
                THEN data.initialAutocalibrationErrors[i] \div 10
                ELSE data.initialAutocalibrationErrors[i]
  <2>1. CASE ~ calibrationFits(c)
    BY <1>2, <2>1 DEF withCalibration, sameBut
  <2>2. CASE calibrationFits(c)
    <3> DEFINE moved == [front EXCEPT !.locations = overwrite(@, 1, constant(34, "calibrated"))]
               old == front.initialAutocalibrationErrors
               errs == [i \in DOMAIN old |-> IF i <= 34 THEN old[i] \div 10 ELSE old[i]]
    <3>1. "calibrated" \in Locations /\ 1 \in Nat \ {0} /\ 34 \in Nat
      BY DEF Locations
    <3>2. /\ DataFor(c, moved) /\ sameBut(front, moved, {"locations"})
          /\ \A i \in DOMAIN front.locations \cap places(1, 34) : moved.locations[i] = "calibrated"
      BY <1>2, <3>1, Located
    <3>3. old \in Seq(Int) /\ Len(old) = n /\ DOMAIN old = 1..n
      BY <1>2, DataVectors DEF DataFor, TargetSetupData
    <3> HIDE DEF old, n
    <3>4. errs \in Seq(Int) /\ Len(errs) = n
      <4>1. errs = [i \in DOMAIN old |-> errs[i]]
        OBVIOUS
      <4>2. \A i \in 1..Len(old) : errs[i] \in Int
        BY <3>3
      <4> HIDE DEF errs
      <4> QED BY <3>3, <4>1, <4>2, Recomputed
    <3>5. cal = [moved EXCEPT !.initialAutocalibrationErrors = errs]
      BY <1>1, <2>2 DEF withCalibration, old
    <3>6. \A i \in 1..n : errs[i] = IF i <= 34 THEN old[i] \div 10 ELSE old[i]
      BY <3>3
    <3> HIDE DEF errs, moved
    <3>7. /\ DataFor(c, cal) /\ cal.initialAutocalibrationErrors = errs
          /\ sameBut(moved, cal, {"initialAutocalibrationErrors"})
      BY <3>2, <3>4, <3>5 DEF DataFor, TargetSetupData, sameBut, n
    <3>8. /\ sameBut(data, cal, {"locations", "initialAutocalibrationErrors"})
          /\ old = data.initialAutocalibrationErrors
          /\ cal.locations = moved.locations
      BY <1>2, <3>2, <3>7 DEF sameBut, old
    <3>9. DOMAIN front.locations = 1..n
      BY <1>2, DataVectors DEF n
    <3>10. ASSUME NEW i \in 1..n, i <= 34 PROVE cal.locations[i] = "calibrated"
      <4>1. i \in DOMAIN front.locations \cap places(1, 34)
        BY <1>1, <3>9, <3>10, HdkPlaces
      <4> QED BY <3>2, <3>8, <4>1
    <3>11. ASSUME NEW i \in 1..n
           PROVE  cal.initialAutocalibrationErrors[i] =
                    IF i <= 34 THEN data.initialAutocalibrationErrors[i] \div 10
                    ELSE data.initialAutocalibrationErrors[i]
      BY <3>6, <3>7, <3>8
    <3> QED BY <2>2, <3>7, <3>8, <3>10, <3>11
  <2> QED BY <2>1, <2>2
<1> HIDE DEF cal
<1>4. /\ DataFor(c, new) /\ sameBut(cal, new, {"locations"})
      /\ \A i \in 1..n : i > 34 => new.locations[i] = "rear"
      /\ \A i \in 1..n : i <= 34 => new.locations[i] = cal.locations[i]
  <2>1. CASE ~ c.includeRearPanel
    BY <1>1, <1>3, <2>1 DEF withRearLocations, sameBut
  <2>2. CASE c.includeRearPanel
    <3>1. "rear" \in Locations /\ 35 \in Nat \ {0} /\ 6 \in Nat
      BY DEF Locations
    <3>2. new = [cal EXCEPT !.locations = overwrite(@, 35, constant(6, "rear"))]
      BY <1>1, <2>2 DEF withRearLocations
    <3> HIDE DEF new
    <3>3. /\ DataFor(c, new) /\ sameBut(cal, new, {"locations"})
          /\ \A i \in DOMAIN cal.locations \cap places(35, 6) : new.locations[i] = "rear"
          /\ \A i \in DOMAIN cal.locations \ places(35, 6) : new.locations[i] = cal.locations[i]
      BY <1>3, <3>1, <3>2, Located
    <3>4. DOMAIN cal.locations = 1..n
      BY <1>3, DataVectors
    <3>5. \A i \in 1..n : i <= 34 => ~ (i > 34)
      BY <1>1
    <3> HIDE DEF n
    <3> QED BY <1>1, <3>3, <3>4, <3>5, HdkPlaces
  <2> QED BY <1>1, <2>1, <2>2
<1> HIDE DEF new
<1>5. sameBut(data, new, {"locations", "initialAutocalibrationErrors"})
      /\ new.initialAutocalibrationErrors = cal.initialAutocalibrationErrors
  BY <1>3, <1>4 DEF sameBut
<1> HIDE DEF n
<1> QED BY <1>3, <1>4, <1>5 DEF new, cal, front, n

LEMMA DirectionsGiven ==
  ASSUME NEW c, Configured(c), NEW data, DataFor(c, data)
  PROVE  LET new == withDirections(data, c) IN
         /\ DataFor(c, new) /\ sameBut(data, new, {"emissionDirections"})
         /\ \A i \in 1..beaconCount(c) :
              new.emissionDirections[i] = IF i > 34 THEN "backwards" ELSE "measured"
<1> DEFINE n == beaconCount(c)
           old == data.emissionDirections
           front == overwrite(old, 1, constant(34, "measured"))
           both == SubSeq(front, 1, 34) \o constant(6, "backwards")
           ds == IF c.includeRearPanel THEN both ELSE front
           new == withDirections(data, c)
<1>1. /\ n \in {34, 40} /\ (n = 40 <=> c.includeRearPanel) /\ c.includeRearPanel \in BOOLEAN
      /\ numFrontBeacons = 34 /\ numRearBeacons = 6
      /\ old \in Seq(Directions) /\ Len(old) = n /\ DOMAIN old = 1..n
  BY DataVectors DEF numFrontBeacons, numRearBeacons, DataFor, TargetSetupData, Configured
<1>2. "measured" \in Directions /\ "backwards" \in Directions
  BY DEF Directions
<1>3. /\ front \in Seq(Directions) /\ Len(front) = n
      /\ \A i \in 1..34 : front[i] = "measured"
  <2> HIDE DEF old
  <2> DEFINE first == 1
             m == 34
             v == "measured"
  <2>0. first \in Nat \ {0} /\ m \in Nat /\ v \in Directions /\ old \in Seq(Directions)
    BY <1>1, <1>2
  <2>4. front = overwrite(old, first, constant(m, v))
    OBVIOUS
  <2> HIDE DEF front, first, m, v
  <2>5. overwrite(old, first, constant(m, v)) \in Seq(Directions)
    BY <2>0, Overwritten
  <2>7. Len(overwrite(old, first, constant(m, v))) = Len(old)
    BY <2>0, Overwritten
  <2>6. \A i \in DOMAIN old \cap places(first, m) : overwrite(old, first, constant(m, v))[i] = v
    BY <2>0, Overwritten
  <2>1. front \in Seq(Directions) /\ Len(front) = Len(old)
    BY <2>4, <2>5, <2>7
  <2>2. \A i \in DOMAIN old \cap places(1, 34) : front[i] = "measured"
    BY <2>4, <2>6 DEF first, m, v
  <2>3. \A i \in 1..34 : i \in DOMAIN old \cap places(1, 34)
    BY <1>1 DEF places
  <2> QED BY <1>1, <2>1, <2>2, <2>3
<1>4. new = [data EXCEPT !.emissionDirections = ds]
  BY <1>1 DEF withDirections
<1> HIDE DEF front, n, old, new
<1>5. /\ both \in Seq(Directions) /\ Len(both) = 40
      /\ \A i \in 1..34 : both[i] = "measured"
      /\ \A j \in 1..6 : both[34 + j] = "backwards"
  <2> DEFINE head == SubSeq(front, 1, 34)
             tail == constant(6, "backwards")
  <2>1. /\ head \in Seq(Directions) /\ Len(head) = 34
        /\ \A i \in 1..34 : head[i] = front[i]
    <3> DEFINE m == 34
    <3>8. \A i \in 1..m : front[i] \in Directions
      BY <1>2, <1>3
    <3>1. m \in Int /\ 1 \in Int /\ \A i \in 1..m : front[i] \in Directions
      BY <3>8
    <3>2. head = SubSeq(front, 1, m)
      OBVIOUS
    <3> HIDE DEF m, head
    <3>3. SubSeq(front, 1, m) \in Seq(Directions)
      BY <3>1, SubSeqProperties
    <3>4. Len(SubSeq(front, 1, m)) = IF 1 <= m THEN m - 1 + 1 ELSE 0
      BY <3>1, SubSeqProperties
    <3>5. \A i \in 1..(m - 1 + 1) : SubSeq(front, 1, m)[i] = front[1 + i - 1]
      BY <3>1, SubSeqProperties
    <3>6. \A i \in 1..34 : 1 + i - 1 = i
      OBVIOUS
    <3>7. m - 1 + 1 = 34 /\ 1 <= m
      BY DEF m
    <3> QED BY <3>2, <3>3, <3>4, <3>5, <3>6, <3>7
  <2>2. /\ tail \in Seq(Directions) /\ Len(tail) = 6
        /\ \A i \in 1..6 : tail[i] = "backwards"
    BY <1>2, Constant
  <2> HIDE DEF head, tail
  <2>3. /\ head \o tail \in Seq(Directions) /\ Len(head \o tail) = Len(head) + Len(tail)
        /\ \A i \in 1..Len(head) : (head \o tail)[i] = head[i]
        /\ \A j \in 1..Len(tail) : (head \o tail)[Len(head) + j] = tail[j]
    <3>1. head \in Seq(Directions) /\ tail \in Seq(Directions)
      BY <2>1, <2>2
    <3> QED BY <3>1, Appended
  <2>4. both = head \o tail
    BY DEF head, tail
  <2> HIDE DEF both
  <2>5. both \in Seq(Directions) /\ Len(both) = 40
    BY <2>1, <2>2, <2>3, <2>4
  <2>6. \A i \in 1..34 : both[i] = "measured"
    BY <1>3, <2>1, <2>3, <2>4
  <2>7. \A j \in 1..6 : both[34 + j] = "backwards"
    BY <2>1, <2>2, <2>3, <2>4
  <2> QED BY <2>5, <2>6, <2>7
<1> HIDE DEF both
<1>6. ds \in Seq(Directions) /\ Len(ds) = n
  BY <1>1, <1>3, <1>5
<1>7. ASSUME NEW i \in 1..n PROVE ds[i] = IF i > 34 THEN "backwards" ELSE "measured"
  <2>1. CASE i <= 34
    <3>1. i \in 1..34 /\ ~ (i > 34)
      BY <1>1, <2>1
    <3> QED BY <1>1, <1>3, <1>5, <3>1
  <2>2. CASE i > 34
    <3>1. PICK j \in 1..6 : i = 34 + j
      <4>1. i - 34 \in 1..6 /\ i = 34 + (i - 34)
        BY <1>1, <2>2
      <4> QED BY <4>1
    <3>2. c.includeRearPanel
      BY <1>1, <2>2
    <3> QED BY <1>5, <2>2, <3>1, <3>2
  <2>3. i <= 34 \/ i > 34
    BY <1>1
  <2> QED BY <2>1, <2>2, <2>3
<1> HIDE DEF ds
<1>8. DataFor(c, new) /\ sameBut(data, new, {"emissionDirections"})
      /\ new.emissionDirections = ds
  BY <1>4, <1>6 DEF DataFor, TargetSetupData, sameBut, n
<1> QED BY <1>7, <1>8 DEF n, new

LEMMA FixedGiven ==
  ASSUME NEW c, Configured(c), NEW data, DataFor(c, data)
  PROVE  LET new == withFixed(data) IN
         /\ DataFor(c, new)
         /\ sameBut(data, new, {"isFixed", "initialAutocalibrationErrors"})
         /\ \A i \in 1..beaconCount(c) :
              /\ new.isFixed[i] <=> data.isFixed[i] \/ i \in FixedBeacons
              /\ new.initialAutocalibrationErrors[i] =
                   IF i \in FixedBeacons THEN 0 ELSE data.initialAutocalibrationErrors[i]
<1> DEFINE n == beaconCount(c)
           fixed == data.isFixed
           old == data.initialAutocalibrationErrors
           fs == [i \in DOMAIN fixed |-> fixed[i] \/ i \in FixedBeacons]
           es == [i \in DOMAIN old |-> IF i \in FixedBeacons THEN 0 ELSE old[i]]
           new == withFixed(data)
<1>1. /\ fixed \in Seq(BOOLEAN) /\ Len(fixed) = n /\ DOMAIN fixed = 1..n
      /\ old \in Seq(Int) /\ Len(old) = n /\ DOMAIN old = 1..n
  BY DataVectors DEF DataFor, TargetSetupData
<1>2. new = [data EXCEPT !.isFixed = fs, !.initialAutocalibrationErrors = es]
  BY DEF withFixed
<1> HIDE DEF fixed, old, n, new
<1>3. fs \in Seq(BOOLEAN) /\ Len(fs) = n
      /\ \A i \in 1..n : fs[i] <=> fixed[i] \/ i \in FixedBeacons
  <2>1. fs = [i \in DOMAIN fixed |-> fs[i]]
    OBVIOUS
  <2>2. \A i \in 1..Len(fixed) : fs[i] = (fixed[i] \/ i \in FixedBeacons)
    BY <1>1
  <2>3. ASSUME NEW i \in 1..Len(fixed) PROVE fs[i] \in BOOLEAN
    <3>1. fs[i] = (fixed[i] \/ i \in FixedBeacons)
      BY <2>2
    <3> HIDE DEF fs
    <3> QED BY <3>1, Zenon
  <2> HIDE DEF fs
  <2>4. fs \in Seq(BOOLEAN) /\ Len(fs) = Len(fixed)
    BY <1>1, <2>1, <2>3, Recomputed
  <2> QED BY <1>1, <2>2, <2>4
<1>4. es \in Seq(Int) /\ Len(es) = n
      /\ \A i \in 1..n : es[i] = IF i \in FixedBeacons THEN 0 ELSE old[i]
  <2>1. es = [i \in DOMAIN old |-> es[i]]
    OBVIOUS
  <2>2. \A i \in 1..Len(old) : es[i] = IF i \in FixedBeacons THEN 0 ELSE old[i]
    BY <1>1
  <2>3. \A i \in 1..Len(old) : es[i] \in Int
    BY <1>1, <2>2
  <2> HIDE DEF es
  <2>4. es \in Seq(Int) /\ Len(es) = Len(old)
    BY <1>1, <2>1, <2>3, Recomputed
  <2> QED BY <1>1, <2>2, <2>4
<1> HIDE DEF fs, es
<1>5. /\ DataFor(c, new) /\ new.isFixed = fs /\ new.initialAutocalibrationErrors = es
      /\ sameBut(data, new, {"isFixed", "initialAutocalibrationErrors"})
  BY <1>2, <1>3, <1>4 DEF DataFor, TargetSetupData, sameBut, n
<1> QED BY <1>3, <1>4, <1>5 DEF n, fixed, old, new

LEMMA MissingLeftOut ==
  ASSUME NEW c, Configured(c), NEW data, DataFor(c, data)
  PROVE  LET new == withoutMissing(data, c) IN
         /\ DataFor(c, new) /\ sameBut(data, new, {"patterns"})
         /\ \A i \in 1..beaconCount(c) :
              IF c.targetSet = "HDK2" /\ i \in HDK2_Missing_Beacons
                THEN new.patterns[i] = <<>> ELSE new.patterns[i] = data.patterns[i]
<1> DEFINE n == beaconCount(c)
           old == data.patterns
           ps == [i \in DOMAIN old |-> IF i \in HDK2_Missing_Beacons THEN <<>> ELSE old[i]]
           new == withoutMissing(data, c)
<1>1. CASE c.targetSet # "HDK2"
  BY <1>1 DEF withoutMissing, sameBut
<1>2. CASE c.targetSet = "HDK2"
  <2>1. old \in Seq(Seq({0, 1, 2})) /\ Len(old) = n /\ DOMAIN old = 1..n
    BY DataVectors DEF DataFor, TargetSetupData
  <2>2. new = [data EXCEPT !.patterns = ps]
    BY <1>2 DEF withoutMissing
  <2> HIDE DEF old, n, new
  <2>3. ps \in Seq(Seq({0, 1, 2})) /\ Len(ps) = n
        /\ \A i \in 1..n : ps[i] = IF i \in HDK2_Missing_Beacons THEN <<>> ELSE old[i]
    <3>1. ps = [i \in DOMAIN old |-> ps[i]]
      OBVIOUS
    <3>2. \A i \in 1..Len(old) : ps[i] = IF i \in HDK2_Missing_Beacons THEN <<>> ELSE old[i]
      BY <2>1
    <3>3. \A i \in 1..Len(old) : ps[i] \in Seq({0, 1, 2})
      <4>1. <<>> \in Seq({0, 1, 2}) /\ \A i \in 1..Len(old) : old[i] \in Seq({0, 1, 2})
        BY <2>1, EmptySeq
      <4> HIDE DEF ps
      <4> QED BY <3>2, <4>1
    <3> HIDE DEF ps
    <3>4. ps \in Seq(Seq({0, 1, 2})) /\ Len(ps) = Len(old)
      <4>1. /\ old \in Seq(Seq({0, 1, 2})) /\ ps = [i \in DOMAIN old |-> ps[i]]
            /\ \A i \in 1..Len(old) : ps[i] \in Seq({0, 1, 2})
        BY <2>1, <3>1, <3>3
      <4> DEFINE T == Seq({0, 1, 2})
      <4> HIDE DEF T
      <4>2. old \in Seq(T) /\ \A i \in 1..Len(old) : ps[i] \in T
        BY <4>1 DEF T
      <4>3. ps \in Seq(T) /\ Len(ps) = Len(old)
        BY <4>1, <4>2, Recomputed
      <4> QED BY <4>3 DEF T
    <3> QED BY <2>1, <3>2, <3>4
  <2> HIDE DEF ps
  <2>4. DataFor(c, new) /\ sameBut(data, new, {"patterns"}) /\ new.patterns = ps
    BY <2>2, <2>3 DEF DataFor, TargetSetupData, sameBut, n
  <2> QED BY <1>2, <2>3, <2>4 DEF n, old, new
<1> QED BY <1>1, <1>2

\* The data of the HDK, entry by entry.
HdkData(c, data) ==
  /\ DataFor(c, data)
  /\ \A i \in 1..beaconCount(c) :
       /\ enabled(data.patterns[i])
            <=> i \notin {35, 38} /\ ~ (c.targetSet = "HDK2" /\ i \in HDK2_Missing_Beacons)
       /\ enabled(data.patterns[i])
            => Len(data.patterns[i]) = 16 /\ data.patterns[i] = bitsOf(Lit(i))
       /\ i > 34 => data.locations[i] = "rear"
       /\ i <= 34 => data.locations[i] = IF calibrationFits(c) THEN "calibrated" ELSE "built-in"
       /\ data.emissionDirections[i] = IF i > 34 THEN "backwards" ELSE "measured"
       /\ data.baseMeasurementVariances[i] = BaseMeasurementVariance
       /\ data.isFixed[i] <=> i \in FixedBeacons
       /\ data.initialAutocalibrationErrors[i] =
            IF i \in FixedBeacons THEN 0
            ELSE IF calibrationFits(c) /\ i <= 34 THEN c.initialBeaconError \div 10
            ELSE c.initialBeaconError

LEMMA HdkDataGiven ==
  ASSUME NEW c, Configured(c)
  PROVE  HdkData(c, hdkTargetData(c))
<1> DEFINE n == beaconCount(c)
           empty == withBeaconCount(n, BaseMeasurementVariance, c.initialBeaconError)
           patterned == withPatterns(empty, c)
           located == withRearLocations(withCalibration(withFrontLocations(patterned), c), c)
           directed == withDirections(located, c)
           fixed == withFixed(directed)
           data == withoutMissing(fixed, c)
<1>1. data = hdkTargetData(c)
  BY DEF hdkTargetData, beaconCount, numFrontBeacons, numRearBeacons, Configured
<1>2. /\ DataFor(c, empty)
      /\ \A i \in 1..n : /\ empty.baseMeasurementVariances[i] = BaseMeasurementVariance
                         /\ empty.initialAutocalibrationErrors[i] = c.initialBeaconError
                         /\ empty.isFixed[i] = FALSE
  BY EmptyData
<1> HIDE DEF empty
<1>3. /\ DataFor(c, patterned) /\ sameBut(empty, patterned, {"patterns"})
      /\ \A i \in 1..n : /\ enabled(patterned.patterns[i]) <=> i \notin {35, 38}
                         /\ i \notin {35, 38} => /\ Len(patterned.patterns[i]) = 16
                                                /\ patterned.patterns[i] = bitsOf(Lit(i))
  BY <1>2, Patterns
<1> HIDE DEF patterned
<1>4. /\ DataFor(c, located)
      /\ sameBut(patterned, located, {"locations", "initialAutocalibrationErrors"})
      /\ \A i \in 1..n :
           /\ i > 34 => located.locations[i] = "rear"
           /\ i <= 34 => located.locations[i] = IF calibrationFits(c) THEN "calibrated"
                                                                     ELSE "built-in"
           /\ located.initialAutocalibrationErrors[i] =
                IF calibrationFits(c) /\ i <= 34
                  THEN patterned.initialAutocalibrationErrors[i] \div 10
                  ELSE patterned.initialAutocalibrationErrors[i]
  BY <1>3, LocationsGiven
<1> HIDE DEF located
<1>5. /\ DataFor(c, directed) /\ sameBut(located, directed, {"emissionDirections"})
      /\ \A i \in 1..n :
           directed.emissionDirections[i] = IF i > 34 THEN "backwards" ELSE "measured"
  BY <1>4, DirectionsGiven
<1> HIDE DEF directed
<1>6. /\ DataFor(c, fixed)
      /\ sameBut(directed, fixed, {"isFixed", "initialAutocalibrationErrors"})
      /\ \A i \in 1..n :
           /\ fixed.isFixed[i] <=> directed.isFixed[i] \/ i \in FixedBeacons
           /\ fixed.initialAutocalibrationErrors[i] =
                IF i \in FixedBeacons THEN 0 ELSE directed.initialAutocalibrationErrors[i]
  BY <1>5, FixedGiven
<1> HIDE DEF fixed
<1>7. /\ DataFor(c, data) /\ sameBut(fixed, data, {"patterns"})
      /\ \A i \in 1..n :
           IF c.targetSet = "HDK2" /\ i \in HDK2_Missing_Beacons
             THEN data.patterns[i] = <<>> ELSE data.patterns[i] = fixed.patterns[i]
  BY <1>6, MissingLeftOut
<1> HIDE DEF data
<1>8. /\ fixed.patterns = patterned.patterns
      /\ data.locations = located.locations
      /\ data.emissionDirections = directed.emissionDirections
      /\ data.baseMeasurementVariances = empty.baseMeasurementVariances
      /\ data.isFixed = fixed.isFixed /\ directed.isFixed = empty.isFixed
      /\ data.initialAutocalibrationErrors = fixed.initialAutocalibrationErrors
      /\ directed.initialAutocalibrationErrors = located.initialAutocalibrationErrors
      /\ patterned.initialAutocalibrationErrors = empty.initialAutocalibrationErrors
  BY <1>3, <1>4, <1>5, <1>6, <1>7 DEF sameBut
<1>9. ASSUME NEW i \in 1..n
      PROVE  /\ enabled(data.patterns[i])
                  <=> i \notin {35, 38} /\ ~ (c.targetSet = "HDK2" /\ i \in HDK2_Missing_Beacons)
             /\ enabled(data.patterns[i])
                  => Len(data.patterns[i]) = 16 /\ data.patterns[i] = bitsOf(Lit(i))
  <2>1. ~ enabled(<<>>)
    BY DEF enabled
  <2> QED BY <1>3, <1>7, <1>8, <2>1
<1>10. ASSUME NEW i \in 1..n
       PROVE  /\ i > 34 => data.locations[i] = "rear"
              /\ i <= 34 => data.locations[i] = IF calibrationFits(c) THEN "calibrated"
                                                                     ELSE "built-in"
              /\ data.emissionDirections[i] = IF i > 34 THEN "backwards" ELSE "measured"
              /\ data.baseMeasurementVariances[i] = BaseMeasurementVariance
              /\ data.isFixed[i] <=> i \in FixedBeacons
  BY <1>2, <1>4, <1>5, <1>6, <1>8
<1>11. ASSUME NEW i \in 1..n
       PROVE  data.initialAutocalibrationErrors[i] =
                IF i \in FixedBeacons THEN 0
                ELSE IF calibrationFits(c) /\ i <= 34 THEN c.initialBeaconError \div 10
                ELSE c.initialBeaconError
  BY <1>2, <1>4, <1>6, <1>8
<1> QED BY <1>1, <1>7, <1>9, <1>10, <1>11 DEF HdkData

-----------------------------------------------------------------------------
(***************************************************************************)
(* The HDK, set up.                                                        *)
(***************************************************************************)
LEMMA RootsConfigured ==
  ASSUME NEW r \in Roots
  PROVE  /\ Configured(parseConfigParams(r))
         /\ SetupOf[r] = hdkTargetData(parseConfigParams(r))
         /\ SetupOf[r] \in TargetSetupData
<1>1. Configured(parseConfigParams(r))
  BY RootsAssumption DEF Configured
<1>2. SetupOf[r] = hdkTargetData(parseConfigParams(r))
  BY DEF SetupOf
<1>3. HdkData(parseConfigParams(r), hdkTargetData(parseConfigParams(r)))
  BY <1>1, HdkDataGiven
<1> QED BY <1>1, <1>2, <1>3 DEF HdkData, DataFor

-----------------------------------------------------------------------------
(***************************************************************************)
(* The data is kept.                                                       *)
(***************************************************************************)
LEMMA InitKept == Init => CleanInv
<1> SUFFICES ASSUME Init PROVE CleanInv
  OBVIOUS
<1>1. given \in TargetSetupData /\ d = given /\ next = 1 /\ m_patternLength = 0
      /\ errors = {} /\ validBeacons = {} /\ target = "none"
  BY DataAssumption, RootsConfigured DEF Init, BeaconSetupInit
<1>2. DataKept
  BY <1>1 DEF DataKept
<1>3. minSize \in Nat /\ maxSize \in Nat
  BY <1>1, SizesOrdered
<1>4. \A i \in 1..minSize : ~ checked(i)
  BY <1>1 DEF checked
<1>5. ReportKept
  BY <1>1, <1>3, <1>4 DEF ReportKept, checked
<1> QED BY <1>1, <1>2, <1>5 DEF CleanInv, TargetKept

LEMMA CleanDisabledKeepsData == DataKept /\ ReportKept /\ CleanDisabled => DataKept'
<1> SUFFICES ASSUME DataKept, ReportKept, CleanDisabled PROVE DataKept'
  OBVIOUS
<1>1. next \in 1..minSize /\ minSize \in Nat /\ next' = next + 1
  BY SizesOrdered DEF DataKept, ReportKept, CleanDisabled
<1>2. next \in DOMAIN d.patterns /\ next \in DOMAIN given.patterns
  BY <1>1, InAllVectors
<1>3. d' = [d EXCEPT !.patterns = [d.patterns EXCEPT ![next] = <<>>]] /\ given' = given
  BY DEF CleanDisabled
<1>4. [d.patterns EXCEPT ![next] = <<>>] \in Seq(Seq({0, 1, 2}))
      /\ Len([d.patterns EXCEPT ![next] = <<>>]) = Len(d.patterns)
      /\ \A i \in DOMAIN d.patterns :
           [d.patterns EXCEPT ![next] = <<>>][i] = IF i = next THEN <<>> ELSE d.patterns[i]
  <2>1. <<>> \in Seq({0, 1, 2}) /\ d.patterns \in Seq(Seq({0, 1, 2}))
    BY DEF DataKept, TargetSetupData
  <2> QED BY <1>2, <2>1, ExceptSeq
<1>5. d' \in TargetSetupData /\ d'.patterns = [d.patterns EXCEPT ![next] = <<>>]
      /\ d'.locations = d.locations /\ d'.emissionDirections = d.emissionDirections
      /\ d'.baseMeasurementVariances = d.baseMeasurementVariances
      /\ d'.initialAutocalibrationErrors = d.initialAutocalibrationErrors
      /\ d'.isFixed = d.isFixed
  BY <1>3, <1>4 DEF DataKept, TargetSetupData
<1>6. ~ enabled(d.patterns[next]) /\ ~ enabled(<<>>)
  BY DEF CleanDisabled, enabled
<1>7. d.patterns[next] = given.patterns[next]
  BY <1>1, <1>2 DEF DataKept
<1>8. ASSUME NEW i \in DOMAIN given.patterns
      PROVE  /\ enabled(given.patterns[i]) \/ i >= next' => d'.patterns[i] = given.patterns[i]
             /\ enabled(d'.patterns[i]) => enabled(given.patterns[i])
  <2>1. i \in DOMAIN d.patterns /\ i \in Nat
    BY DEF DataKept, TargetSetupData
  <2>2. CASE i = next
    BY <2>1, <2>2, <1>1, <1>4, <1>5, <1>6, <1>7
  <2>3. CASE i # next
    <3>1. d'.patterns[i] = d.patterns[i]
      BY <2>1, <2>3, <1>4, <1>5
    <3>2. i >= next' => i >= next
      BY <2>1, <1>1
    <3> QED BY <3>1, <3>2 DEF DataKept
  <2> QED BY <2>2, <2>3
<1> QED BY <1>3, <1>4, <1>5, <1>8 DEF DataKept

\* Normalizing the error of a fixed beacon keeps the data.
LEMMA NormalizedKeepsData ==
  ASSUME DataKept, next \in Nat, next' = next + 1, given' = given,
         next \in DOMAIN d.initialAutocalibrationErrors, next \in DOMAIN d.isFixed,
         d' = normalized(next),
         has(d.patterns, next) => enabled(d.patterns[next])
  PROVE  /\ DataKept'
         /\ d.isFixed[next] => d'.initialAutocalibrationErrors[next] = 0
         /\ \A i \in DOMAIN d.initialAutocalibrationErrors :
              i # next => d'.initialAutocalibrationErrors[i] = d.initialAutocalibrationErrors[i]
<1> DEFINE zeroed == [d.initialAutocalibrationErrors EXCEPT ![next] = 0]
<1>1. CASE ~ d.isFixed[next]
  <2>1. d' = d
    BY <1>1 DEF normalized
  <2>2. ASSUME NEW i \in DOMAIN given.patterns
        PROVE  enabled(given.patterns[i]) \/ i >= next' => d.patterns[i] = given.patterns[i]
    BY DEF DataKept, TargetSetupData
  <2>3. DataKept'
    BY <2>1, <2>2 DEF DataKept
  <2> QED BY <1>1, <2>1, <2>3
<1>2. CASE d.isFixed[next]
  <2>1. d' = [d EXCEPT !.initialAutocalibrationErrors = zeroed]
    BY <1>2 DEF normalized
  <2>2. zeroed \in Seq(Int) /\ Len(zeroed) = Len(d.initialAutocalibrationErrors)
        /\ \A i \in DOMAIN d.initialAutocalibrationErrors :
             zeroed[i] = IF i = next THEN 0 ELSE d.initialAutocalibrationErrors[i]
    <3>1. d.initialAutocalibrationErrors \in Seq(Int) /\ 0 \in Int
      BY DEF DataKept, TargetSetupData
    <3> QED BY <3>1, ExceptSeq
  <2>3. d' \in TargetSetupData /\ d'.initialAutocalibrationErrors = zeroed
        /\ d'.patterns = d.patterns
        /\ d'.locations = d.locations /\ d'.emissionDirections = d.emissionDirections
        /\ d'.baseMeasurementVariances = d.baseMeasurementVariances
        /\ d'.isFixed = d.isFixed
    <3> HIDE DEF zeroed
    <3> QED BY <2>1, <2>2 DEF DataKept, TargetSetupData
  <2> HIDE DEF zeroed
  <2>4. DataKept'
    <3>1. ASSUME NEW i \in DOMAIN given.patterns
          PROVE  enabled(given.patterns[i]) \/ i >= next' => d.patterns[i] = given.patterns[i]
      BY <3>1 DEF DataKept, TargetSetupData
    <3>2. ASSUME NEW i \in DOMAIN given.initialAutocalibrationErrors
          PROVE  \/ has(given.isFixed, i) /\ given.isFixed[i]
                 \/ d'.initialAutocalibrationErrors[i] = given.initialAutocalibrationErrors[i]
      <4>1. i \in DOMAIN d.initialAutocalibrationErrors
        BY DEF DataKept, TargetSetupData
      <4>2. CASE i = next
        BY <4>2, <1>2 DEF has, DataKept
      <4>3. CASE i # next
        BY <4>1, <4>3, <2>2, <2>3 DEF DataKept
      <4> QED BY <4>2, <4>3
    <3> QED BY <2>2, <2>3, <3>1, <3>2 DEF DataKept
  <2> QED BY <2>2, <2>3, <2>4
<1> QED BY <1>1, <1>2 DEF DataKept, TargetSetupData

LEMMA CheckBeaconKeepsData ==
  DataKept /\ ReportKept /\ CheckBeacon =>
    /\ DataKept'
    /\ d.isFixed[next] => d'.initialAutocalibrationErrors[next] = 0
    /\ \A i \in DOMAIN d.initialAutocalibrationErrors :
         i # next => d'.initialAutocalibrationErrors[i] = d.initialAutocalibrationErrors[i]
<1> SUFFICES ASSUME DataKept, ReportKept, CheckBeacon
             PROVE  /\ DataKept'
                    /\ d.isFixed[next] => d'.initialAutocalibrationErrors[next] = 0
                    /\ \A i \in DOMAIN d.initialAutocalibrationErrors :
                         i # next => d'.initialAutocalibrationErrors[i]
                                       = d.initialAutocalibrationErrors[i]
  OBVIOUS
<1>1. next \in 1..minSize /\ next \in Nat
  BY SizesOrdered DEF DataKept, ReportKept, CheckBeacon
<1>2. next \in DOMAIN d.initialAutocalibrationErrors /\ next \in DOMAIN d.isFixed
  BY <1>1, InAllVectors
<1>3. next' = next + 1 /\ given' = given /\ d' = normalized(next) /\ enabled(d.patterns[next])
  BY DEF CheckBeacon
<1> QED BY <1>1, <1>2, <1>3, NormalizedKeepsData

LEMMA TailKeepsData ==
  DataKept /\ ReportKept /\ (TailDisabled \/ CheckTail) =>
    /\ DataKept'
    /\ \A i \in 1..minSize :
         d'.initialAutocalibrationErrors[i] = d.initialAutocalibrationErrors[i]
<1> SUFFICES ASSUME DataKept, ReportKept, TailDisabled \/ CheckTail
             PROVE  /\ DataKept'
                    /\ \A i \in 1..minSize : d'.initialAutocalibrationErrors[i]
                                              = d.initialAutocalibrationErrors[i]
  OBVIOUS
<1>1. minSize \in Nat /\ next \in Nat /\ minSize < next /\ next' = next + 1 /\ given' = given
  BY SizesOrdered DEF DataKept, ReportKept, TailDisabled, CheckTail
<1>2. CASE d' = d
  <2>1. ASSUME NEW i \in DOMAIN given.patterns
        PROVE  enabled(given.patterns[i]) \/ i >= next' => d.patterns[i] = given.patterns[i]
    BY <1>1 DEF DataKept, TargetSetupData
  <2>2. DataKept'
    BY <1>1, <1>2, <2>1 DEF DataKept
  <2> QED BY <1>2, <2>2
<1>3. CASE d' # d
  <2>1. /\ d' = normalized(next)
        /\ next \in DOMAIN d.initialAutocalibrationErrors /\ next \in DOMAIN d.isFixed
        /\ has(d.patterns, next) => enabled(d.patterns[next])
    BY <1>3 DEF TailDisabled, CheckTail, has
  <2>2. /\ DataKept'
        /\ \A i \in DOMAIN d.initialAutocalibrationErrors :
             i # next => d'.initialAutocalibrationErrors[i] = d.initialAutocalibrationErrors[i]
    BY <1>1, <2>1, NormalizedKeepsData
  <2>3. \A i \in 1..minSize : i \in DOMAIN d.initialAutocalibrationErrors /\ i # next
    BY <1>1, InAllVectors
  <2> QED BY <2>2, <2>3
<1> QED BY <1>2, <1>3

-----------------------------------------------------------------------------
(***************************************************************************)
(* The report is kept, action by action.                                   *)
(***************************************************************************)
LEMMA CleanDisabledKeepsReport == CleanInv /\ CleanDisabled => ReportKept'
<1> SUFFICES ASSUME CleanInv, CleanDisabled PROVE ReportKept'
  OBVIOUS
<1>1. DataKept /\ DataKept' /\ ReportKept
  BY CleanDisabledKeepsData DEF CleanInv
<1>2. /\ given' = given /\ next' = next + 1 /\ errors' = errors /\ validBeacons' = validBeacons
      /\ m_patternLength' = m_patternLength /\ next <= minSize
      /\ d'.initialAutocalibrationErrors = d.initialAutocalibrationErrors
  BY <1>1 DEF CleanDisabled, DataKept, TargetSetupData
<1>3. minSize' = minSize /\ maxSize' = maxSize /\ minSize \in Nat /\ maxSize \in Nat
      /\ minSize <= maxSize /\ next \in 1..minSize
  BY <1>1, <1>2, SizesKept, SizesOrdered DEF DataKept, ReportKept
<1>4. ~ enabled(given.patterns[next])
  BY <1>1, <1>3, InAllVectors DEF DataKept, CleanDisabled
<1>5. \A i \in 1..minSize : checked(i)' <=> checked(i)
  BY <1>2, <1>3, <1>4 DEF checked
<1>6. \A i \in 1..minSize : faultless(i)' <=> faultless(i)
  BY <1>2 DEF faultless, WellFormedBeacon
<1> QED BY <1>1, <1>2, <1>3, <1>5, <1>6 DEF ReportKept

LEMMA CheckBeaconKeepsReport == CleanInv /\ CheckBeacon => ReportKept'
<1> SUFFICES ASSUME CleanInv, CheckBeacon PROVE ReportKept'
  OBVIOUS
<1> DEFINE others == checkLocationValidity(next) \cup checkEmissionDirection(next)
                       \cup checkMeasVariance(next) \cup checkAutocalib(next)
           kinds  == checkPatternLength(next, firstLength(next))
                       \cup checkLocationValidity(next) \cup checkEmissionDirection(next)
                       \cup checkMeasVariance(next) \cup checkAutocalib(next)
<1>1. /\ DataKept /\ DataKept' /\ ReportKept
      /\ d.isFixed[next] => d'.initialAutocalibrationErrors[next] = 0
      /\ \A i \in DOMAIN d.initialAutocalibrationErrors :
           i # next => d'.initialAutocalibrationErrors[i] = d.initialAutocalibrationErrors[i]
  BY CheckBeaconKeepsData DEF CleanInv
<1>2. /\ given' = given /\ next' = next + 1 /\ next <= minSize
      /\ m_patternLength' = firstLength(next)
      /\ errors' = errors \cup {<<next, kind>> : kind \in kinds}
      /\ validBeacons' = IF kinds = {} THEN validBeacons \cup {next} ELSE validBeacons
      /\ enabled(d.patterns[next])
  BY DEF CheckBeacon, record
<1>3. minSize' = minSize /\ maxSize' = maxSize /\ minSize \in Nat /\ maxSize \in Nat
      /\ minSize <= maxSize /\ next \in 1..minSize
  BY <1>1, <1>2, SizesKept, SizesOrdered DEF DataKept, ReportKept
<1>4. d.patterns[next] = given.patterns[next] /\ enabled(given.patterns[next])
      /\ given.patterns[next] \in Seq({0, 1, 2}) /\ given.patterns[next] # <<>>
  BY <1>1, <1>2, <1>3, InAllVectors DEF DataKept, TargetSetupData, enabled
<1>5. Len(given.patterns[next]) \in Nat /\ Len(given.patterns[next]) # 0
  BY <1>4
<1>6. /\ firstLength(next) \in Nat /\ firstLength(next) # 0
      /\ m_patternLength # 0 => firstLength(next) = m_patternLength
      /\ m_patternLength = 0 => firstLength(next) = Len(given.patterns[next])
  BY <1>1, <1>4, <1>5 DEF firstLength, ReportKept
<1>7. PICK n \in 1..minSize : n = next
  BY <1>3
<1>8. \A i \in 1..minSize :
        faultless(i)' <=> WellFormedBeacon(given, i)
                            /\ Len(given.patterns[i]) = firstLength(next)
  BY <1>2 DEF faultless, WellFormedBeacon
<1>9. kinds = {} <=> faultless(n)'
  <2>1. others = {} <=> WellFormedBeacon(given, next)
    BY <1>1, <1>3, ChecksAreExact
  <2>2. checkPatternLength(next, firstLength(next)) = {}
          <=> Len(given.patterns[next]) = firstLength(next)
    BY <1>4 DEF checkPatternLength, otherThan
  <2>3. kinds = checkPatternLength(next, firstLength(next)) \cup others
    OBVIOUS
  <2>4. kinds = {} <=> checkPatternLength(next, firstLength(next)) = {} /\ others = {}
    <3> HIDE DEF kinds, others
    <3> QED BY <2>3
  <2> QED BY <1>7, <1>8, <2>1, <2>2, <2>4
<1>10. \A i \in 1..minSize : checked(i)' <=> checked(i) \/ i = n
  BY <1>2, <1>3, <1>4, <1>7 DEF checked
<1>11. ~ checked(n)
  BY <1>7 DEF checked
<1> HIDE DEF kinds, others
<1>12. errors' = {} <=> errors = {} /\ kinds = {}
  BY <1>2
<1>13. ASSUME \A i \in 1..minSize : checked(i) => faultless(i)
       PROVE  \A i \in 1..minSize : checked(i) => faultless(i)'
  <2>1. CASE m_patternLength = 0
    BY <1>1, <2>1 DEF ReportKept
  <2>2. CASE m_patternLength # 0
    BY <1>6, <1>8, <1>13, <2>2 DEF faultless
  <2> QED BY <2>1, <2>2
<1>14. ASSUME \A i \in 1..minSize : checked(i) => faultless(i)'
       PROVE  \A i \in 1..minSize : checked(i) => faultless(i)
  <2>1. CASE m_patternLength = 0
    BY <1>1, <2>1 DEF ReportKept
  <2>2. CASE m_patternLength # 0
    BY <1>6, <1>8, <1>14, <2>2 DEF faultless
  <2> QED BY <2>1, <2>2
<1>15. errors' = {} => \A i \in 1..minSize : checked(i)' => faultless(i)'
  BY <1>1, <1>9, <1>10, <1>12, <1>13 DEF ReportKept
<1>16. (\A i \in 1..minSize : checked(i)' => faultless(i)') => errors' = {}
  BY <1>1, <1>2, <1>3, <1>9, <1>10, <1>12, <1>14 DEF ReportKept
<1>17. m_patternLength' # 0 /\ m_patternLength' \in Nat
  BY <1>2, <1>6
<1>18. \E i \in 1..minSize : checked(i)' /\ Len(given.patterns[i]) = m_patternLength'
  <2>1. CASE m_patternLength = 0
    BY <1>2, <1>6, <1>7, <1>10, <2>1
  <2>2. CASE m_patternLength # 0
    BY <1>1, <1>2, <1>6, <1>10, <2>2 DEF ReportKept
  <2> QED BY <2>1, <2>2
<1>19. errors' = {} => validBeacons' = {i \in 1..minSize : checked(i)'}
  BY <1>1, <1>2, <1>7, <1>10, <1>12 DEF ReportKept
<1>20. \A i \in 1..minSize : checked(i)' /\ given'.isFixed[i] => d'.initialAutocalibrationErrors[i] = 0
  <2>1. d.isFixed = given.isFixed
    BY <1>1 DEF DataKept
  <2>2. \A i \in 1..minSize : i \in DOMAIN d.initialAutocalibrationErrors
    BY <1>1, InAllVectors
  <2> QED BY <1>1, <1>2, <1>7, <1>10, <2>1, <2>2 DEF ReportKept
<1>21. next' \in 1..(maxSize + 1) /\ next' <= minSize + 1
  BY <1>2, <1>3
<1> QED BY <1>2, <1>3, <1>15, <1>16, <1>17, <1>18, <1>19, <1>20, <1>21 DEF ReportKept

LEMMA TailKeepsReport == CleanInv /\ (TailDisabled \/ CheckTail) => ReportKept'
<1> SUFFICES ASSUME CleanInv, TailDisabled \/ CheckTail PROVE ReportKept'
  OBVIOUS
<1>1. /\ DataKept /\ DataKept' /\ ReportKept
      /\ \A i \in 1..minSize :
           d'.initialAutocalibrationErrors[i] = d.initialAutocalibrationErrors[i]
  BY TailKeepsData DEF CleanInv
<1>2. /\ given' = given /\ next' = next + 1 /\ minSize < next /\ next <= maxSize
      /\ m_patternLength' = m_patternLength /\ validBeacons' = validBeacons
  BY DEF TailDisabled, CheckTail
<1>3. <<next, "mismatch">> \in errors'
  BY DEF TailDisabled, CheckTail, record
<1>4. minSize' = minSize /\ maxSize' = maxSize /\ minSize \in Nat /\ maxSize \in Nat /\ next \in Nat
  BY <1>1, <1>2, SizesKept, SizesOrdered DEF DataKept, ReportKept
<1>5. \A i \in 1..minSize : checked(i)' <=> checked(i)
  BY <1>2, <1>4 DEF checked
<1>6. errors' # {} /\ next' \in 1..(maxSize + 1) /\ ~ (next' <= minSize + 1)
  BY <1>2, <1>3, <1>4
<1> QED BY <1>1, <1>2, <1>4, <1>5, <1>6 DEF ReportKept

LEMMA CleanInvKept == CleanInv /\ [Next]_vars => CleanInv'
<1> SUFFICES ASSUME CleanInv, [Next]_vars PROVE CleanInv'
  OBVIOUS
<1>1. ASSUME CleanDisabled \/ CheckBeacon \/ TailDisabled \/ CheckTail PROVE CleanInv'
  <2>1. DataKept' /\ ReportKept'
    BY <1>1, CleanDisabledKeepsData, CheckBeaconKeepsData, TailKeepsData,
       CleanDisabledKeepsReport, CheckBeaconKeepsReport, TailKeepsReport DEF CleanInv
  <2>2. next <= maxSize /\ maxSize \in Nat /\ next \in Nat /\ target' = target
    BY <1>1, SizesOrdered DEF CleanInv, DataKept, ReportKept, CleanDisabled, CheckBeacon,
       TailDisabled, CheckTail
  <2>3. target = "none"
    BY <2>2 DEF CleanInv, TargetKept, validated
  <2> QED BY <2>1, <2>2, <2>3 DEF CleanInv, TargetKept
<1>2. ASSUME UNCHANGED <<given, d, checkerVars>>, UNCHANGED target \/ BuildTarget PROVE CleanInv'
  <2>1. DataKept' /\ ReportKept'
    BY <1>2 DEF CleanInv, DataKept, ReportKept, checkerVars, checked, faultless, minSize, maxSize
  <2>2. outcome' = outcome /\ validated' = validated
    BY <1>2 DEF checkerVars, outcome, validated, maxSize, numBeacons, sameLengths, identifierThrows
  <2>3. TargetKept'
    BY <1>2, <2>2 DEF CleanInv, TargetKept, BuildTarget
  <2> QED BY <2>1, <2>3 DEF CleanInv
<1>3. CASE SetUpBeacons
  BY <1>1, <1>2, <1>3 DEF SetUpBeacons, BeaconSetupNext, BuildTarget
<1>4. CASE Finish
  BY <1>2, <1>4 DEF Finish, setupVars
<1>5. CASE UNCHANGED vars
  BY <1>2, <1>5 DEF vars, setupVars
<1> QED BY <1>3, <1>4, <1>5 DEF Next

LEMMA Invariance == Spec => []CleanInv
BY InitKept, CleanInvKept, PTL DEF Spec

-----------------------------------------------------------------------------
(***************************************************************************)
(* The properties.                                                         *)
(***************************************************************************)

\* When all beacons have been looked at and none was wrong, the vectors are of
\* one length.
LEMMA NoTails ==
  ASSUME CleanInv, validated, errors = {}
  PROVE  /\ minSize = maxSize /\ next = minSize + 1 /\ minSize \in Nat
         /\ \A n \in sizes(d) : n = minSize
<1>1. /\ minSize \in Nat /\ maxSize \in Nat /\ next \in Nat /\ minSize \in sizes(d)
      /\ \A n \in sizes(d) : minSize <= n /\ n <= maxSize /\ n \in Nat
  BY SizesOrdered DEF CleanInv, DataKept, ReportKept
<1>2. next <= minSize + 1 /\ next > maxSize
  BY <1>1 DEF CleanInv, ReportKept, validated
<1> QED BY <1>1, <1>2

LEMMA ExactWhenKept == CleanInv => ErrorsAreExact
<1>1. ASSUME CleanInv, validated, errors = {} PROVE WellFormed(given)
  <2>1. sizes(given) = sizes(d)
    BY <1>1 DEF CleanInv, DataKept, sizes
  <2>2. DOMAIN given.patterns = 1..minSize /\ minSize \in Nat /\ next = minSize + 1
    BY <1>1, NoTails DEF CleanInv, DataKept, TargetSetupData, sizes
  <2>3. \A i \in 1..minSize : enabled(given.patterns[i]) => faultless(i)
    BY <1>1, <2>2 DEF CleanInv, ReportKept, checked
  <2> QED BY <1>1, <2>1, <2>2, <2>3, NoTails DEF WellFormed, faultless
<1>2. ASSUME CleanInv, validated, WellFormed(given) PROVE errors = {}
  <2>1. sizes(given) = sizes(d)
    BY <1>2 DEF CleanInv, DataKept, sizes
  <2>2. minSize = maxSize /\ minSize \in Nat
    BY <1>2, <2>1, SizesOrdered DEF WellFormed, CleanInv, DataKept
  <2>3. next = minSize + 1
    BY <1>2, <2>2 DEF validated, CleanInv, ReportKept
  <2>4. \A i \in 1..minSize : i \in DOMAIN given.patterns
    BY <1>2, InAllVectors DEF CleanInv
  <2>5. ASSUME NEW i \in 1..minSize, checked(i) PROVE faultless(i)
    <3>1. m_patternLength # 0
      BY <1>2, <2>5 DEF CleanInv, ReportKept
    <3>2. PICK j \in 1..minSize : checked(j) /\ Len(given.patterns[j]) = m_patternLength
      BY <1>2, <3>1 DEF CleanInv, ReportKept
    <3> QED BY <1>2, <2>4, <2>5, <3>2 DEF WellFormed, checked, faultless
  <2> QED BY <1>2, <2>2, <2>3, <2>5 DEF CleanInv, ReportKept
<1> QED BY <1>1, <1>2 DEF ErrorsAreExact

\* The report has errors if and only if the data handed over was not well-formed.
THEOREM ExactReport == Spec => []ErrorsAreExact
BY ExactWhenKept, Invariance, PTL

\* Data reported without an error makes a target, of the beacons reported valid.
THEOREM CleanBuilds == Spec => []CleanIsBuildable
<1>1. ASSUME CleanInv, validated, errors = {}
      PROVE  /\ target \in {"none", "built"}
             /\ validBeacons = {i \in 1..numBeacons : enabled(d.patterns[i])}
             /\ \A i \in DOMAIN d.patterns : enabled(d.patterns[i]) => i <= numBeacons
             /\ \A i \in validBeacons : d.isFixed[i] <=> d.initialAutocalibrationErrors[i] = 0
  <2>1. /\ minSize \in Nat /\ next = minSize + 1
        /\ Len(d.patterns) = minSize /\ Len(d.locations) = minSize
        /\ Len(d.emissionDirections) = minSize /\ Len(d.baseMeasurementVariances) = minSize
        /\ Len(d.initialAutocalibrationErrors) = minSize /\ Len(d.isFixed) = minSize
    BY <1>1, NoTails DEF sizes
  <2>2. DOMAIN d.patterns = 1..minSize /\ numBeacons = minSize
    BY <1>1, <2>1 DEF CleanInv, DataKept, TargetSetupData, numBeacons
  <2>3. \A i \in 1..minSize : checked(i) <=> enabled(d.patterns[i])
    BY <1>1, <2>1, InAllVectors DEF CleanInv, DataKept, checked
  <2>4. \A i \in 1..minSize : enabled(d.patterns[i]) =>
          d.patterns[i] = given.patterns[i] /\ faultless(i)
    BY <1>1, <2>3, InAllVectors DEF CleanInv, DataKept, ReportKept, checked
  <2>5. ~ identifierThrows
    BY <2>2, <2>4 DEF identifierThrows, faultless
  <2>6. outcome = "built"
    BY <2>1, <2>2, <2>5 DEF outcome, sameLengths
  <2>7. validBeacons = {i \in 1..minSize : enabled(d.patterns[i])}
    BY <1>1, <2>3 DEF CleanInv, ReportKept
  <2>8. ASSUME NEW i \in validBeacons
        PROVE  d.isFixed[i] <=> d.initialAutocalibrationErrors[i] = 0
    <3>1. i \in 1..minSize /\ checked(i) /\ faultless(i)
      BY <2>3, <2>4, <2>7
    <3>2. d.isFixed[i] \in BOOLEAN /\ d.isFixed[i] = given.isFixed[i]
          /\ (given.isFixed[i] \/ d.initialAutocalibrationErrors[i]
                                    = given.initialAutocalibrationErrors[i])
          /\ d.initialAutocalibrationErrors[i] \in Int
      <4>1. i \in DOMAIN d.isFixed /\ i \in DOMAIN d.initialAutocalibrationErrors
            /\ i \in DOMAIN given.initialAutocalibrationErrors
        BY <1>1, <3>1, InAllVectors DEF CleanInv
      <4>2. d.isFixed \in Seq(BOOLEAN) /\ d.initialAutocalibrationErrors \in Seq(Int)
        BY <1>1 DEF CleanInv, DataKept, TargetSetupData
      <4>3. d.isFixed[i] \in BOOLEAN /\ d.initialAutocalibrationErrors[i] \in Int
        BY <4>1, <4>2
      <4> QED BY <1>1, <4>1, <4>3 DEF CleanInv, DataKept
    <3>3. given.isFixed[i] => d.initialAutocalibrationErrors[i] = 0
      BY <1>1, <3>1 DEF CleanInv, ReportKept
    <3>4. given.isFixed[i] \/ given.initialAutocalibrationErrors[i] > 0
      BY <3>1 DEF faultless, WellFormedBeacon
    <3> QED BY <3>2, <3>3, <3>4
  <2> QED BY <1>1, <2>2, <2>6, <2>7, <2>8 DEF CleanInv, TargetKept
<1>2. CleanInv => CleanIsBuildable
  BY <1>1 DEF CleanIsBuildable
<1> QED BY <1>2, Invariance, PTL

-----------------------------------------------------------------------------
(***************************************************************************)
(* The HDK, set up.                                                        *)
(***************************************************************************)

\* The data that an HDK's beacons were set up from is kept as it was given.
HdkInv == CleanInv /\ (hdk => root \in Roots /\ given = SetupOf[root])

LEMMA HdkInvariance == Spec => []HdkInv
<1>1. Init => HdkInv
  BY InitKept DEF Init, HdkInv, BeaconSetupInit, hdk
<1>2. ASSUME HdkInv, [Next]_vars PROVE HdkInv'
  <2>1. CleanInv'
    BY <1>2, CleanInvKept DEF HdkInv
  <2>2. given' = given /\ root' = root
    BY <1>2 DEF Next, SetUpBeacons, BeaconSetupNext, CleanDisabled, CheckBeacon, TailDisabled,
       CheckTail, BuildTarget, Finish, vars, setupVars
  <2> QED BY <1>2, <2>1, <2>2 DEF HdkInv, hdk
<1> QED BY <1>1, <1>2, PTL DEF Spec

\* What the data says at the moment when the target is made.
LEMMA HdkCleaned ==
  ASSUME HdkInv, hdk, target # "none"
  PROVE  /\ Configured(config) /\ HdkData(config, given) /\ validated
         /\ target = outcome /\ DataFor(config, d)
         /\ \A i \in 1..beaconCount(config) :
              /\ enabled(d.patterns[i]) <=> enabled(given.patterns[i])
              /\ enabled(given.patterns[i]) => d.patterns[i] = given.patterns[i]
<1>1. /\ Configured(config) /\ HdkData(config, given)
  BY RootsConfigured, HdkDataGiven DEF HdkInv, config
<1>2. validated /\ target = outcome /\ DataKept
  BY DEF HdkInv, CleanInv, TargetKept
<1>3. DataFor(config, d)
  BY <1>1, <1>2 DEF HdkData, DataFor, DataKept
<1>4. DOMAIN given.patterns = 1..beaconCount(config)
  BY <1>1, DataVectors DEF HdkData
<1>5. ASSUME NEW i \in 1..beaconCount(config)
      PROVE  /\ enabled(d.patterns[i]) <=> enabled(given.patterns[i])
             /\ enabled(given.patterns[i]) => d.patterns[i] = given.patterns[i]
  <2>1. i \in DOMAIN given.patterns
    BY <1>4
  <2> QED BY <1>2, <2>1 DEF DataKept
<1> QED BY <1>1, <1>2, <1>3, <1>5

\* The identifier has nothing to refuse, and the vectors are alike in length.
LEMMA HdkBuilt ==
  ASSUME HdkInv, hdk, target # "none"
  PROVE  target = "built" /\ numBeacons = beaconCount(config)
<1>1. /\ Configured(config) /\ HdkData(config, given) /\ DataFor(config, d)
      /\ target = outcome
      /\ \A i \in 1..beaconCount(config) :
           /\ enabled(d.patterns[i]) <=> enabled(given.patterns[i])
           /\ enabled(given.patterns[i]) => d.patterns[i] = given.patterns[i]
  BY HdkCleaned
<1>2. DOMAIN d.patterns = 1..beaconCount(config) /\ beaconCount(config) \in Nat
  BY <1>1, DataVectors
<1>3. \A i \in DOMAIN d.patterns : enabled(d.patterns[i]) => Len(d.patterns[i]) = 16
  BY <1>1, <1>2 DEF HdkData
<1>4. ~ identifierThrows
  BY <1>3 DEF identifierThrows
<1>5. numBeacons = beaconCount(config)
  BY <1>1 DEF numBeacons, DataFor
<1>6. sameLengths /\ ~ (numBeacons > Len(d.initialAutocalibrationErrors))
  BY <1>1, <1>2, <1>5 DEF sameLengths, DataFor
<1> QED BY <1>1, <1>4, <1>5, <1>6 DEF outcome

\* The data of the HDK is well-formed if its beacons are to be autocalibrated.
LEMMA HdkWellFormed ==
  ASSUME NEW c, Configured(c), NEW data, HdkData(c, data)
  PROVE  WellFormed(data) <=> c.initialBeaconError > 0
<1> DEFINE n == beaconCount(c)
           e == c.initialBeaconError
           left(i) == IF calibrationFits(c) /\ i <= 34 THEN e \div 10 ELSE e
<1>1. /\ DataFor(c, data) /\ DOMAIN data.patterns = 1..n /\ n \in {34, 40} /\ e \in Int
      /\ e % 10 = 0
  BY DataVectors DEF HdkData, Configured
<1>2. \A m \in sizes(data) : m = n
  BY <1>1 DEF sizes, DataFor
<1>3. \A i, j \in 1..n : enabled(data.patterns[i]) /\ enabled(data.patterns[j])
        => Len(data.patterns[i]) = Len(data.patterns[j])
  BY DEF HdkData
<1>4. e \div 10 \in Int /\ (e \div 10 > 0 <=> e > 0)
  BY <1>1
<1>5. ASSUME NEW i \in 1..n
      PROVE  WellFormedBeacon(data, i) <=> i \in FixedBeacons \/ e > 0
  <2>1. data.locations[i] # "bogus" /\ data.emissionDirections[i] # "zero"
    <3>1. i <= 34 \/ i > 34
      BY <1>1
    <3> QED BY <3>1 DEF HdkData
  <2>2. data.baseMeasurementVariances[i] > 0
    BY DEF HdkData, BaseMeasurementVariance
  <2>3. data.isFixed[i] <=> i \in FixedBeacons
    BY DEF HdkData
  <2>4. ASSUME i \notin FixedBeacons
        PROVE  data.initialAutocalibrationErrors[i] > 0 <=> e > 0
    <3>1. data.initialAutocalibrationErrors[i] = e
            \/ data.initialAutocalibrationErrors[i] = e \div 10
      BY <2>4 DEF HdkData
    <3> HIDE DEF e
    <3> QED BY <1>4, <3>1
  <2> HIDE DEF n, e
  <2> QED BY <2>1, <2>2, <2>3, <2>4 DEF WellFormedBeacon
<1>6. ASSUME e > 0 PROVE WellFormed(data)
  BY <1>1, <1>2, <1>3, <1>5, <1>6 DEF WellFormed
<1>7. ASSUME WellFormed(data) PROVE e > 0
  <2>1. 1 \in 1..n /\ 1 \notin {35, 38} /\ 1 \notin HDK2_Missing_Beacons /\ 1 \notin FixedBeacons
    BY <1>1 DEF HDK2_Missing_Beacons, FixedBeacons
  <2>2. enabled(data.patterns[1])
    BY <2>1 DEF HdkData
  <2> QED BY <1>1, <1>5, <1>7, <2>1, <2>2 DEF WellFormed
<1> QED BY <1>6, <1>7

LEMMA HdkActive ==
  ASSUME HdkInv, hdk, target # "none"
  PROVE  {i \in DOMAIN d.patterns : enabled(d.patterns[i])} = hdkActive
<1> DEFINE n == beaconCount(config)
<1>1. /\ Configured(config) /\ HdkData(config, given) /\ DataFor(config, d)
      /\ \A i \in 1..n : enabled(d.patterns[i]) <=> enabled(given.patterns[i])
  BY HdkCleaned
<1>2. /\ n \in {34, 40} /\ (n = 40 <=> config.includeRearPanel)
      /\ config.includeRearPanel \in BOOLEAN /\ DOMAIN d.patterns = 1..n
  BY <1>1, DataVectors DEF Configured
<1>3. hdkActive = (1..n) \ ({35, 38} \cup (IF config.targetSet = "HDK2"
                                            THEN HDK2_Missing_Beacons ELSE {}))
  BY <1>2 DEF hdkActive
<1>4. \A i \in 1..n : enabled(d.patterns[i])
        <=> i \notin {35, 38} /\ ~ (config.targetSet = "HDK2" /\ i \in HDK2_Missing_Beacons)
  BY <1>1 DEF HdkData
<1> QED BY <1>2, <1>3, <1>4

\* The HDK is set up as built: no error is reported unless its beacons are given no
\* positive autocalibration error, its target is made, the beacons that it has are
\* those that are enabled, each at its place with the error that is left for it.
THEOREM HdkSetUp == Spec => []HdkAsBuilt
<1>1. ASSUME HdkInv, hdk, target # "none" PROVE HdkAsBuilt
  <2> DEFINE n == beaconCount(config)
  <2>1. /\ Configured(config) /\ HdkData(config, given) /\ validated /\ DataFor(config, d)
        /\ \A i \in 1..n : enabled(d.patterns[i]) <=> enabled(given.patterns[i])
    BY <1>1, HdkCleaned
  <2>2. target = "built" /\ numBeacons = n
    BY <1>1, HdkBuilt
  <2>3. errors = {} <=> config.initialBeaconError > 0
    <3>1. ErrorsAreExact
      BY <1>1, ExactWhenKept DEF HdkInv
    <3> QED BY <2>1, <3>1, HdkWellFormed DEF ErrorsAreExact
  <2>4. /\ n \in {34, 40} /\ (n = 40 <=> config.includeRearPanel)
        /\ config.includeRearPanel \in BOOLEAN
        /\ DOMAIN d.patterns = 1..n
        /\ DOMAIN given.initialAutocalibrationErrors = 1..n
        /\ DOMAIN given.isFixed = 1..n
        /\ config.initialBeaconError \in Int /\ config.initialBeaconError % 10 = 0
    BY <2>1, DataVectors DEF HdkData, Configured
  <2>5. {i \in DOMAIN d.patterns : enabled(d.patterns[i])} = hdkActive
    BY <1>1, HdkActive
  <2>6. ASSUME NEW i \in 1..n
        PROVE  /\ (i > 34) <=> d.locations[i] = "rear"
               /\ (i > 34) <=> d.emissionDirections[i] = "backwards"
               /\ i \in FixedBeacons <=> d.isFixed[i]
               /\ d.locations[i] = "calibrated" <=> calibrationFits(config) /\ i <= 34
    <3>1. /\ d.locations = given.locations /\ d.emissionDirections = given.emissionDirections
          /\ d.isFixed = given.isFixed
      BY <1>1 DEF HdkInv, CleanInv, DataKept
    <3>2. (i <= 34) <=> ~ (i > 34)
      BY <2>4
    <3> QED BY <2>1, <3>1, <3>2 DEF HdkData
  <2>7. ASSUME NEW i \in 1..n, ~ d.isFixed[i]
        PROVE  /\ d.locations[i] = "calibrated"
                    => 10 * d.initialAutocalibrationErrors[i] = config.initialBeaconError
               /\ d.locations[i] # "calibrated"
                    => d.initialAutocalibrationErrors[i] = config.initialBeaconError
    <3>1. d.initialAutocalibrationErrors[i] = given.initialAutocalibrationErrors[i]
      BY <1>1, <2>4, <2>7 DEF HdkInv, CleanInv, DataKept
    <3>2. given.initialAutocalibrationErrors[i] =
            IF calibrationFits(config) /\ i <= 34 THEN config.initialBeaconError \div 10
            ELSE config.initialBeaconError
      BY <2>1, <2>6, <2>7 DEF HdkData
    <3>3. \A e \in Int : e % 10 = 0 => 10 * (e \div 10) = e
      OBVIOUS
    <3> QED BY <2>4, <2>6, <3>1, <3>2, <3>3
  <2> HIDE DEF n
  <2> QED BY <2>2, <2>3, <2>5, <2>6, <2>7 DEF HdkAsBuilt, numFrontBeacons
<1>2. HdkInv => HdkAsBuilt
  BY <1>1 DEF HdkAsBuilt
<1> QED BY <1>2, HdkInvariance, PTL

-----------------------------------------------------------------------------
(***************************************************************************)
(* What the identifier of the HDK recognizes.                              *)
(***************************************************************************)
IdentifierKept == target = "built" => d_patterns = identifier

LEMMA IdentifierInvariance == Spec => [](HdkInv /\ IdentifierKept)
<1>1. Init => IdentifierKept
  BY DEF Init, BeaconSetupInit, IdentifierKept
<1>2. ASSUME HdkInv, IdentifierKept, [Next]_vars PROVE IdentifierKept'
  <2>1. ASSUME CleanDisabled \/ CheckBeacon \/ TailDisabled \/ CheckTail PROVE IdentifierKept'
    <3>1. next <= maxSize /\ maxSize \in Nat /\ next \in Nat /\ target' = target
      BY <1>2, <2>1, SizesOrdered DEF HdkInv, CleanInv, DataKept, ReportKept, CleanDisabled,
         CheckBeacon, TailDisabled, CheckTail
    <3>2. target = "none"
      BY <1>2, <3>1 DEF HdkInv, CleanInv, TargetKept, validated
    <3> QED BY <3>1, <3>2 DEF IdentifierKept
  <2>2. CASE BuildTarget
    <3>1. identifier' = identifier
      BY <2>2 DEF BuildTarget, identifier, windows, d_length, isFirstEnabled
    <3> QED BY <2>2, <3>1 DEF BuildTarget, IdentifierKept
  <2>3. ASSUME UNCHANGED <<d, target, d_patterns>> PROVE IdentifierKept'
    <3>1. identifier' = identifier
      BY <2>3 DEF identifier, windows, d_length, isFirstEnabled
    <3> QED BY <1>2, <2>3, <3>1 DEF IdentifierKept
  <2>4. CASE SetUpBeacons
    BY <2>1, <2>2, <2>4 DEF SetUpBeacons, BeaconSetupNext
  <2>5. CASE Finish
    BY <2>3, <2>5 DEF Finish, setupVars
  <2>6. CASE UNCHANGED vars
    BY <2>3, <2>6 DEF vars, setupVars
  <2> QED BY <1>2, <2>4, <2>5, <2>6 DEF Next
<1> QED BY <1>1, <1>2, HdkInvariance, PTL DEF Spec

\* The identifier holds the sixteen turns of each pattern that is enabled.
LEMMA HdkIdentifier ==
  ASSUME HdkInv, IdentifierKept, hdk, target = "built"
  PROVE  /\ hdkActive \subseteq used /\ d_length = 16
         /\ \A i \in hdkActive :
              /\ d.patterns[i] = bitsOf(Lit(i))
              /\ d_patterns[i] = {bitsOf(turned(Lit(i), k)) : k \in 1..16}
         /\ \A bits : recognized(bits) = {i \in hdkActive : bits \in d_patterns[i]}
<1> DEFINE n == beaconCount(config)
<1>1. /\ Configured(config) /\ HdkData(config, given) /\ DataFor(config, d)
      /\ \A i \in 1..n : /\ enabled(d.patterns[i]) <=> enabled(given.patterns[i])
                         /\ enabled(given.patterns[i]) => d.patterns[i] = given.patterns[i]
  BY HdkCleaned
<1>2. /\ n \in {34, 40} /\ DOMAIN d.patterns = 1..n
      /\ {i \in DOMAIN d.patterns : enabled(d.patterns[i])} = hdkActive
  BY <1>1, DataVectors, HdkActive
<1>3. \A i \in 1..n : i \in hdkActive <=> enabled(d.patterns[i])
  BY <1>2
<1>4. hdkActive \subseteq 1..n /\ hdkActive \subseteq used
  <2>1. \A i \in 1..n : i \in 1..40
    BY <1>2
  <2>2. \A i \in hdkActive : i \in 1..n /\ enabled(given.patterns[i])
    BY <1>1, <1>2
  <2>3. \A i \in hdkActive : i \notin {35, 38}
    BY <1>1, <2>2 DEF HdkData
  <2> QED BY <2>1, <2>2, <2>3 DEF used
<1>5. \A i \in hdkActive : Len(d.patterns[i]) = 16 /\ d.patterns[i] = bitsOf(Lit(i))
  BY <1>1, <1>2 DEF HdkData
<1>6. d_length = 16
  <2>1. 1 \in 1..n /\ 1 \notin {35, 38} /\ 1 \notin HDK2_Missing_Beacons
    BY <1>2 DEF HDK2_Missing_Beacons
  <2>2. enabled(d.patterns[1])
    BY <1>1, <2>1 DEF HdkData
  <2>3. isFirstEnabled(1)
    BY <2>2 DEF isFirstEnabled
  <2> DEFINE first == CHOOSE i \in DOMAIN d.patterns : isFirstEnabled(i)
  <2>4. first \in DOMAIN d.patterns /\ isFirstEnabled(first)
    BY <1>2, <2>1, <2>3
  <2> HIDE DEF first
  <2>5. Len(d.patterns[first]) = 16
    BY <1>2, <1>3, <1>5, <2>4 DEF isFirstEnabled
  <2> QED BY <1>2, <2>1, <2>2, <2>5 DEF d_length, first
<1>7. /\ DOMAIN d_patterns = 1..n
      /\ \A i \in 1..n : d_patterns[i] = IF enabled(d.patterns[i]) THEN windows(d.patterns[i])
                                                                  ELSE {}
  BY <1>2 DEF IdentifierKept, identifier
<1>8. ASSUME NEW i \in hdkActive
      PROVE  d_patterns[i] = {bitsOf(turned(Lit(i), k)) : k \in 1..16}
  <2>1. d_patterns[i] = windows(bitsOf(Lit(i)))
    BY <1>3, <1>4, <1>5, <1>7
  <2> QED BY <1>6, <2>1, Windows
<1>9. ASSUME NEW bits
      PROVE  recognized(bits) = {i \in hdkActive : bits \in d_patterns[i]}
  BY <1>3, <1>4, <1>7 DEF recognized
<1> QED BY <1>4, <1>5, <1>6, <1>8, <1>9

\* A beacon of the HDK is recognized from any moment of its pattern on, as itself
\* and as no other; and no one brightness misjudged makes another beacon of it.
THEOREM HdkRecognized == Spec => []RecognizedAsItself
<1>1. ASSUME HdkInv, IdentifierKept, hdk, target = "built", NEW i \in hdkActive
      PROVE  /\ \A k \in 1..d_length : startingAt(d.patterns[i], k) \in d_patterns[i]
             /\ \A bits \in d_patterns[i] : recognized(bits) = {i}
             /\ \A k \in 1..d_length : recognized(flipped(d.patterns[i], k)) = {}
  <2>1. /\ i \in used /\ d_length = 16 /\ hdkActive \subseteq used
        /\ d.patterns[i] = bitsOf(Lit(i))
        /\ \A j \in hdkActive : d_patterns[j] = {bitsOf(turned(Lit(j), k)) : k \in 1..16}
        /\ \A bits : recognized(bits) = {j \in hdkActive : bits \in d_patterns[j]}
    BY <1>1, HdkIdentifier
  <2>2. \A j, k : turned(Lit(j), k) \in SUBSET (1..16)
    BY DEF turned
  <2>3. ASSUME NEW k \in 1..16 PROVE startingAt(d.patterns[i], k) \in d_patterns[i]
    <3>1. startingAt(d.patterns[i], k) = bitsOf(turned(Lit(i), k))
      BY <2>1, StartingAt
    <3> QED BY <1>1, <2>1, <3>1
  <2>4. ASSUME NEW bits \in d_patterns[i] PROVE recognized(bits) = {i}
    <3>1. PICK k \in 1..16 : bits = bitsOf(turned(Lit(i), k))
      BY <2>1
    <3>2. ASSUME NEW j \in hdkActive, bits \in d_patterns[j] PROVE j = i
      <4>1. PICK m \in 1..16 : bits = bitsOf(turned(Lit(j), m))
        BY <2>1, <3>2
      <4>2. turned(Lit(i), k) = turned(Lit(j), m)
        BY <2>2, <3>1, <4>1, BitsAreAll
      <4>3. j \in used
        BY <2>1
      <4> QED BY <2>1, <4>2, <4>3, ToldApart
    <3> QED BY <2>1, <3>2
  <2>5. ASSUME NEW k \in 1..16 PROVE recognized(flipped(d.patterns[i], k)) = {}
    <3>1. flipped(d.patterns[i], k) = bitsOf(other(Lit(i), k))
      BY <2>1, Flipped
    <3>2. other(Lit(i), k) \in SUBSET (1..16)
      <4>1. Lit(i) \subseteq 1..16
        BY <2>1, OddLit
      <4> QED BY <4>1 DEF other
    <3>3. ASSUME NEW j \in hdkActive, bitsOf(other(Lit(i), k)) \in d_patterns[j] PROVE FALSE
      <4>1. PICK m \in 1..16 : bitsOf(other(Lit(i), k)) = bitsOf(turned(Lit(j), m))
        BY <2>1, <3>3
      <4>2. other(Lit(i), k) = turned(Lit(j), m)
        BY <2>2, <3>2, <4>1, BitsAreAll
      <4>3. j \in used
        BY <2>1
      <4> QED BY <2>1, <4>2, <4>3, NeverMisjudged
    <3> QED BY <2>1, <3>1, <3>3
  <2> QED BY <2>1, <2>3, <2>4, <2>5
<1>2. HdkInv /\ IdentifierKept => RecognizedAsItself
  BY <1>1 DEF RecognizedAsItself
<1> QED BY <1>2, IdentifierInvariance, PTL
=============================================================================
