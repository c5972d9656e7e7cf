--------------------------- MODULE TimeValue_proofs ---------------------------
(***************************************************************************)
(* The arithmetic of TimeValueC.cpp is that of the microseconds the values *)
(* stand for, for all times.  Only that a second has a positive number of  *)
(* microseconds is used of their number, except where overflow is at stake.*)
(***************************************************************************)
EXTENDS TimeValue, TLAPS

LEMMA SecondIsPositive == UVBI_USEC_PER_SEC \in Nat /\ UVBI_USEC_PER_SEC > 1
BY SMT DEF UVBI_USEC_PER_SEC

\* Facts on products, for the prover.
LEMMA ProductOfSum ==
  ASSUME NEW a \in Int, NEW b \in Int, NEW c \in Int
  PROVE  /\ a * c \in Int /\ b * c \in Int
         /\ (a + b) * c = a * c + b * c
         /\ (a - b) * c = a * c - b * c
         /\ (a + 1) * c = a * c + c
         /\ (a - 1) * c = a * c - c
         /\ (-a) * c = -(a * c)
BY SMT

LEMMA ProductOfLess ==
  ASSUME NEW a \in Int, NEW b \in Int, NEW c \in Nat, a < b
  PROVE  a * c + c <= b * c
BY SMT

LEMMA Division ==
  ASSUME NEW n \in Nat, NEW c \in Nat, c > 1
  PROVE  /\ n \div c \in Nat
         /\ n - (n \div c) * c \in 0..c - 1
BY SMT

-----------------------------------------------------------------------------
\* What division towards zero leaves over.
LEMMA DivisionTowardsZero ==
  ASSUME NEW usec \in Int
  PROVE  /\ wholeSeconds(usec) \in Int
         /\ usec - wholeSeconds(usec) * UVBI_USEC_PER_SEC
              \in -UVBI_USEC_PER_SEC + 1 .. UVBI_USEC_PER_SEC - 1
<1>1. CASE usec >= 0
  <2>1. wholeSeconds(usec) = usec \div UVBI_USEC_PER_SEC
    BY <1>1 DEF wholeSeconds
  <2>2. /\ usec \div UVBI_USEC_PER_SEC \in Nat
        /\ usec - (usec \div UVBI_USEC_PER_SEC) * UVBI_USEC_PER_SEC \in 0..UVBI_USEC_PER_SEC - 1
    <3>1. usec \in Nat
      BY <1>1, SMT
    <3> QED BY <3>1, Division, SecondIsPositive
  <2> QED BY <2>1, <2>2, SecondIsPositive, SMT
<1>2. CASE ~(usec >= 0)
  <2> DEFINE q == (-usec) \div UVBI_USEC_PER_SEC
  <2>1. wholeSeconds(usec) = -q
    BY <1>2 DEF wholeSeconds
  <2>2. q \in Nat /\ (-usec) - q * UVBI_USEC_PER_SEC \in 0..UVBI_USEC_PER_SEC - 1
    <3>1. -usec \in Nat
      BY <1>2, SMT
    <3> QED BY <3>1, Division, SecondIsPositive
  <2> HIDE DEF q
  <2>3. (-q) * UVBI_USEC_PER_SEC = -(q * UVBI_USEC_PER_SEC) /\ q * UVBI_USEC_PER_SEC \in Int
    BY <2>2, SecondIsPositive, ProductOfSum, SMT
  <2> QED BY <2>1, <2>2, <2>3, SecondIsPositive, SMT
<1> QED BY <1>1, <1>2

\* Carrying whole seconds changes no total and leaves less than a second over.
LEMMA Carrying ==
  ASSUME NEW tv \in UVBI_TimeValue
  PROVE  /\ carried(tv) \in UVBI_TimeValue
         /\ carried(tv).microseconds \in -UVBI_USEC_PER_SEC + 1 .. UVBI_USEC_PER_SEC - 1
         /\ total(carried(tv)) = total(tv)
<1> DEFINE rem == wholeSeconds(tv.microseconds)
<1>1. tv.seconds \in Int /\ tv.microseconds \in Int
  BY DEF UVBI_TimeValue
<1>2. /\ rem \in Int
      /\ tv.microseconds - rem * UVBI_USEC_PER_SEC
           \in -UVBI_USEC_PER_SEC + 1 .. UVBI_USEC_PER_SEC - 1
  BY <1>1, DivisionTowardsZero
<1>3. carried(tv) = [seconds |-> tv.seconds + rem,
                     microseconds |-> tv.microseconds - rem * UVBI_USEC_PER_SEC]
  BY DEF carried
<1> HIDE DEF rem
<1>4. /\ (tv.seconds + rem) * UVBI_USEC_PER_SEC
           = tv.seconds * UVBI_USEC_PER_SEC + rem * UVBI_USEC_PER_SEC
      /\ tv.seconds * UVBI_USEC_PER_SEC \in Int /\ rem * UVBI_USEC_PER_SEC \in Int
  BY <1>1, <1>2, SecondIsPositive, ProductOfSum, SMT
<1> QED BY <1>1, <1>2, <1>3, <1>4, SecondIsPositive, SMT DEF total, UVBI_TimeValue

\* Giving both fields one sign keeps the total.
LEMMA OneSign ==
  ASSUME NEW tv \in UVBI_TimeValue,
         tv.microseconds \in -UVBI_USEC_PER_SEC + 1 .. UVBI_USEC_PER_SEC - 1
  PROVE  sameSign(tv) \in Normal /\ total(sameSign(tv)) = total(tv)
<1>1. tv.seconds \in Int /\ tv.microseconds \in Int
  BY DEF UVBI_TimeValue
<1>2. /\ tv.seconds * UVBI_USEC_PER_SEC \in Int
      /\ (tv.seconds - 1) * UVBI_USEC_PER_SEC = tv.seconds * UVBI_USEC_PER_SEC - UVBI_USEC_PER_SEC
      /\ (tv.seconds + 1) * UVBI_USEC_PER_SEC = tv.seconds * UVBI_USEC_PER_SEC + UVBI_USEC_PER_SEC
  BY <1>1, SecondIsPositive, ProductOfSum, SMT
<1>3. CASE tv.seconds > 0 /\ tv.microseconds < 0
  <2>1. sameSign(tv) = [seconds |-> tv.seconds - 1,
                        microseconds |-> tv.microseconds + UVBI_USEC_PER_SEC]
    BY <1>3 DEF sameSign
  <2> QED BY <1>1, <1>2, <1>3, <2>1, SecondIsPositive, SMT
          DEF Normal, Normalized, total, UVBI_TimeValue
<1>4. CASE tv.seconds < 0 /\ tv.microseconds > 0
  <2>1. sameSign(tv) = [seconds |-> tv.seconds + 1,
                        microseconds |-> tv.microseconds - UVBI_USEC_PER_SEC]
    BY <1>1, <1>4, SMT DEF sameSign
  <2> QED BY <1>1, <1>2, <1>4, <2>1, SecondIsPositive, SMT
          DEF Normal, Normalized, total, UVBI_TimeValue
<1>5. CASE ~(tv.seconds > 0 /\ tv.microseconds < 0) /\ ~(tv.seconds < 0 /\ tv.microseconds > 0)
  <2>1. sameSign(tv) = tv
    BY <1>5 DEF sameSign
  <2> QED BY <1>1, <1>5, <2>1, SecondIsPositive, SMT DEF Normal, Normalized
<1> QED BY <1>3, <1>4, <1>5

\* uvbiTimeValueNormalize() keeps what a time stands for and returns a value
\* with less than a second of microseconds and no two different signs.
THEOREM NormalizeKeepsTime ==
  ASSUME NEW tv \in UVBI_TimeValue
  PROVE  /\ uvbiTimeValueNormalize(tv) \in Normal
         /\ total(uvbiTimeValueNormalize(tv)) = total(tv)
BY Carrying, OneSign DEF uvbiTimeValueNormalize

-----------------------------------------------------------------------------
\* The sum and the difference of two normalized times, before they are
\* normalized, fit the 32 bits of their microseconds (TimeValueC.h).
THEOREM NoOverflow ==
  ASSUME NEW a \in Normal, NEW b \in Normal
  PROVE  added(a, b).microseconds \in Int32 /\ subtracted(a, b).microseconds \in Int32
<1>1. /\ a.microseconds \in -UVBI_USEC_PER_SEC + 1 .. UVBI_USEC_PER_SEC - 1
      /\ b.microseconds \in -UVBI_USEC_PER_SEC + 1 .. UVBI_USEC_PER_SEC - 1
  BY DEF Normal, Normalized
<1>2. /\ added(a, b).microseconds = a.microseconds + b.microseconds
      /\ subtracted(a, b).microseconds = a.microseconds - b.microseconds
  BY DEF added, subtracted
<1>3. TwoTo31 \in Nat /\ 2 * UVBI_USEC_PER_SEC < TwoTo31
  BY SMT DEF UVBI_USEC_PER_SEC, TwoTo31
<1> QED BY <1>1, <1>2, <1>3, SecondIsPositive, SMT DEF Int32

\* uvbiTimeValueSum() adds what the times stand for.
THEOREM SumIsExact ==
  ASSUME NEW a \in UVBI_TimeValue, NEW b \in UVBI_TimeValue
  PROVE  /\ uvbiTimeValueSum(a, b) \in Normal
         /\ total(uvbiTimeValueSum(a, b)) = total(a) + total(b)
<1>1. /\ a.seconds \in Int /\ a.microseconds \in Int
      /\ b.seconds \in Int /\ b.microseconds \in Int
  BY DEF UVBI_TimeValue
<1>2. added(a, b) \in UVBI_TimeValue
  BY <1>1 DEF added, UVBI_TimeValue
<1>3. total(added(a, b)) = total(a) + total(b)
  BY <1>1, SecondIsPositive, ProductOfSum, SMT DEF added, total
<1> QED BY <1>2, <1>3, NormalizeKeepsTime DEF uvbiTimeValueSum

\* uvbiTimeValueDifference() subtracts what the times stand for, whichever is
\* the later: the spans of time the filters predict by.
THEOREM DifferenceIsExact ==
  ASSUME NEW a \in UVBI_TimeValue, NEW b \in UVBI_TimeValue
  PROVE  /\ uvbiTimeValueDifference(a, b) \in Normal
         /\ total(uvbiTimeValueDifference(a, b)) = total(a) - total(b)
<1>1. /\ a.seconds \in Int /\ a.microseconds \in Int
      /\ b.seconds \in Int /\ b.microseconds \in Int
  BY DEF UVBI_TimeValue
<1>2. subtracted(a, b) \in UVBI_TimeValue
  BY <1>1 DEF subtracted, UVBI_TimeValue
<1>3. total(subtracted(a, b)) = total(a) - total(b)
  BY <1>1, SecondIsPositive, ProductOfSum, SMT DEF subtracted, total
<1> QED BY <1>2, <1>3, NormalizeKeepsTime DEF uvbiTimeValueDifference

\* Of two normalized times the one with fewer seconds is the earlier.
LEMMA FewerSeconds ==
  ASSUME NEW a \in Normal, NEW b \in Normal, a.seconds < b.seconds
  PROVE  total(a) < total(b)
<1>1. /\ a.seconds \in Int /\ a.microseconds \in Int /\ Normalized(a)
      /\ b.seconds \in Int /\ b.microseconds \in Int /\ Normalized(b)
  BY DEF Normal, UVBI_TimeValue
<1>2. /\ a.seconds * UVBI_USEC_PER_SEC \in Int /\ b.seconds * UVBI_USEC_PER_SEC \in Int
      /\ a.seconds * UVBI_USEC_PER_SEC + UVBI_USEC_PER_SEC <= b.seconds * UVBI_USEC_PER_SEC
  BY <1>1, SecondIsPositive, ProductOfLess, ProductOfSum, SMT
<1>3. CASE b.seconds > 0 /\ a.seconds < 0
  <2>1. /\ a.seconds * UVBI_USEC_PER_SEC + UVBI_USEC_PER_SEC <= 0
        /\ 0 + UVBI_USEC_PER_SEC <= b.seconds * UVBI_USEC_PER_SEC
    BY <1>1, <1>3, SecondIsPositive, ProductOfLess, SMT
  <2> QED BY <1>1, <1>2, <1>3, <2>1, SecondIsPositive, SMT DEF Normalized, total
<1>4. CASE ~(b.seconds > 0 /\ a.seconds < 0)
  BY <1>1, <1>2, <1>4, SecondIsPositive, SMT DEF Normalized, total
<1> QED BY <1>3, <1>4

\* uvbiTimeValueCmp() compares field by field; between normalized times that is
\* the order of what they stand for, as the histories ordered by time need.
THEOREM CmpOrdersTime ==
  ASSUME NEW a \in Normal, NEW b \in Normal
  PROVE  /\ uvbiTimeValueCmp(a, b) < 0 <=> total(a) < total(b)
         /\ uvbiTimeValueCmp(a, b) = 0 <=> total(a) = total(b)
<1>1. /\ a.seconds \in Int /\ a.microseconds \in Int
      /\ b.seconds \in Int /\ b.microseconds \in Int
      /\ total(a) \in Int /\ total(b) \in Int
  BY SecondIsPositive, ProductOfSum, SMT DEF Normal, UVBI_TimeValue, total
<1>2. CASE a.seconds < b.seconds
  BY <1>1, <1>2, FewerSeconds, SMT DEF uvbiTimeValueCmp, numcmp
<1>3. CASE b.seconds < a.seconds
  BY <1>1, <1>3, FewerSeconds, SMT DEF uvbiTimeValueCmp, numcmp
<1>4. CASE a.seconds = b.seconds
  BY <1>1, <1>4, SecondIsPositive, ProductOfSum, SMT DEF uvbiTimeValueCmp, numcmp, total
<1> QED BY <1>1, <1>2, <1>3, <1>4, SMT

\* A time moved by a duration, as the offset of the camera moves the time of an
\* image, is moved by exactly that (operator+ of TimeValue.h).
THEOREM DurationIsExact ==
  ASSUME NEW tv \in UVBI_TimeValue, NEW usec \in Int
  PROVE  /\ plusDuration(tv, usec) \in Normal
         /\ total(plusDuration(tv, usec)) = total(tv) + usec
<1> DEFINE whole == wholeSeconds(usec)
           d == [seconds |-> whole, microseconds |-> usec - whole * UVBI_USEC_PER_SEC]
<1>1. plusDuration(tv, usec) = uvbiTimeValueSum(tv, d)
  BY DEF plusDuration, uvbiTimeValueSum
<1>2. whole \in Int /\ whole * UVBI_USEC_PER_SEC \in Int
  BY DivisionTowardsZero, SecondIsPositive, ProductOfSum, SMT
<1> HIDE DEF whole
<1>3. d \in UVBI_TimeValue /\ total(d) = usec
  BY <1>2, SecondIsPositive, SMT DEF UVBI_TimeValue, total
<1> HIDE DEF d
<1> QED BY <1>1, <1>3, SumIsExact
=============================================================================
