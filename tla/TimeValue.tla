------------------------------- MODULE TimeValue -------------------------------
(***************************************************************************)
(* TimeValueC.cpp and TimeValue.h: times and spans of time as seconds and  *)
(* microseconds, both negative for a span back in time.                    *)
(***************************************************************************)
EXTENDS Integers

UVBI_USEC_PER_SEC == 1000 * 1000

UVBI_TimeValue == [seconds : Int, microseconds : Int]

\* What a time stands for, in microseconds.
total(tv) == tv.seconds * UVBI_USEC_PER_SEC + tv.microseconds

\* The form that every operation returns and expects.
Normalized(tv) ==
  /\ tv.microseconds \in -UVBI_USEC_PER_SEC + 1 .. UVBI_USEC_PER_SEC - 1
  /\ tv.seconds > 0 => tv.microseconds >= 0
  /\ tv.seconds < 0 => tv.microseconds <= 0

Normal == {tv \in UVBI_TimeValue : Normalized(tv)}

TwoTo31 == 2048 * 1024 * 1024
Int32 == -TwoTo31 .. TwoTo31 - 1

-----------------------------------------------------------------------------
\* Division by the microseconds of a second, towards zero.
wholeSeconds(usec) ==
  IF usec >= 0 THEN usec \div UVBI_USEC_PER_SEC ELSE -((-usec) \div UVBI_USEC_PER_SEC)

carried(tv) ==
  LET rem == wholeSeconds(tv.microseconds) IN
  [seconds |-> tv.seconds + rem, microseconds |-> tv.microseconds - rem * UVBI_USEC_PER_SEC]

sameSign(tv) ==
  IF tv.seconds > 0 /\ tv.microseconds < 0
    THEN [seconds |-> tv.seconds - 1, microseconds |-> tv.microseconds + UVBI_USEC_PER_SEC]
  ELSE IF tv.seconds < 0 /\ tv.microseconds > 0
    THEN [seconds |-> tv.seconds + 1, microseconds |-> tv.microseconds - UVBI_USEC_PER_SEC]
  ELSE tv

uvbiTimeValueNormalize(tv) == sameSign(carried(tv))

-----------------------------------------------------------------------------
added(a, b) ==
  [seconds |-> a.seconds + b.seconds, microseconds |-> a.microseconds + b.microseconds]

subtracted(a, b) ==
  [seconds |-> a.seconds - b.seconds, microseconds |-> a.microseconds - b.microseconds]

uvbiTimeValueSum(a, b) == uvbiTimeValueNormalize(added(a, b))

uvbiTimeValueDifference(a, b) == uvbiTimeValueNormalize(subtracted(a, b))

numcmp(a, b) == IF a = b THEN 0 ELSE IF a < b THEN -1 ELSE 1

uvbiTimeValueCmp(a, b) ==
  IF numcmp(a.seconds, b.seconds) # 0 THEN numcmp(a.seconds, b.seconds)
  ELSE numcmp(a.microseconds, b.microseconds)

\* A time and a duration of the standard library, in microseconds.
plusDuration(tv, usec) ==
  LET seconds == wholeSeconds(usec) IN
  uvbiTimeValueNormalize(
    added(tv, [seconds |-> seconds, microseconds |-> usec - seconds * UVBI_USEC_PER_SEC]))
=============================================================================
