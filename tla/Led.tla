---------------------------------- MODULE Led ----------------------------------
(***************************************************************************)
(* LED.cpp and HDKLedIdentifier.cpp: a blob followed from image to image   *)
(* and the beacon it is taken for, which is read off the last levels of    *)
(* brightness.  A beacon blinks its pattern over and over, so any rotation *)
(* of a pattern stands for it.                                             *)
(*                                                                         *)
(* An LED is its latest measurement, its history of brightness and its ID; *)
(* novelty and the bright flag only weigh measurements and are left out.   *)
(* The history field evidence counts the measurements since the LED began, *)
(* or was last refuted, as far as a pattern is long.                       *)
(***************************************************************************)
EXTENDS Integers, FiniteSetsExt, SequencesExt

CONSTANTS
  Patterns,                \* sequence of bits for each beacon, <<>> if disabled; IDs are one-based
  TODO_MIN_BRIGHTNESS_DIFF

ASSUME PatternAssumption ==
  /\ Patterns \in Seq(Seq({0, 1}))
  /\ \E some \in DOMAIN Patterns :
       /\ Patterns[some] # <<>>
       /\ \A id \in DOMAIN Patterns : Len(Patterns[id]) \in {0, Len(Patterns[some])}
  /\ TODO_MIN_BRIGHTNESS_DIFF \in Nat

SENTINEL_INSUFFICIENT_DATA == -1
SENTINEL_INSUFFICIENT_EXTREMA_DIFFERENCE == -2
SENTINEL_NO_PATTERN_RECOGNIZED == -3
SENTINEL_NO_IDENTIFIER_OBJECT == -4
SENTINEL_MARKED_MISIDENTIFIED == -5

d_length == Max({Len(Patterns[id]) : id \in DOMAIN Patterns})

identified(led) == led.id > 0

-----------------------------------------------------------------------------
truncateBrightnessListTo(brightnesses, n) ==
  SubSeq(brightnesses, Max({1, Len(brightnesses) - n + 1}), Len(brightnesses))

bitsOf(brightnesses) ==
  LET low == Min(ToSet(brightnesses)) high == Max(ToSet(brightnesses)) IN
  [i \in DOMAIN brightnesses |-> IF 2 * brightnesses[i] >= low + high THEN 1 ELSE 0]

unrotated(bits, pattern) == bits = pattern   \* mutant
isRotation(bits, pattern) ==
  \E shift \in 0..d_length - 1 :
    \A i \in 1..d_length : bits[i] = pattern[((i + shift - 1) % d_length) + 1]

enabledBeacons == {id \in DOMAIN Patterns : Patterns[id] # <<>>}

matching(bits) == {id \in enabledBeacons : isRotation(bits, Patterns[id])}

\* Of several patterns the first one is taken.
getId(currentId, brightnesses, blobsKeepId) ==
  IF Len(brightnesses) < d_length THEN SENTINEL_INSUFFICIENT_DATA
  ELSE LET recent == truncateBrightnessListTo(brightnesses, d_length) IN
    IF Max(ToSet(recent)) - Min(ToSet(recent)) <= TODO_MIN_BRIGHTNESS_DIFF
      THEN SENTINEL_INSUFFICIENT_EXTREMA_DIFFERENCE
    ELSE IF blobsKeepId /\ currentId > 0 THEN currentId
    ELSE IF matching(bitsOf(recent)) = {} THEN SENTINEL_NO_PATTERN_RECOGNIZED
    ELSE Min(matching(bitsOf(recent)))

\* A blob known to be misidentified keeps that mark while nothing is recognized.
withSticky(oldId, id) ==
  IF oldId = SENTINEL_MARKED_MISIDENTIFIED
     /\ id \in {SENTINEL_INSUFFICIENT_DATA, SENTINEL_NO_PATTERN_RECOGNIZED}
    THEN oldId ELSE id

addMeasurement(led, meas, blobsKeepId) ==
  LET history == Append(led.m_brightnessHistory, meas.brightness) IN
  [m_latestMeasurement |-> meas,
   m_brightnessHistory |-> truncateBrightnessListTo(history, d_length),
   id |-> withSticky(led.id, getId(led.id, history, blobsKeepId)),
   evidence |-> Min({led.evidence + 1, d_length})]

newLed(meas) ==
  addMeasurement([m_latestMeasurement |-> meas, m_brightnessHistory |-> <<>>,
                  id |-> SENTINEL_NO_IDENTIFIER_OBJECT, evidence |-> 0], meas, FALSE)

historyKept(led) ==   \* mutant
  [led EXCEPT !.id = SENTINEL_MARKED_MISIDENTIFIED, !.evidence = 1]
markMisidentified(led) ==
  [led EXCEPT !.id = SENTINEL_MARKED_MISIDENTIFIED,
              !.m_brightnessHistory = <<led.m_latestMeasurement.brightness>>,
              !.evidence = 1]
=============================================================================
