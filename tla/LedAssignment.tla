----------------------------- MODULE LedAssignment -----------------------------
(***************************************************************************)
(* AssignMeasurementsToLeds.h and TrackedBodyTarget::processLedMeasurements:*)
(* the LEDs of a target followed from one image to the next.  Of all pairs *)
(* of an LED and a blob close enough to each other the closest is matched  *)
(* first; LEDs left over are forgotten and blobs left over become LEDs.    *)
(*                                                                         *)
(* What the camera sees is a few sources on a line.  In a calm scene the   *)
(* sources keep their distance, move slowly and no image is dropped; in a  *)
(* rough one they come close and images are missing.                       *)
(***************************************************************************)
EXTENDS Led

CONSTANTS
  NumBeacons,         \* numbers of beacons a target may have
  blobMoveThreshold,  \* in diameters of the blob
  Dim, Bright,        \* diameters of a blob, which stand for its brightness
  CalmScenes, RoughScenes,  \* where the sources may be: functions from sources to places
  MaxMove             \* of a source between two images of a calm scene

LIGHT == 0   \* a source that is not a beacon

gap(a, b) == IF a > b THEN a - b ELSE b - a

ASSUME TargetAssumption ==
  /\ NumBeacons \subseteq Nat
  /\ blobMoveThreshold \in Nat

\* Each pattern has both levels, and what is read is a rotation of at most one.
\* HDKSetup has the patterns of the HDK, for which RecognizedAsItself checks it.
ASSUME CodeAssumption ==
  /\ \A id \in enabledBeacons : ToSet(Patterns[id]) = {0, 1}
  /\ \A bits \in [1..d_length -> {0, 1}] : \A id, other \in matching(bits) : id = other

ASSUME SceneAssumption ==
  /\ Dim \in Nat /\ Bright \in Nat /\ Bright - Dim > TODO_MIN_BRIGHTNESS_DIFF
  /\ \A at \in CalmScenes \cup RoughScenes :
       at \in [DOMAIN at -> Int] /\ DOMAIN at \subseteq enabledBeacons \cup {LIGHT}
  /\ \A at \in CalmScenes : \A s, t \in DOMAIN at :
       s # t => gap(at[s], at[t]) >= blobMoveThreshold * Bright + MaxMove
  /\ MaxMove \in Nat /\ MaxMove < blobMoveThreshold * Dim

VARIABLES
  leds, usableLeds,
  m_numBeacons, blobsKeepIdentity,   \* configured
  measurements,
  distanceHeap_,     \* pairs of an LED and a measurement near each other
  ledRefs_, measRefs_,               \* the LEDs and measurements unclaimed
  numMatches_,
  assigning,         \* between populateStructures() and the end of the image
  matched,           \* history: the pairs matched so far
  calm, places, tick \* the scene: which kind, the sources, time in their patterns

assignment == <<distanceHeap_, ledRefs_, measRefs_, numMatches_, assigning, matched>>
scene == <<calm, places, tick>>
configured == <<m_numBeacons, blobsKeepIdentity>>
vars == <<leds, usableLeds, configured, measurements, assignment, scene>>

Sources == (DOMAIN Patterns) \cup {LIGHT}
Brightnesses == Dim..Bright
Measurements == [loc : Int, brightness : Brightnesses, of : Sources]

IDs == SENTINEL_MARKED_MISIDENTIFIED..Len(Patterns) \ {0}
Leds == [m_latestMeasurement : Measurements, m_brightnessHistory : Seq(Brightnesses),
         id : IDs, evidence : Nat]

TypeOK ==
  /\ leds \in Seq(Leds)
  /\ usableLeds \subseteq DOMAIN leds
  /\ m_numBeacons \in NumBeacons /\ blobsKeepIdentity \in BOOLEAN
  /\ measurements \in Seq(Measurements)
  /\ distanceHeap_ \subseteq [led : DOMAIN leds, meas : DOMAIN measurements, dist : Nat]
  /\ ledRefs_ \subseteq DOMAIN leds /\ measRefs_ \subseteq DOMAIN measurements
  /\ matched \subseteq distanceHeap_
  /\ numMatches_ \in 0..Len(measurements)
  /\ assigning \in BOOLEAN /\ calm \in BOOLEAN
  /\ places \in CalmScenes \cup RoughScenes
  /\ tick \in 0..d_length - 1

Init ==
  /\ leds = <<>> /\ usableLeds = {}
  /\ m_numBeacons \in NumBeacons /\ blobsKeepIdentity \in BOOLEAN
  /\ measurements = <<>>
  /\ distanceHeap_ = {} /\ ledRefs_ = {} /\ measRefs_ = {}
  /\ numMatches_ = 0 /\ assigning = FALSE /\ matched = {}
  /\ calm \in BOOLEAN
  /\ places \in IF calm THEN CalmScenes ELSE RoughScenes
  /\ tick = 0

-----------------------------------------------------------------------------
(***************************************************************************)
(* The scene                                                               *)
(***************************************************************************)
move(newPlaces) ==
  /\ DOMAIN newPlaces = DOMAIN places
  /\ calm => \A s \in DOMAIN places : gap(newPlaces[s], places[s]) <= MaxMove

shining(source, when) ==
  IF source = LIGHT THEN Dim..Dim + TODO_MIN_BRIGHTNESS_DIFF
  ELSE {IF Patterns[source][when + 1] = 1 THEN Bright ELSE Dim}

\* What can be measured of the sources visible, one blob for each.
images(newPlaces, visible, when) ==
  LET order == SetToSeq(visible)
      taken == {[i \in DOMAIN order |->
                   [loc |-> newPlaces[order[i]], brightness |-> b[i], of |-> order[i]]] :
                  b \in [DOMAIN order -> Brightnesses]}
  IN {image \in taken :
        \A i \in DOMAIN image : image[i].brightness \in shining(image[i].of, when)}

-----------------------------------------------------------------------------
(***************************************************************************)
(* AssignMeasurementsToLeds                                                *)
(***************************************************************************)
distance(led, meas) == gap(led.m_latestMeasurement.loc, meas.loc)

anywhere(led, meas) == TRUE   \* mutant
near(led, meas) == distance(led, meas) < blobMoveThreshold * meas.brightness

\* populateStructures()
candidates(image) ==
  {[led |-> p[1], meas |-> p[2], dist |-> distance(leds[p[1]], image[p[2]])] :
     p \in {q \in (DOMAIN leds) \X (DOMAIN image) : near(leds[q[1]], image[q[2]])}}

isLedValid(pair) == pair.led \in ledRefs_
isMeasValid(pair) == pair.meas \in measRefs_

isValid(pair) == isLedValid(pair) /\ isMeasValid(pair)

maxMatches_ == Min({Len(leds), Len(measurements)})

validPairs == {pair \in distanceHeap_ : isValid(pair)}

hasMoreMatches == numMatches_ # maxMatches_ /\ validPairs # {}

anyValid(pair) == pair \in validPairs   \* mutant
\* The heap gives the closest valid pair; of several equally close ones any.
isTop(pair) ==
  pair \in validPairs /\ \A other \in validPairs : pair.dist <= other.dist

\* Compares the zero-based ID with the number of beacons.
outOfRange(led) == identified(led) /\ led.id - 1 > m_numBeacons

(***************************************************************************)
(* processLedMeasurements()                                                *)
(***************************************************************************)
Image(newPlaces, visible, steps) ==
  LET when == (tick + steps) % d_length IN
  /\ ~assigning
  /\ move(newPlaces)
  /\ places' = newPlaces /\ tick' = when
  /\ \E image \in images(newPlaces, visible, when) :
       /\ measurements' = image
       /\ distanceHeap_' = candidates(image)
       /\ measRefs_' = DOMAIN image
  /\ ledRefs_' = DOMAIN leds
  /\ numMatches_' = 0 /\ matched' = {}
  /\ assigning' = TRUE
  /\ usableLeds' = {}
  /\ UNCHANGED <<leds, configured, calm>>

\* One turn of the loop: getMatch(), addMeasurement() and, when that makes the
\* ID one the target does not have, the measurement is there for other LEDs.
Match(pair) ==
  LET updated == addMeasurement(leds[pair.led], measurements[pair.meas], blobsKeepIdentity)
  IN
  /\ assigning /\ hasMoreMatches /\ isTop(pair)
  /\ ledRefs_' = ledRefs_ \ {pair.led}
  /\ IF outOfRange(updated)
       THEN /\ leds' = [leds EXCEPT ![pair.led] = markMisidentified(updated)]
            /\ UNCHANGED <<measRefs_, numMatches_, matched>>
       ELSE /\ leds' = [leds EXCEPT ![pair.led] = updated]
            /\ measRefs_' = measRefs_ \ {pair.meas}
            /\ numMatches_' = numMatches_ + 1
            /\ matched' = matched \cup {pair}
  /\ UNCHANGED <<usableLeds, configured, measurements, distanceHeap_, assigning, scene>>

\* The elements of S from the least to the greatest.
indices(S) ==
  CHOOSE order \in [1..Cardinality(S) -> S] :
    \A i, j \in 1..Cardinality(S) : i < j => order[i] < order[j]

nothingErased == leds   \* mutant
\* eraseUnclaimedLedObjects()
claimedLeds ==
  LET kept == indices(DOMAIN leds \ ledRefs_) IN [i \in DOMAIN kept |-> leds[kept[i]]]

newLeds ==
  LET unclaimed == indices(measRefs_) IN
  [i \in DOMAIN unclaimed |-> newLed(measurements[unclaimed[i]])]

\* What follows the loop; updateUsableLeds() is its end.
Finish ==
  /\ assigning /\ ~hasMoreMatches
  /\ leds' = claimedLeds \o newLeds
  /\ usableLeds' = {i \in DOMAIN leds' : identified(leds'[i])}
  /\ assigning' = FALSE
  /\ distanceHeap_' = {} /\ ledRefs_' = {} /\ measRefs_' = {} /\ matched' = {}
  /\ UNCHANGED <<configured, measurements, numMatches_, scene>>

\* The Kalman filter finds the blob of an LED far from where its beacon should be.
Refute(i) ==
  /\ ~assigning /\ i \in usableLeds
  /\ leds' = [leds EXCEPT ![i] = markMisidentified(leds[i])]
  /\ UNCHANGED <<usableLeds, configured, measurements, assignment, scene>>

Next ==
  \/ \E newPlaces \in (IF calm THEN CalmScenes ELSE RoughScenes),
        steps \in (IF calm THEN {1} ELSE {1, 2}) :
       \E visible \in SUBSET (DOMAIN newPlaces) : Image(newPlaces, visible, steps)
  \/ \E pair \in distanceHeap_ : Match(pair)
  \/ Finish
  \/ \E i \in usableLeds : Refute(i)

Spec == Init /\ [][Next]_vars

-----------------------------------------------------------------------------
(***************************************************************************)
(* Properties                                                              *)
(***************************************************************************)
followers(m) == {i \in DOMAIN leds : leds[i].m_latestMeasurement = measurements[m]}

\* After an image every blob has its LED and every LED its blob
\* (processLedMeasurements()).  Two LEDs on one blob there are only where the
\* target has fewer beacons than patterns, and one of them is marked.
BlobsFollowed ==
  ~assigning =>
    /\ \A m \in DOMAIN measurements : followers(m) # {}
    /\ \A i \in DOMAIN leds : \E m \in DOMAIN measurements : i \in followers(m)
    /\ \A m \in DOMAIN measurements : \A i, j \in followers(m) : i # j =>
         /\ m_numBeacons < Len(Patterns)
         /\ SENTINEL_MARKED_MISIDENTIFIED \in {leds[i].id, leds[j].id}

\* When matching ends no LED and blob near each other were passed over for a
\* pair farther apart (getMatch(), hasMoreMatches()): each pair near each other
\* was matched, or one of the two was matched to something no farther away.
ClosestFirst ==
  assigning /\ ~hasMoreMatches /\ m_numBeacons >= Len(Patterns) =>
    \A pair \in distanceHeap_ : \E made \in matched :
      /\ made.led = pair.led \/ made.meas = pair.meas
      /\ made.dist <= pair.dist

\* In a calm scene an LED is never taken for another beacon than the one it
\* follows, and no other light for a beacon (getId(), addMeasurement()).
IdentifiedRight ==
  calm => \A i \in DOMAIN leds :
    identified(leds[i]) => leds[i].id = leds[i].m_latestMeasurement.of

\* In a calm scene a beacon seen for the length of its pattern is recognized,
\* also after its LED was refuted (getId(), markMisidentified()).
RecognizedInTime ==
  calm /\ ~assigning => \A i \in DOMAIN leds :
    LET beacon == leds[i].m_latestMeasurement.of IN
    beacon # LIGHT /\ beacon - 1 <= m_numBeacons /\ leds[i].evidence = d_length =>
      identified(leds[i])

\* An LED is identified only on a whole pattern of measurements of its own, all
\* taken since it was last refuted (getId(), markMisidentified()).
IdentifiedOnEvidence ==
  \A i \in DOMAIN leds : identified(leds[i]) => leds[i].evidence = d_length

-----------------------------------------------------------------------------
(***************************************************************************)
(* Why they hold: inductive together with TypeOK                           *)
(***************************************************************************)

\* The LEDs whose measurement is of this image: all but those still unclaimed.
settled == DOMAIN leds \ ledRefs_

\* The counts of matches and of what is unclaimed agree with each other.
CountInv ==
  /\ ~assigning => distanceHeap_ = {} /\ ledRefs_ = {} /\ measRefs_ = {}
  /\ assigning => numMatches_ + Cardinality(measRefs_) = Len(measurements)
  /\ assigning /\ m_numBeacons >= Len(Patterns) =>
       numMatches_ + Cardinality(ledRefs_) = Len(leds)

\* A pair that cannot be matched any more lost to one no farther apart.
ClosestInv ==
  assigning /\ m_numBeacons >= Len(Patterns) =>
    \A pair \in distanceHeap_ : isValid(pair) \/ \E made \in matched :
      /\ made.led = pair.led \/ made.meas = pair.meas
      /\ made.dist <= pair.dist

\* BlobsFollowed of what is claimed so far; a blob given back is followed only
\* by LEDs marked.
FollowInv ==
  /\ \A m, n \in DOMAIN measurements : measurements[m] = measurements[n] => m = n
  /\ \A i \in settled : \E m \in DOMAIN measurements : i \in followers(m)
  /\ \A m \in DOMAIN measurements \ measRefs_ : followers(m) \cap settled # {}
  /\ \A m \in DOMAIN measurements : \A i, j \in followers(m) \cap settled : i # j =>
       /\ m_numBeacons < Len(Patterns)
       /\ SENTINEL_MARKED_MISIDENTIFIED \in {leds[i].id, leds[j].id}
  /\ \A m \in measRefs_ : \A i \in followers(m) \cap settled :
       /\ m_numBeacons < Len(Patterns)
       /\ leds[i].id = SENTINEL_MARKED_MISIDENTIFIED

\* The evidence is the history kept.
EvidenceInv ==
  \A i \in DOMAIN leds :
    /\ leds[i].evidence = Len(leds[i].m_brightnessHistory)
    /\ leds[i].evidence \in 1..d_length
    /\ identified(leds[i]) => leds[i].evidence = d_length

\* The brightness an LED remembers is that of its source up to some time.
remembersSource(led, when) ==
  LET h == led.m_brightnessHistory IN
  \A i \in DOMAIN h :
    h[i] \in shining(led.m_latestMeasurement.of, (when - (Len(h) - i)) % d_length)

\* An LED remembers its source and is not taken for another; it is identified
\* on a whole pattern of a beacon that the target has.
followsSource(led, when) ==
  LET source == led.m_latestMeasurement.of IN
  /\ source \in enabledBeacons \cup {LIGHT}
  /\ remembersSource(led, when)
  /\ identified(led) => led.id = source
  /\ source # LIGHT /\ source - 1 <= m_numBeacons /\ led.evidence = d_length => identified(led)

\* In a calm scene an LED near a blob is of the same source.
CalmInv ==
  calm =>
    /\ places \in CalmScenes
    /\ \A m \in DOMAIN measurements :
         /\ measurements[m].of \in DOMAIN places
         /\ measurements[m].loc = places[measurements[m].of]
         /\ measurements[m].brightness \in shining(measurements[m].of, tick)
    /\ \A pair \in distanceHeap_ : pair.led \in ledRefs_ =>
         leds[pair.led].m_latestMeasurement.of = measurements[pair.meas].of
    /\ \A i \in DOMAIN leds :
         followsSource(leds[i], IF i \in ledRefs_ THEN tick - 1 ELSE tick)

IInv == TypeOK /\ CountInv /\ ClosestInv /\ FollowInv /\ EvidenceInv /\ CalmInv
=============================================================================
