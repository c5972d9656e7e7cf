------------------------- MODULE TargetFilter_proofs -------------------------
(***************************************************************************)
(* Proofs about TargetTracking and TargetFilter, for all limits and        *)
(* numbers of LEDs: the invariants of the modes; that they hold of the     *)
(* modes with the state; and that the rotation of a state is whole unless  *)
(* a correction was refused.                                               *)
(***************************************************************************)
EXTENDS TargetFilter, TLAPS

-----------------------------------------------------------------------------
(***************************************************************************)
(* The modes                                                               *)
(***************************************************************************)

\* The modes in which the Kalman filter is given the image.
Filtered == {"EnteringKalman", "Kalman", "RANSACWhenBlobDetected"}

Awaiting == {"RANSACWhenBlobDetected", "RANSACKalmanWhenBlobDetected"}

\* While the target is in a SCAAT mode the two counts of images without beacons
\* run together, the filter's behind the health evaluator's.
CountsAgree ==
  isStateSCAAT(trackingState) =>
    m_framesWithoutIdentifiedBlobs <= m_framesWithoutValidBeacons

\* Probation is over its limit only once the target has been reset for it.
ProbationInLimit ==
  /\ trackingState = "EnteringKalman" => m_framesInProbation = 0
  /\ trackingState \in {"Kalman", "RANSACWhenBlobDetected"}
       => m_framesInProbation <= MAX_PROBATION_FRAMES

IInv ==
  /\ TypeOK
  /\ KalmanHasPose
  /\ NonFiniteStartsOver
  /\ AwaitedWhenBlind
  /\ BlindIsBounded
  /\ CountsAgree
  /\ ProbationInLimit

-----------------------------------------------------------------------------
LEMMA ImageFacts ==
  ASSUME NEW img \in Images
  PROVE  /\ img.leds \in Nat /\ img.away \in Nat /\ img.skipped \in Nat
         /\ img.far \in Nat /\ img.poor \in Nat
         /\ img.away + img.skipped + img.far + img.poor <= img.leds
         /\ img.ransac \in BOOLEAN
         /\ img.from.finite \in BOOLEAN /\ img.from.valid \in BOOLEAN
BY TargetAssumption DEF Images

LEMMA BeaconCount ==
  ASSUME TypeOK, NEW img \in Images
  PROVE  /\ withoutBeacons(img) \in 0..MAX_FRAMES_WITHOUT_BEACONS + 1
         /\ img.from.finite /\ img.leds = 0
              /\ withoutBeacons(img) <= MAX_FRAMES_WITHOUT_BEACONS =>
                   withoutBeacons(img) = m_framesWithoutValidBeacons + 1
BY ImageFacts, TargetAssumption DEF TypeOK, withoutBeacons

\* The health evaluator stops a target that is not finite or unseen for too long.
LEMMA HealthFacts ==
  ASSUME TypeOK, NEW img \in Images, NEW state \in TrackingStates,
         healthEval(state, img) = "OK"
  PROVE  img.from.finite /\ withoutBeacons(img) <= MAX_FRAMES_WITHOUT_BEACONS
BY BeaconCount, ImageFacts, TargetAssumption DEF healthEval, finite

\* Where an image may be dispatched: a SCAAT mode is the one the target was in,
\* with a pose and in good health; in a waiting one there are still no beacons.
LEMMA DispatchFacts ==
  ASSUME IInv, NEW img \in Images
  PROVE  /\ dispatchState(img) \in TrackingStates
         /\ isStateSCAAT(dispatchState(img)) =>
              /\ dispatchState(img) = trackingState
              /\ m_hasPoseEstimate
              /\ img.from.finite
              /\ withoutBeacons(img) <= MAX_FRAMES_WITHOUT_BEACONS
         /\ dispatchState(img) \in Awaiting => img.leds = 0
         /\ ~img.from.finite => dispatchState(img) = "RANSAC"
<1> DEFINE health == healthEval(afterLoss, img)
<1>1. afterLoss = trackingState /\ afterLoss \in TrackingStates
  BY DEF afterLoss, IInv, KalmanHasPose, TypeOK
<1>2. health = "OK" => /\ img.from.finite
                       /\ withoutBeacons(img) <= MAX_FRAMES_WITHOUT_BEACONS
  BY <1>1, HealthFacts DEF IInv
<1>3. ~img.from.finite => health = "HardResetNonFiniteState"
  BY DEF healthEval, finite
<1>4. /\ health = "OK" => afterHealth(img) = trackingState
      /\ health # "OK" => afterHealth(img) \in {"RANSAC", "RANSACKalman"}
      /\ health = "HardResetNonFiniteState" => afterHealth(img) = "RANSAC"
  BY <1>1 DEF afterHealth
<1> HIDE DEF health
<1>5. /\ afterHealth(img) \notin Awaiting => dispatchState(img) = afterHealth(img)
      /\ img.leds > 0 /\ afterHealth(img) \in Awaiting =>
           dispatchState(img) \in {"RANSAC", "RANSACKalman"}
      /\ ~(img.leds > 0) => dispatchState(img) = afterHealth(img)
  BY DEF dispatchState, Awaiting
<1>6. isStateSCAAT(dispatchState(img)) =>
        dispatchState(img) = trackingState /\ health = "OK"
  BY <1>1, <1>4, <1>5 DEF isStateSCAAT, TrackingStates, Awaiting
<1>7. isStateSCAAT(trackingState) => m_hasPoseEstimate
  BY DEF IInv, KalmanHasPose
<1>8. dispatchState(img) \in Awaiting => img.leds = 0
  BY <1>4, <1>5, ImageFacts DEF Awaiting
<1>9. ~img.from.finite => dispatchState(img) = "RANSAC"
  BY <1>3, <1>4, <1>5 DEF Awaiting
<1>10. dispatchState(img) \in TrackingStates
  BY <1>1, <1>4, <1>5 DEF TrackingStates
<1> QED BY <1>2, <1>6, <1>7, <1>8, <1>9, <1>10

LEMMA SumZero ==
  ASSUME NEW a \in Nat, NEW b \in Nat, NEW c \in Nat, NEW d \in Nat, a + b + c + d <= 0
  PROVE  a = 0 /\ b = 0 /\ c = 0 /\ d = 0
OBVIOUS

\* Probation grows by at most one, and not without beacons.
LEMMA ProbationFacts ==
  ASSUME TypeOK, NEW img \in Images
  PROVE  /\ probation(img) \in 0..m_framesInProbation + 1
         /\ img.leds = 0 => probation(img) = 0
<1>1. numBad(img) \in Nat /\ numGood(img) \in Nat
  BY ImageFacts DEF numBad, numGood
<1>2. ASSUME img.leds = 0 PROVE numBad(img) = 0 /\ numGood(img) = 0
  <2>1. img.away = 0 /\ img.skipped = 0 /\ img.far = 0 /\ img.poor = 0
    BY <1>2, ImageFacts, SumZero
  <2> QED BY <1>2, <2>1 DEF numBad, numGood
<1> QED BY <1>1, <1>2, TargetAssumption DEF probation, TypeOK

-----------------------------------------------------------------------------
LEMMA InvInit == Init => IInv
<1> SUFFICES ASSUME Init PROVE IInv
  OBVIOUS
<1>1. TypeOK
  <2>1. /\ trackingState \in TrackingStates
        /\ m_hasPoseEstimate \in BOOLEAN /\ permitKalman \in BOOLEAN /\ softResets \in BOOLEAN
        /\ m_misIDConsideredOurFault \in BOOLEAN
        /\ algorithm \in {"none", "RANSAC", "RANSACKalman", "Kalman"}
    BY DEF Init, TrackingStates
  <2>2. from \in [finite : BOOLEAN, good : BOOLEAN]
    BY DEF Init
  <2>3. /\ m_framesWithoutValidBeacons \in 0..MAX_FRAMES_WITHOUT_BEACONS + 1
        /\ m_framesWithoutIdentifiedBlobs \in Nat
        /\ m_framesInProbation \in 0..MAX_PROBATION_FRAMES + 1
        /\ m_lastUsableBeaconsSeen \in Nat \cup {SIGNAL_HAVE_NOT_SEEN_BEACONS_YET}
    BY TargetAssumption DEF Init
  <2> QED BY <2>1, <2>2, <2>3 DEF TypeOK
<1>2. KalmanHasPose /\ CountsAgree
  BY DEF Init, KalmanHasPose, CountsAgree, isStateSCAAT
<1>3. NonFiniteStartsOver /\ AwaitedWhenBlind /\ ProbationInLimit
  BY DEF Init, NonFiniteStartsOver, AwaitedWhenBlind, ProbationInLimit
<1>4. BlindIsBounded
  BY TargetAssumption DEF Init, BlindIsBounded
<1> QED BY <1>1, <1>2, <1>3, <1>4 DEF IInv

\* What every image does, whatever mode it is dispatched in.
LEMMA AskedTypes ==
  ASSUME IInv, NEW img \in Images, Asked(img)
  PROVE  /\ m_framesWithoutValidBeacons' \in 0..MAX_FRAMES_WITHOUT_BEACONS + 1
         /\ from' \in [finite : BOOLEAN, good : BOOLEAN] /\ from'.finite = img.from.finite
         /\ permitKalman' \in BOOLEAN /\ softResets' \in BOOLEAN
<1>1. Good(img) \in BOOLEAN
  BY DEF Good
<1>2. from' = [finite |-> img.from.finite, good |-> Good(img)]
  BY DEF Asked
<1>3. from' \in [finite : BOOLEAN, good : BOOLEAN] /\ from'.finite = img.from.finite
  BY <1>1, <1>2, ImageFacts
<1> QED BY <1>3, BeaconCount DEF Asked, IInv, TypeOK

LEMMA RansacKeepsIInv ==
  ASSUME IInv, NEW img \in Images, Ransac(img)
  PROVE  IInv'
<1> DEFINE state == dispatchState(img)
<1>1. state \in {"RANSAC", "RANSACKalman"} /\ (~img.from.finite => state = "RANSAC")
  BY DispatchFacts DEF Ransac
<1>2. Asked(img) /\ algorithm' = state /\ m_hasPoseEstimate' = img.ransac
  BY DEF Ransac
<1> HIDE DEF state
<1>3. NonFiniteStartsOver' /\ algorithm' \in {"none", "RANSAC", "RANSACKalman", "Kalman"}
  BY <1>1, <1>2, AskedTypes DEF NonFiniteStartsOver
<1>4. m_hasPoseEstimate' \in BOOLEAN
  BY <1>2, ImageFacts
<1>5. CASE kalmanPermitted(img)
  <2>1. trackingState' = "EnteringKalman" /\ resetCounters /\ m_hasPoseEstimate' = TRUE
    BY <1>2, <1>5, ImageFacts DEF Ransac, kalmanPermitted
  <2>2. TypeOK'
    <3>1. /\ m_framesWithoutIdentifiedBlobs' \in Nat
          /\ m_framesInProbation' \in 0..MAX_PROBATION_FRAMES + 1
          /\ m_lastUsableBeaconsSeen' \in Nat \cup {SIGNAL_HAVE_NOT_SEEN_BEACONS_YET}
      BY <2>1, TargetAssumption DEF resetCounters
    <3>2. m_misIDConsideredOurFault' \in BOOLEAN
      BY <2>1 DEF resetCounters
    <3> QED BY <1>2, <1>3, <1>4, <2>1, <3>1, <3>2, AskedTypes DEF TypeOK, TrackingStates
  <2>3. KalmanHasPose' /\ AwaitedWhenBlind' /\ ProbationInLimit'
    BY <2>1 DEF resetCounters, KalmanHasPose, AwaitedWhenBlind, ProbationInLimit
  <2>4. BlindIsBounded' /\ CountsAgree'
    BY <1>2, <2>1, AskedTypes, TargetAssumption
       DEF resetCounters, BlindIsBounded, CountsAgree
  <2> QED BY <1>3, <2>2, <2>3, <2>4 DEF IInv
<1>6. CASE ~kalmanPermitted(img)
  <2>1. trackingState' = state /\ UNCHANGED counters
    BY <1>6 DEF Ransac, state
  <2>2. TypeOK'
    BY <1>1, <1>2, <1>3, <1>4, <2>1, AskedTypes DEF counters, IInv, TypeOK, TrackingStates
  <2>3. KalmanHasPose' /\ AwaitedWhenBlind' /\ ProbationInLimit' /\ CountsAgree'
    BY <1>1, <2>1
       DEF KalmanHasPose, AwaitedWhenBlind, ProbationInLimit, CountsAgree, isStateSCAAT
  <2>4. BlindIsBounded'
    BY <2>1 DEF counters, IInv, BlindIsBounded
  <2> QED BY <1>3, <2>2, <2>3, <2>4 DEF IInv
<1> QED BY <1>5, <1>6

\* The filter is given the image in the mode the target was in, in good health, so
\* its count of images without beacons grows with the health evaluator's.
LEMMA KalmanKeepsIInv ==
  ASSUME IInv, NEW img \in Images, Kalman(img)
  PROVE  IInv'
<1> DEFINE state == dispatchState(img)
<1>1. /\ state \in Filtered /\ state = trackingState
      /\ img.from.finite /\ withoutBeacons(img) <= MAX_FRAMES_WITHOUT_BEACONS
      /\ state = "RANSACWhenBlobDetected" => img.leds = 0
  BY DispatchFacts DEF Kalman, Filtered, isStateSCAAT, Awaiting
<1>2. /\ Asked(img) /\ kalmanEstimator(img)
      /\ algorithm' = "Kalman" /\ m_hasPoseEstimate' = TRUE
  BY DEF Kalman
<1>3. /\ state = "EnteringKalman" => trackingState' = "Kalman"
      /\ state = "Kalman" => trackingState' = unhealthy[kalmanHealth]
      /\ state = "RANSACWhenBlobDetected" => trackingState' = "RANSACWhenBlobDetected"
  BY <1>1 DEF Kalman, Filtered
<1> HIDE DEF state
<1>4. kalmanHealth \in {"NeedsHardResetNow", "SoftResetWhenBeaconsSeen", "Functioning"}
  BY DEF kalmanHealth
<1>5. /\ kalmanHealth = "NeedsHardResetNow" => unhealthy[kalmanHealth] = "RANSAC"
      /\ kalmanHealth = "SoftResetWhenBeaconsSeen" => unhealthy[kalmanHealth] \in Awaiting
      /\ kalmanHealth = "Functioning" => unhealthy[kalmanHealth] = "Kalman"
  BY DEF unhealthy, Awaiting
<1>6. trackingState' \in {"RANSAC", "Kalman"} \cup Awaiting
  BY <1>1, <1>3, <1>4, <1>5 DEF Filtered, Awaiting
<1>7. /\ m_framesWithoutIdentifiedBlobs' \in Nat
      /\ m_framesWithoutIdentifiedBlobs' =
           IF img.leds = 0 THEN m_framesWithoutIdentifiedBlobs + 1 ELSE 0
  BY <1>2, ImageFacts DEF kalmanEstimator, withoutIdentifiedBlobs, IInv, TypeOK
<1>8. /\ m_framesWithoutIdentifiedBlobs' <= m_framesWithoutValidBeacons'
      /\ m_framesWithoutValidBeacons' <= MAX_FRAMES_WITHOUT_BEACONS
  <2>1. m_framesWithoutIdentifiedBlobs <= m_framesWithoutValidBeacons
    BY <1>1 DEF IInv, CountsAgree, Filtered, isStateSCAAT
  <2>2. m_framesWithoutValidBeacons' = withoutBeacons(img)
    BY <1>2 DEF Asked
  <2>3. CASE img.leds = 0
    BY <1>1, <1>7, <2>1, <2>2, <2>3, BeaconCount, TargetAssumption DEF IInv, TypeOK
  <2>4. CASE img.leds # 0
    BY <1>1, <1>7, <2>2, <2>4, BeaconCount, TargetAssumption DEF IInv
  <2> QED BY <2>3, <2>4
<1>9. m_framesInProbation' \in 0..m_framesInProbation + 1 /\ m_framesInProbation \in Nat
  BY <1>2, ProbationFacts, TargetAssumption DEF kalmanEstimator, IInv, TypeOK
<1>10. m_framesInProbation' \in 0..MAX_PROBATION_FRAMES + 1 /\ ProbationInLimit'
  <2>1. CASE state = "EnteringKalman"
    <3>1. m_framesInProbation = 0
      BY <1>1, <2>1 DEF IInv, ProbationInLimit
    <3> QED BY <1>3, <1>9, <2>1, <3>1, TargetAssumption DEF ProbationInLimit
  <2>2. CASE state = "Kalman"
    <3>1. m_framesInProbation <= MAX_PROBATION_FRAMES
      BY <1>1, <2>2 DEF IInv, ProbationInLimit
    <3>2. m_framesInProbation' \in 0..MAX_PROBATION_FRAMES + 1
      BY <1>9, <3>1, TargetAssumption
    <3>3. kalmanHealth # "NeedsHardResetNow" => m_framesInProbation' <= MAX_PROBATION_FRAMES
      BY <3>2, TargetAssumption DEF kalmanHealth
    <3>4. trackingState' # "EnteringKalman"
      BY <1>6 DEF Awaiting
    <3> QED BY <1>3, <1>4, <1>5, <2>2, <3>2, <3>3, <3>4 DEF ProbationInLimit
  <2>3. CASE state = "RANSACWhenBlobDetected"
    <3>1. m_framesInProbation' = 0
      BY <1>1, <1>2, <2>3, ProbationFacts DEF kalmanEstimator, IInv
    <3> QED BY <1>6, <3>1, TargetAssumption DEF ProbationInLimit, Awaiting
  <2> QED BY <1>1, <2>1, <2>2, <2>3 DEF Filtered
<1>11. AwaitedWhenBlind'
  <2>1. CASE state = "RANSACWhenBlobDetected"
    <3>1. m_framesWithoutIdentifiedBlobs > MAX_FRAMES_WITHOUT_ID_BLOBS
      BY <1>1, <2>1 DEF IInv, AwaitedWhenBlind
    <3> QED BY <1>1, <1>7, <2>1, <3>1, TargetAssumption DEF AwaitedWhenBlind, IInv, TypeOK
  <2>2. CASE state = "Kalman" /\ kalmanHealth = "SoftResetWhenBeaconsSeen"
    BY <2>2 DEF kalmanHealth, AwaitedWhenBlind
  <2>3. CASE state = "EnteringKalman" \/ (state = "Kalman" /\ kalmanHealth # "SoftResetWhenBeaconsSeen")
    BY <1>3, <1>4, <1>5, <2>3 DEF AwaitedWhenBlind
  <2> QED BY <1>1, <2>1, <2>2, <2>3 DEF Filtered
<1>12. /\ m_misIDConsideredOurFault' \in BOOLEAN
       /\ m_lastUsableBeaconsSeen' \in Nat \cup {SIGNAL_HAVE_NOT_SEEN_BEACONS_YET}
  BY <1>2, ImageFacts DEF kalmanEstimator, handlePossiblyMisidentifiedLeds
<1>13. TypeOK'
  <2>1. trackingState' \in TrackingStates
    BY <1>6 DEF TrackingStates, Awaiting
  <2> QED BY <1>2, <1>7, <1>10, <1>12, <2>1, AskedTypes DEF TypeOK
<1>14. KalmanHasPose' /\ NonFiniteStartsOver'
  BY <1>1, <1>2, AskedTypes DEF KalmanHasPose, NonFiniteStartsOver
<1>15. BlindIsBounded' /\ CountsAgree'
  BY <1>8, <1>13, TargetAssumption DEF BlindIsBounded, CountsAgree, TypeOK
<1> QED BY <1>10, <1>11, <1>13, <1>14, <1>15 DEF IInv

LEMMA AwaitBlobsKeepsIInv ==
  ASSUME IInv, NEW img \in Images, AwaitBlobs(img)
  PROVE  IInv'
<1> DEFINE state == dispatchState(img)
<1>1. /\ state = "RANSACKalmanWhenBlobDetected" /\ trackingState = state
      /\ img.from.finite /\ img.leds = 0 /\ m_hasPoseEstimate
      /\ withoutBeacons(img) <= MAX_FRAMES_WITHOUT_BEACONS
  BY DispatchFacts DEF AwaitBlobs, isStateSCAAT, Awaiting
<1>2. /\ Asked(img) /\ algorithm' = "none" /\ trackingState' = trackingState
      /\ UNCHANGED <<m_hasPoseEstimate, counters>>
  BY <1>1 DEF AwaitBlobs
<1>3. m_framesWithoutValidBeacons' = m_framesWithoutValidBeacons + 1
  BY <1>1, <1>2, BeaconCount DEF Asked, IInv
<1>4. TypeOK'
  BY <1>2, AskedTypes DEF counters, IInv, TypeOK
<1>5. KalmanHasPose' /\ AwaitedWhenBlind' /\ ProbationInLimit' /\ BlindIsBounded'
  BY <1>2 DEF counters, IInv, KalmanHasPose, isStateSCAAT, AwaitedWhenBlind, ProbationInLimit,
              BlindIsBounded
<1>6. NonFiniteStartsOver'
  BY <1>1, <1>2, AskedTypes DEF NonFiniteStartsOver
<1>7. CountsAgree'
  BY <1>1, <1>2, <1>3 DEF counters, IInv, TypeOK, CountsAgree, isStateSCAAT
<1> QED BY <1>4, <1>5, <1>6, <1>7 DEF IInv

LEMMA InvNext == IInv /\ [Next]_vars => IInv'
<1> SUFFICES ASSUME IInv, [Next]_vars PROVE IInv'
  OBVIOUS
<1> USE DEF ImageSeen
<1>1. ASSUME NEW img \in Images, Ransac(img) PROVE IInv'
  BY <1>1, RansacKeepsIInv
<1>2. ASSUME NEW img \in Images, Kalman(img) PROVE IInv'
  BY <1>2, KalmanKeepsIInv
<1>3. ASSUME NEW img \in Images, AwaitBlobs(img) PROVE IInv'
  BY <1>3, AwaitBlobsKeepsIInv
<1>4. CASE setPermitKalman
  BY <1>4 DEF setPermitKalman, counters, IInv, TypeOK, KalmanHasPose, isStateSCAAT,
              NonFiniteStartsOver, AwaitedWhenBlind, BlindIsBounded, CountsAgree,
              ProbationInLimit
<1>5. CASE UNCHANGED vars
  BY <1>5 DEF vars, IInv, TypeOK, KalmanHasPose, isStateSCAAT, NonFiniteStartsOver,
              AwaitedWhenBlind, BlindIsBounded, CountsAgree, ProbationInLimit
<1> QED BY <1>1, <1>2, <1>3, <1>4, <1>5 DEF Next

LEMMA Invariance == Spec => []IInv
BY InvInit, InvNext, PTL DEF Spec

\* Every variable of a target keeps its type; probation is never more than one
\* image over its limit.
THEOREM TypeCorrect == Spec => []TypeOK
<1>1. IInv => TypeOK
  BY DEF IInv
<1> QED BY <1>1, Invariance, PTL

\* A target in a mode of the Kalman filter has a pose estimate, so the check for a
\* lost pose in updatePoseEstimateFromLeds never fires.
THEOREM PoseInKalmanModes == Spec => []KalmanHasPose
<1>1. IInv => KalmanHasPose
  BY DEF IInv
<1> QED BY <1>1, Invariance, PTL

\* An image is never estimated from a state that is not finite.
THEOREM NonFiniteIsReset == Spec => []NonFiniteStartsOver
<1>1. IInv => NonFiniteStartsOver
  BY DEF IInv
<1> QED BY <1>1, Invariance, PTL

\* The Kalman filter never runs for more images without a beacon than the health
\* evaluator's limit.
THEOREM BlindnessBounded == Spec => []BlindIsBounded
<1>1. IInv => BlindIsBounded
  BY DEF IInv
<1> QED BY <1>1, Invariance, PTL

\* A target that awaits its beacons has not been given an image with one.
THEOREM AwaitsWhenBlind == Spec => []AwaitedWhenBlind
<1>1. IInv => AwaitedWhenBlind
  BY DEF IInv
<1> QED BY <1>1, Invariance, PTL

\* A good image finds the target in good health, and ends its waiting.
LEMMA GoodDispatch ==
  ASSUME IInv, NEW img \in Images, Good(img)
  PROVE  /\ dispatchState(img) \in {"RANSAC", "RANSACKalman", "EnteringKalman", "Kalman"}
         /\ trackingState \in {"EnteringKalman", "Kalman"} => dispatchState(img) = trackingState
<1>1. afterLoss = trackingState /\ trackingState \in TrackingStates
  BY DEF afterLoss, IInv, KalmanHasPose, TypeOK
<1>2. img.leds \in Nat /\ img.leds > 1 /\ img.from.finite
  BY ImageFacts DEF Good
<1>3. withoutBeacons(img) = 0
  BY <1>2 DEF withoutBeacons
<1>4. healthEval(afterLoss, img) = "OK"
  BY <1>2, <1>3, TargetAssumption DEF healthEval, finite, boundsExceeded
<1>5. afterHealth(img) = trackingState
  BY <1>1, <1>4 DEF afterHealth
<1>6. img.leds > 0
  BY <1>2
<1> QED BY <1>1, <1>5, <1>6 DEF dispatchState, TrackingStates

\* The filter that is given a good image is healthy after it.
LEMMA GoodIsHealthy ==
  ASSUME IInv, NEW img \in Images, Good(img), kalmanEstimator(img)
  PROVE  kalmanHealth = "Functioning"
<1>1. /\ img.leds \in Nat /\ img.leds > 1
      /\ img.away = 0 /\ img.skipped = 0 /\ img.far = 0 /\ img.poor = 0
  <2>1. img.leds > 1 /\ img.away + img.skipped + img.far + img.poor <= 0
    BY ImageFacts DEF Good
  <2> QED BY <2>1, ImageFacts, SumZero
<1>2. /\ numBad(img) = 0 /\ numGood(img) = img.leds
      /\ possiblyMisidentified(img) = 0 /\ ledsUsed(img) = img.leds
  BY <1>1 DEF numBad, numGood, possiblyMisidentified, ledsUsed, skipAll
<1>3. probation(img) = 0
  BY <1>1, <1>2 DEF probation
<1>4. ~handlePossiblyMisidentifiedLeds(img)
  BY <1>1, <1>2 DEF handlePossiblyMisidentifiedLeds
<1>5. withoutIdentifiedBlobs(img) = 0
  BY <1>1 DEF withoutIdentifiedBlobs
<1>6. /\ m_framesInProbation' = 0 /\ m_misIDConsideredOurFault' = FALSE
      /\ m_framesWithoutIdentifiedBlobs' = 0
  BY <1>3, <1>4, <1>5 DEF kalmanEstimator
<1> QED BY <1>6, TargetAssumption DEF kalmanHealth

\* Two good images in a row bring a target back to the Kalman filter from any mode
\* it can be in, and as long as they go on nothing resets it.
THEOREM SeenWellRecovers == Spec => RecoversInTwo
<1> DEFINE Recovers ==
      from'.good /\ permitKalman' = permitKalman =>
        /\ permitKalman => trackingState' \in {"EnteringKalman", "Kalman"}
        /\ trackingState \in {"EnteringKalman", "Kalman"} => trackingState' = "Kalman"
<1>1. ASSUME IInv, NEW img \in Images, ImageSeen(img), from'.good PROVE Recovers
  <2>1. from' = [finite |-> img.from.finite, good |-> Good(img)] /\ permitKalman' = permitKalman
    BY <1>1 DEF ImageSeen, Ransac, Kalman, AwaitBlobs, Asked
  <2>2. Good(img)
    BY <1>1, <2>1
  <2>3. CASE Ransac(img)
    <3>1. trackingState \notin {"EnteringKalman", "Kalman"}
      BY <1>1, <2>2, <2>3, GoodDispatch DEF Ransac
    <3>2. permitKalman => trackingState' = "EnteringKalman"
      BY <2>2, <2>3 DEF Ransac, kalmanPermitted, Good
    <3> QED BY <3>1, <3>2
  <2>4. CASE Kalman(img)
    <3>1. kalmanHealth = "Functioning"
      BY <1>1, <2>2, <2>4, GoodIsHealthy DEF Kalman
    <3>2. dispatchState(img) \in {"EnteringKalman", "Kalman"}
      BY <1>1, <2>2, <2>4, GoodDispatch DEF Kalman
    <3> QED BY <2>4, <3>1, <3>2 DEF Kalman, unhealthy
  <2>5. CASE AwaitBlobs(img)
    BY <1>1, <2>2, <2>5, GoodDispatch DEF AwaitBlobs
  <2> QED BY <1>1, <2>3, <2>4, <2>5 DEF ImageSeen
<1>2. setPermitKalman /\ IInv => permitKalman' # permitKalman
  BY DEF setPermitKalman, IInv, TypeOK
<1>3. IInv /\ [Next]_vars => [Recovers]_vars
  BY <1>1, <1>2 DEF Next
<1> QED BY <1>3, Invariance, PTL DEF Spec, RecoversInTwo

-----------------------------------------------------------------------------
(***************************************************************************)
(* The state                                                               *)
(***************************************************************************)

Whole(state) == state.incremental => state.refused

FilterInv ==
  /\ FilterTypeOK
  /\ Whole(m_state)
  /\ \A i \in DOMAIN stateHistory : Whole(stateHistory[i])

-----------------------------------------------------------------------------
\* Operations of the filter: all return states, and none leaves rotation behind
\* unless it refuses the correction that should have moved it.
LEMMA RefusedIsWhole ==
  ASSUME NEW state \in States
  PROVE  Refused(state) \in States /\ Whole(Refused(state))
BY DEF Refused, States, Whole

LEMMA ExternalizedIsWhole ==
  ASSUME NEW state \in States
  PROVE  externalizeRotation(state) \in States /\ Whole(externalizeRotation(state))
BY DEF externalizeRotation, States, Whole

LEMMA CorrectionsAreWhole ==
  ASSUME NEW state \in States, NEW result \in Corrections(state)
  PROVE  result \in States /\ Whole(result)
<1>1. CASE result = Refused(state)
  BY <1>1, RefusedIsWhole
<1>2. CASE result \in finishCorrection(state)
  <2>1. PICK t \in BOOLEAN : result = externalizeRotation([state EXCEPT !.turning = t])
    BY <1>2 DEF finishCorrection
  <2>2. [state EXCEPT !.turning = t] \in States
    BY DEF States
  <2> QED BY <2>1, <2>2, ExternalizedIsWhole
<1> QED BY <1>1, <1>2 DEF Corrections

LEMMA PredictType ==
  ASSUME NEW state \in States, NEW later \in BOOLEAN
  PROVE  predict(state, later) \in States
BY DEF predict, States

LEMMA AtRestIsWhole == AtRest \in States /\ Whole(AtRest)
BY DEF AtRest, States, Whole

\* Every estimator gives back a whole state if it was given one, whichever the
\* mode and the image.
LEMMA EstimatesAreWhole ==
  ASSUME NEW state \in States, Whole(state), NEW img \in Images, NEW later \in BOOLEAN,
         NEW result \in estimates(state, img, later)
  PROVE  result \in States /\ Whole(result)
<1>1. ASSUME result \in ransacEstimator(state, img)
      PROVE  result \in States /\ Whole(result)
  BY <1>1, AtRestIsWhole DEF ransacEstimator
<1>2. ASSUME result \in ransacKalmanEstimator(state, img, later)
      PROVE  result \in States /\ Whole(result)
  BY <1>2, PredictType, CorrectionsAreWhole DEF ransacKalmanEstimator
<1>3. ASSUME result \in scaatEstimator(state, img, later)
      PROVE  result \in States /\ Whole(result)
  <2> DEFINE predicted ==
        IF later THEN externalizeRotation(predict(state, later)) ELSE state
  <2>1. predicted \in States /\ Whole(predicted)
    BY PredictType, ExternalizedIsWhole
  <2>2. result = predicted \/ result \in Corrections(predicted)
    BY <1>3 DEF scaatEstimator
  <2> QED BY <2>1, <2>2, CorrectionsAreWhole
<1> QED BY <1>1, <1>2, <1>3 DEF estimates

LEMMA ImuIsWhole ==
  ASSUME m_state \in States, NEW kind, NEW later \in BOOLEAN,
         NEW result \in applyIMUToState(kind, later)
  PROVE  result \in States /\ Whole(result)
BY PredictType, ExternalizedIsWhole, CorrectionsAreWhole DEF applyIMUToState

LEMMA ResetIsWhole ==
  ASSUME m_state \in States, Whole(m_state), NEW img
  PROVE  afterReset(img) \in States /\ Whole(afterReset(img))
BY DEF afterReset, States, Whole

-----------------------------------------------------------------------------
LEMMA FilterInvInit == FilterInit => FilterInv
<1> SUFFICES ASSUME FilterInit PROVE FilterInv
  OBVIOUS
<1>1. stateHistory = <<>> /\ m_state = AtRest /\ everHadPose = FALSE
  BY DEF FilterInit
<1>2. stateHistory \in Seq(States) /\ DOMAIN stateHistory = {}
  BY <1>1
<1> QED BY <1>1, <1>2, AtRestIsWhole DEF FilterInv, FilterTypeOK

\* An image: a pose leaves the estimate alone in the history, and the lack of one
\* what may still be started from.
LEMMA ImageKeepsInv ==
  ASSUME FilterInv, NEW img \in Images, NEW later \in BOOLEAN, NEW i \in 1..MaxSnapshots,
         UpdatePoseEstimates(img, i, later)
  PROVE  FilterInv'
<1>1. everHadPose' \in BOOLEAN
  BY DEF UpdatePoseEstimates, FilterInv, FilterTypeOK
<1>2. CASE m_hasPoseEstimate'
  <2>1. startingState(i) \in States /\ Whole(startingState(i))
    <3>1. CASE stateHistory = <<>>
      BY <3>1, AtRestIsWhole DEF startingState
    <3>2. CASE stateHistory # <<>>
      <4>1. stateHistory \in Seq(States)
        BY DEF FilterInv, FilterTypeOK
      <4>2. i \in DOMAIN stateHistory
        BY <3>2, <4>1 DEF UpdatePoseEstimates
      <4>3. startingState(i) = stateHistory[i]
        BY <3>2 DEF startingState
      <4> QED BY <4>1, <4>2, <4>3 DEF FilterInv
    <3> QED BY <3>1, <3>2
  <2>2. m_state' \in estimates(startingState(i), img, later) /\ stateHistory' = <<m_state'>>
    BY <1>2 DEF UpdatePoseEstimates
  <2>3. m_state' \in States /\ Whole(m_state')
    BY <2>1, <2>2, EstimatesAreWhole
  <2>4. stateHistory' \in Seq(States) /\ DOMAIN stateHistory' = {1}
    BY <2>2, <2>3
  <2>5. \A k \in DOMAIN stateHistory' : stateHistory'[k] = m_state'
    BY <2>2, <2>4
  <2> QED BY <1>1, <2>3, <2>4, <2>5 DEF FilterInv, FilterTypeOK, Whole
<1>3. CASE ~m_hasPoseEstimate'
  <2>1. m_state' = afterReset(img) /\ stateHistory' = SubSeq(stateHistory, i, Len(stateHistory))
    BY <1>3 DEF UpdatePoseEstimates
  <2>2. m_state' \in States /\ Whole(m_state')
    BY <2>1, ResetIsWhole DEF FilterInv, FilterTypeOK
  <2>3. stateHistory \in Seq(States) /\ i \in Nat \ {0}
    BY DEF FilterInv, FilterTypeOK
  <2>4. stateHistory' \in Seq(States)
    BY <2>1, <2>3
  <2>5. \A k \in DOMAIN stateHistory' :
           i + k - 1 \in DOMAIN stateHistory /\ stateHistory'[k] = stateHistory[i + k - 1]
    BY <2>1, <2>3
  <2>6. \A k \in DOMAIN stateHistory' : Whole(stateHistory'[k])
    BY <2>5 DEF FilterInv
  <2> QED BY <1>1, <2>2, <2>4, <2>6 DEF FilterInv, FilterTypeOK, Whole
<1> QED BY <1>2, <1>3

LEMMA ImuKeepsInv ==
  ASSUME FilterInv, NEW kind, NEW later \in BOOLEAN, m_hasPoseEstimate \in BOOLEAN,
         ImuMessage(kind, later)
  PROVE  FilterInv'
<1>1. everHadPose' \in BOOLEAN
  BY DEF ImuMessage, FilterInv, FilterTypeOK
<1>2. CASE everHadPose'
  <2>1. m_state' \in applyIMUToState(kind, later) /\ stateHistory' = Append(stateHistory, m_state')
    BY <1>2 DEF ImuMessage
  <2>2. m_state' \in States /\ Whole(m_state')
    BY <2>1, ImuIsWhole DEF FilterInv, FilterTypeOK
  <2>3. stateHistory \in Seq(States)
    BY DEF FilterInv, FilterTypeOK
  <2>4. stateHistory' \in Seq(States)
    BY <2>1, <2>2, <2>3
  <2>5. ASSUME NEW k \in DOMAIN stateHistory' PROVE Whole(stateHistory'[k])
    <3>1. k \in 1..(Len(stateHistory) + 1)
      BY <2>1, <2>3
    <3>2. CASE k = Len(stateHistory) + 1
      BY <2>1, <2>2, <2>3, <3>2
    <3>3. CASE k \in 1..Len(stateHistory)
      <4>1. stateHistory'[k] = stateHistory[k] /\ k \in DOMAIN stateHistory
        BY <2>1, <2>3, <3>3
      <4> QED BY <4>1 DEF FilterInv
    <3> QED BY <2>3, <3>1, <3>2, <3>3
  <2> QED BY <1>1, <2>2, <2>4, <2>5 DEF FilterInv, FilterTypeOK, Whole
<1>3. CASE ~everHadPose'
  BY <1>1, <1>3 DEF ImuMessage, FilterInv, FilterTypeOK, Whole
<1> QED BY <1>2, <1>3

\* The modes see nothing of the state: every step is one of TargetTracking or
\* leaves it as it is.
LEMMA StepOfModes == FilterNext => [Next]_vars
BY DEF FilterNext, UpdatePoseEstimates, ImuMessage, Next

LEMMA FilterInvNext ==
  FilterInv /\ IInv /\ [FilterNext]_<<vars, bodyVars>> => FilterInv'
<1> SUFFICES ASSUME FilterInv, IInv, [FilterNext]_<<vars, bodyVars>> PROVE FilterInv'
  OBVIOUS
<1>1. ASSUME NEW img \in Images, NEW later \in BOOLEAN, NEW i \in 1..MaxSnapshots,
             UpdatePoseEstimates(img, i, later)
      PROVE  FilterInv'
  BY <1>1, ImageKeepsInv
<1>2. ASSUME NEW kind, NEW later \in BOOLEAN, ImuMessage(kind, later)
      PROVE  FilterInv'
  BY <1>2, ImuKeepsInv DEF IInv, TypeOK
<1>3. CASE UNCHANGED bodyVars
  BY <1>3 DEF bodyVars, FilterInv, FilterTypeOK, Whole
<1> QED BY <1>1, <1>2, <1>3 DEF FilterNext

\* The modes with the state of the body are those of TargetTracking, which
\* FilterNext conjoins: what is proved of the modes alone carries over.
LEMMA ModesImplemented == FilterSpec => Init /\ [][Next]_vars
<1>1. [FilterNext]_<<vars, bodyVars>> => [Next]_vars
  BY StepOfModes DEF vars
<1>2. FilterInit => Init
  BY DEF FilterInit
<1> QED BY <1>1, <1>2, PTL DEF FilterSpec

\* What is proved of the modes alone holds of them with the state.
LEMMA ModesInvariant == FilterSpec => []IInv
BY ModesImplemented, InvInit, InvNext, PTL

\* A target with a body is in a Kalman mode only with a pose.
THEOREM PoseWithState == FilterSpec => []KalmanHasPose
<1>1. IInv => KalmanHasPose
  BY DEF IInv
<1> QED BY <1>1, ModesInvariant, PTL

\* For all limits and any number of snapshots: the quaternion of a state, the only
\* rotation a report has, lacks none unless a correction was refused after the
\* last prediction.
THEOREM RotationIsWhole == FilterSpec => []WholeUnlessRefused
<1>1. FilterInv => WholeUnlessRefused
  BY DEF FilterInv, WholeUnlessRefused, Whole
<1> QED BY <1>1, FilterInvInit, FilterInvNext, ModesInvariant, PTL DEF FilterSpec
=============================================================================
