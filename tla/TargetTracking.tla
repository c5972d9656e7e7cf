---------------------------- MODULE TargetTracking ----------------------------
(***************************************************************************)
(* TrackedBodyTarget.cpp and PoseEstimator_SCAATKalman.cpp: how a target   *)
(* chooses, image by image, what estimates its pose: RANSAC, which starts  *)
(* from nothing, RANSAC filtered into the state, or the Kalman filter,     *)
(* which needs a good state to start from and judges its own health by the *)
(* beacons that fit its predictions.                                       *)
(*                                                                         *)
(* An image is what it shows to this logic: how many LEDs are identified,  *)
(* how many of them fit, and whether RANSAC would find a pose.             *)
(***************************************************************************)
EXTENDS Integers

CONSTANTS
  MAX_FRAMES_WITHOUT_BEACONS, MAX_PROBATION_FRAMES, MAX_FRAMES_WITHOUT_ID_BLOBS,
  MISIDENTIFIED_BEACON_CUTOFF,
  RansacMinimum,  \* m_permittedOutliers + m_requiredInliers
  LedCounts       \* numbers of LEDs identified in an image

ASSUME TargetAssumption ==
  /\ MAX_FRAMES_WITHOUT_BEACONS \in Nat /\ MAX_FRAMES_WITHOUT_ID_BLOBS \in Nat
  /\ MISIDENTIFIED_BEACON_CUTOFF \in Nat
  /\ MAX_PROBATION_FRAMES \in Nat \ {0}
  /\ RansacMinimum \in Nat
  /\ LedCounts \subseteq Nat

VARIABLES
  trackingState,
  m_hasPoseEstimate,
  permitKalman, softResets,        \* configured; disableKalman() overrides the first
  m_framesWithoutValidBeacons,     \* of TargetHealthEvaluator
  m_framesWithoutIdentifiedBlobs,  \* these four of SCAATKalmanPoseEstimator
  m_framesInProbation,
  m_misIDConsideredOurFault,
  m_lastUsableBeaconsSeen,
  algorithm,   \* history: what the last image was given to, "none" if to nothing
  from         \* history: was the state before the last image finite, was the image Good?

vars == <<trackingState, m_hasPoseEstimate, permitKalman, softResets,
          m_framesWithoutValidBeacons, m_framesWithoutIdentifiedBlobs, m_framesInProbation,
          m_misIDConsideredOurFault, m_lastUsableBeaconsSeen, algorithm, from>>

TrackingStates == {"RANSAC", "RANSACKalman", "EnteringKalman", "Kalman",
                   "RANSACWhenBlobDetected", "RANSACKalmanWhenBlobDetected"}

isStateSCAAT(state) == state \notin {"RANSAC", "RANSACKalman"}

SIGNAL_HAVE_NOT_SEEN_BEACONS_YET == -1

\* Of the LEDs identified some face away from the camera, some are skipped as
\* too oblique or too bright, some are far from where they should be or in a poor
\* place; the others are good.  "exceeded": is the variance of the state's
\* position over its limit (asked without LEDs only)?  "ransac": would RANSAC
\* find a pose?
Images ==
  {img \in [leds : LedCounts, away : LedCounts, skipped : LedCounts, far : LedCounts,
            poor : LedCounts, exceeded : BOOLEAN, ransac : BOOLEAN,
            from : [finite : BOOLEAN, valid : BOOLEAN]] :
     /\ img.away + img.skipped + img.far + img.poor <= img.leds
     /\ img.ransac => img.leds >= RansacMinimum
     /\ img.exceeded => img.leds = 0}

\* The image shows enough beacons, all in place, for any estimator.
Good(img) ==
  /\ img.ransac /\ img.leds > 1
  /\ img.away + img.skipped + img.far + img.poor = 0
  /\ img.from.finite /\ img.from.valid

TypeOK ==
  /\ trackingState \in TrackingStates
  /\ m_hasPoseEstimate \in BOOLEAN /\ permitKalman \in BOOLEAN /\ softResets \in BOOLEAN
  /\ m_framesWithoutValidBeacons \in 0..MAX_FRAMES_WITHOUT_BEACONS + 1
  /\ m_framesWithoutIdentifiedBlobs \in Nat
  /\ m_framesInProbation \in 0..MAX_PROBATION_FRAMES + 1
  /\ m_misIDConsideredOurFault \in BOOLEAN
  /\ m_lastUsableBeaconsSeen \in Nat \cup {SIGNAL_HAVE_NOT_SEEN_BEACONS_YET}
  /\ algorithm \in {"none", "RANSAC", "RANSACKalman", "Kalman"}
  /\ from \in [finite : BOOLEAN, good : BOOLEAN]

Init ==
  /\ trackingState = "RANSAC"
  /\ m_hasPoseEstimate = FALSE
  /\ permitKalman \in BOOLEAN /\ softResets \in BOOLEAN
  /\ m_framesWithoutValidBeacons = 0
  /\ m_framesWithoutIdentifiedBlobs = 0 /\ m_framesInProbation = 0
  /\ m_misIDConsideredOurFault = FALSE
  /\ m_lastUsableBeaconsSeen = SIGNAL_HAVE_NOT_SEEN_BEACONS_YET
  /\ algorithm = "none"
  /\ from = [finite |-> TRUE, good |-> FALSE]

-----------------------------------------------------------------------------
(***************************************************************************)
(* TargetHealthEvaluator                                                   *)
(***************************************************************************)
lostSightForgotten(img) ==   \* mutant
  IF isStateSCAAT(trackingState) /\ img.leds = 0 THEN 1 ELSE 0
\* Counted no further than it is compared with.
withoutBeacons(img) ==
  IF ~img.from.finite THEN m_framesWithoutValidBeacons
  ELSE IF img.leds > 0 THEN 0
  ELSE IF m_framesWithoutValidBeacons > MAX_FRAMES_WITHOUT_BEACONS
    THEN m_framesWithoutValidBeacons ELSE m_framesWithoutValidBeacons + 1

finite(img) == img.from.finite

boundsExceeded(state, img) ==
  isStateSCAAT(state) /\ withoutBeacons(img) # 0 /\ img.exceeded

healthEval(state, img) ==
  IF ~finite(img) THEN "HardResetNonFiniteState"
  ELSE IF boundsExceeded(state, img) THEN "StopTrackingErrorBoundsExceeded"
  ELSE IF withoutBeacons(img) > MAX_FRAMES_WITHOUT_BEACONS THEN "StopTrackingLostSight"
  ELSE "OK"

\* Where the target stands when it dispatches the image: after the loss of the
\* pose, its health and the return of beacons have been looked at.
afterLoss == IF ~m_hasPoseEstimate /\ isStateSCAAT(trackingState)
               THEN "RANSAC" ELSE trackingState

afterHealth(img) ==
  LET health == healthEval(afterLoss, img) IN
  CASE health = "OK" -> afterLoss
    [] health = "StopTrackingErrorBoundsExceeded" /\ softResets -> "RANSACKalman"
    [] OTHER -> "RANSAC"

stayBlind(img) == afterHealth(img)   \* mutant
softStaysBlind(img) ==   \* mutant
  IF afterHealth(img) = "RANSACWhenBlobDetected" /\ img.leds > 0
    THEN "RANSAC" ELSE afterHealth(img)
dispatchState(img) ==
  LET state == afterHealth(img) IN
  CASE state = "RANSACWhenBlobDetected" /\ img.leds > 0 -> "RANSAC"
    [] state = "RANSACKalmanWhenBlobDetected" /\ img.leds > 0 -> "RANSACKalman"
    [] OTHER -> state

-----------------------------------------------------------------------------
(***************************************************************************)
(* SCAATKalmanPoseEstimator                                                *)
(***************************************************************************)
\* Down to a single beacon after having had more: it is not used.
skipAll(img) == m_lastUsableBeaconsSeen > 0 /\ img.leds = 1

numBad(img)  == IF skipAll(img) THEN 0 ELSE img.away + img.far + img.poor
numGood(img) == IF skipAll(img) THEN 0
                ELSE img.leds - img.away - img.skipped - img.far - img.poor
possiblyMisidentified(img) == IF skipAll(img) THEN 0 ELSE img.away + img.far
ledsUsed(img) == IF skipAll(img) THEN 0 ELSE numGood(img) + img.poor

handlePossiblyMisidentifiedLeds(img) ==
  /\ possiblyMisidentified(img) > ledsUsed(img)
  /\ possiblyMisidentified(img) > MISIDENTIFIED_BEACON_CUTOFF

probation(img) ==
  IF m_framesInProbation = 0
    THEN IF numBad(img) * 3 > numGood(img) * 2 THEN 1 ELSE 0
    ELSE IF numBad(img) * 2 > numGood(img) THEN m_framesInProbation + 1 ELSE 0

withoutIdentifiedBlobs(img) ==
  IF img.leds = 0 THEN m_framesWithoutIdentifiedBlobs + 1 ELSE 0

\* getTrackingHealth, after the image.
kalmanHealth ==
  CASE m_misIDConsideredOurFault' \/ m_framesInProbation' > MAX_PROBATION_FRAMES ->
         "NeedsHardResetNow"
    [] /\ ~m_misIDConsideredOurFault' /\ m_framesInProbation' <= MAX_PROBATION_FRAMES
       /\ m_framesWithoutIdentifiedBlobs' > MAX_FRAMES_WITHOUT_ID_BLOBS ->
         "SoftResetWhenBeaconsSeen"
    [] OTHER -> "Functioning"

kalmanEstimator(img) ==
  /\ m_framesWithoutIdentifiedBlobs' = withoutIdentifiedBlobs(img)
  /\ m_framesInProbation' = probation(img)
  /\ m_misIDConsideredOurFault' = handlePossiblyMisidentifiedLeds(img)
  /\ m_lastUsableBeaconsSeen' =
       IF skipAll(img) THEN 1 ELSE img.leds - img.away - img.skipped

resetCounters ==
  /\ m_framesWithoutIdentifiedBlobs' = 0 /\ m_framesInProbation' = 0
  /\ m_misIDConsideredOurFault' = FALSE
  /\ m_lastUsableBeaconsSeen' = SIGNAL_HAVE_NOT_SEEN_BEACONS_YET

counters == <<m_framesWithoutIdentifiedBlobs, m_framesInProbation,
              m_misIDConsideredOurFault, m_lastUsableBeaconsSeen>>

-----------------------------------------------------------------------------
(***************************************************************************)
(* updatePoseEstimateFromLeds: one action for each case of the dispatch    *)
(***************************************************************************)
Asked(img) ==
  /\ m_framesWithoutValidBeacons' = withoutBeacons(img)
  /\ from' = [finite |-> img.from.finite, good |-> Good(img)]
  /\ UNCHANGED <<permitKalman, softResets>>

withoutPose(img) == permitKalman /\ img.from.valid   \* mutant
kalmanPermitted(img) == img.ransac /\ permitKalman /\ img.from.valid

\* RANSAC, filtered into the state or not; a pose is the start of the Kalman filter.
Ransac(img) ==
  LET state == dispatchState(img) IN
  /\ state \in {"RANSAC", "RANSACKalman"}
  /\ Asked(img)
  /\ algorithm' = state
  /\ m_hasPoseEstimate' = img.ransac
  /\ IF kalmanPermitted(img)
       THEN trackingState' = "EnteringKalman" /\ resetCounters
       ELSE trackingState' = state /\ UNCHANGED counters

\* The Kalman filter, whose health is not looked at on its first image, nor
\* while beacons are awaited.
unhealthy == [NeedsHardResetNow |-> "RANSAC",
              SoftResetWhenBeaconsSeen |-> IF softResets
                THEN "RANSACKalmanWhenBlobDetected" ELSE "RANSACWhenBlobDetected",
              Functioning |-> "Kalman"]

Kalman(img) ==
  LET state == dispatchState(img) IN
  /\ state \in {"EnteringKalman", "Kalman", "RANSACWhenBlobDetected"}
  /\ Asked(img)
  /\ algorithm' = "Kalman"
  /\ m_hasPoseEstimate' = TRUE
  /\ kalmanEstimator(img)
  /\ trackingState' = CASE state = "EnteringKalman" -> "Kalman"
                        [] state = "Kalman" -> unhealthy[kalmanHealth]
                        [] OTHER -> state

\* The dispatch has no case for this state.
AwaitBlobs(img) ==
  LET state == dispatchState(img) IN
  /\ state = "RANSACKalmanWhenBlobDetected"
  /\ Asked(img)
  /\ algorithm' = "none"
  /\ trackingState' = state
  /\ UNCHANGED <<m_hasPoseEstimate, counters>>

setPermitKalman ==
  /\ permitKalman' = ~permitKalman
  /\ UNCHANGED <<trackingState, m_hasPoseEstimate, softResets,
                 m_framesWithoutValidBeacons, counters, algorithm, from>>

ImageSeen(img) == Ransac(img) \/ Kalman(img) \/ AwaitBlobs(img)

Next ==
  \/ \E img \in Images : ImageSeen(img)
  \/ setPermitKalman

\* The temporal property is about a target that stays in view of a camera that
\* goes on delivering images.
Spec == Init /\ [][Next]_vars /\ WF_vars(\E img \in Images : Good(img) /\ ImageSeen(img))

-----------------------------------------------------------------------------
(***************************************************************************)
(* Properties                                                              *)
(***************************************************************************)
\* A state of the Kalman filter is one with a pose: "lost tracking somehow" at the
\* head of updatePoseEstimateFromLeds never comes true, along any sequence of
\* resets, because a SCAAT state is entered from a RANSAC pose only and no
\* estimator run in one can lose the pose.
KalmanHasPose == isStateSCAAT(trackingState) => m_hasPoseEstimate

\* A state that is no longer finite is never the start of an estimate: the image
\* goes to RANSAC, which does not read it, whatever mode the target was in.
NonFiniteStartsOver == ~from.finite => algorithm = "RANSAC"

\* The Kalman filter extrapolates without beacons for no more images than the
\* health evaluator, with a count of its own that is not reset with the filter's,
\* allows a target to be unseen.
BlindIsBounded == m_framesWithoutIdentifiedBlobs <= MAX_FRAMES_WITHOUT_BEACONS

\* The target awaits the beacons' return only while the filter has been without
\* them for too long: no image with a beacon is ever given to the filter and the
\* target left waiting.
AwaitedWhenBlind ==
  trackingState \in {"RANSACWhenBlobDetected", "RANSACKalmanWhenBlobDetected"}
    => m_framesWithoutIdentifiedBlobs > MAX_FRAMES_WITHOUT_ID_BLOBS

\* Wherever resets, probation and lost beacons have led, a target that is from
\* then on seen well, with the Kalman filter permitted, comes to be tracked by the
\* Kalman filter and is not reset again.
RecoversWhenSeenWell ==
  <>[](permitKalman /\ from.good) => <>[](trackingState = "Kalman")

\* How soon: one good image brings the target to the Kalman filter from whatever
\* mode, the awaiting ones and those after a reset included, and the next one, and
\* every good one after that, leaves it there.
RecoversInTwo ==
  [][from'.good /\ permitKalman' = permitKalman =>
       /\ permitKalman => trackingState' \in {"EnteringKalman", "Kalman"}
       /\ trackingState \in {"EnteringKalman", "Kalman"} => trackingState' = "Kalman"]_vars
=============================================================================
