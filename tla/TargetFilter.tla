----------------------------- MODULE TargetFilter -----------------------------
(***************************************************************************)
(* The state of a body under the modes of TargetTracking: what RANSAC, the *)
(* Kalman filters and IMU messages do to it, which snapshot an image       *)
(* starts from, and what of the state is kept when the mode is reset       *)
(* (PoseState.h, ApplyIMUToState.cpp, PoseEstimator_*.cpp,                 *)
(* TrackingSystem::updatePoseEstimates).                                   *)
(*                                                                         *)
(* A state keeps its rotation in two places: a quaternion, which is all    *)
(* that is read of it for a report, and a small rotation, which prediction *)
(* adds to and which each correction that is carried out moves into the    *)
(* quaternion.  Of the numbers there remains whether each is zero.         *)
(***************************************************************************)
EXTENDS TargetTracking, Sequences

CONSTANT MaxSnapshots   \* bound: IMU measurements applied between two images

VARIABLES
  m_state,
  stateHistory,   \* snapshots of the state an image may start from, newest last
  everHadPose

bodyVars == <<m_state, stateHistory, everHadPose>>

States == [incremental : BOOLEAN,  \* is there rotation not yet in the quaternion?
           turning : BOOLEAN,      \* is the angular velocity other than zero?
           refused : BOOLEAN]      \* history: was a correction refused since the
                                   \* rotation was last moved to the quaternion?
AtRest == [incremental |-> FALSE, turning |-> FALSE, refused |-> FALSE]

FilterTypeOK ==
  /\ m_state \in States
  /\ stateHistory \in Seq(States)
  /\ everHadPose \in BOOLEAN

FilterInit == Init /\ m_state = AtRest /\ stateHistory = <<>> /\ everHadPose = FALSE

-----------------------------------------------------------------------------
(***************************************************************************)
(* The filter                                                              *)
(***************************************************************************)
predict(state, later) ==
  [state EXCEPT !.incremental = @ \/ (later /\ state.turning)]

externalizeRotation(state) == [state EXCEPT !.incremental = FALSE, !.refused = FALSE]

\* A correction, or the new covariance, that is not finite is refused and leaves
\* the state as predicted; one carried out ends in postCorrect().
Refused(state) == [state EXCEPT !.refused = TRUE]
finishCorrection(state) ==
  {externalizeRotation([state EXCEPT !.turning = t]) : t \in BOOLEAN}

\* What may come of one correction or of several in a row.
Corrections(state) == {Refused(state)} \cup finishCorrection(state)

applyIMUToState(kind, later) ==
  LET predicted == predict(m_state, later) IN
  IF kind = "invalid" THEN {externalizeRotation(predicted)} ELSE Corrections(predicted)

ransacEstimator(state, img) == IF img.ransac THEN {AtRest} ELSE {state}

ransacKalmanEstimator(state, img, later) ==
  IF img.ransac THEN Corrections(predict(state, later)) ELSE {state}

\* "later": is the image later than the snapshot it starts from?
scaatEstimator(state, img, later) ==
  LET predicted == IF later THEN externalizeRotation(predict(state, later)) ELSE state IN
  IF ledsUsed(img) = 0 THEN {predicted} ELSE Corrections(predicted)

-----------------------------------------------------------------------------
(***************************************************************************)
(* Images and IMU messages                                                 *)
(***************************************************************************)
\* The estimator the mode chose, on a copy of a snapshot.
estimates(state, img, later) ==
  CASE algorithm' = "RANSAC" -> ransacEstimator(state, img)
    [] algorithm' = "RANSACKalman" -> ransacKalmanEstimator(state, img, later)
    [] algorithm' = "Kalman" -> scaatEstimator(state, img, later)
    [] OTHER -> {state}

\* enterRANSACMode, before or after the estimate, out of a Kalman mode: the
\* velocities of the body's state are zeroed, not of the copy.
enterRANSACMode(img) ==
  /\ trackingState \in {"Kalman", "RANSACWhenBlobDetected"}
  /\ "RANSAC" \in {dispatchState(img), trackingState'}

afterReset(img) == IF enterRANSACMode(img) THEN [m_state EXCEPT !.turning = FALSE] ELSE m_state

\* getStateAtOrBefore: without a snapshot a state fresh from its constructor.
startingState(i) == IF stateHistory = <<>> THEN AtRest ELSE stateHistory[i]

\* updatePoseEstimates.  A pose replaces the state, and the snapshots after the
\* one started from; images come in order, so none before it is started from
\* again.  The IMU measurements replayed are IMU messages that follow.
UpdatePoseEstimates(img, i, later) ==
  /\ img.from.valid <=> stateHistory # <<>>
  /\ img.from.finite \/ img.from.valid
  /\ i \in 1..Len(stateHistory) \/ i = 1
  /\ ImageSeen(img)
  /\ IF m_hasPoseEstimate'
       THEN /\ m_state' \in estimates(startingState(i), img, later)
            /\ stateHistory' = <<m_state'>>
       ELSE /\ m_state' = afterReset(img)
            /\ stateHistory' = SubSeq(stateHistory, i, Len(stateHistory))
  /\ UNCHANGED everHadPose

ImuMessage(kind, later) ==
  /\ everHadPose' = (everHadPose \/ m_hasPoseEstimate)
  /\ IF everHadPose'
       THEN /\ Len(stateHistory) < MaxSnapshots
            /\ m_state' \in applyIMUToState(kind, later)
            /\ stateHistory' = Append(stateHistory, m_state')
       ELSE UNCHANGED <<m_state, stateHistory>>
  /\ UNCHANGED vars

FilterNext ==
  \/ \E img \in Images, later \in BOOLEAN, i \in 1..MaxSnapshots :
       UpdatePoseEstimates(img, i, later)
  \/ \E kind \in {"orientation", "angularVelocity", "invalid"}, later \in BOOLEAN :
       ImuMessage(kind, later)
  \/ setPermitKalman /\ UNCHANGED bodyVars

FilterSpec == FilterInit /\ [][FilterNext]_<<vars, bodyVars>>

-----------------------------------------------------------------------------
\* Whatever the modes and the order of images and messages, rotation is missing
\* from the quaternion of a state, of which alone reports are made, only if a
\* correction was refused after the last prediction (predict of
\* FlexibleKalmanFilter.h, applyIMUToState, the estimators).
WholeUnlessRefused ==
  \A state \in {m_state} \cup {stateHistory[i] : i \in DOMAIN stateHistory} :
    state.incremental => state.refused

\* A reset out of a Kalman mode leaves the body without velocity: "Zero out
\* velocities if we're coming from Kalman" (TrackedBodyTarget.cpp 720).
StillAfterReset ==
  [][/\ trackingState \in {"Kalman", "RANSACWhenBlobDetected"}
     /\ trackingState' = "RANSAC"
     => ~m_state'.turning]_<<vars, bodyVars>>
=============================================================================
