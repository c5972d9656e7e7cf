--------------------------- MODULE RoomCalibration ---------------------------
(***************************************************************************)
(* RoomCalibration.cpp: before tracking starts, the pose of the camera in  *)
(* the room and the yaw of the IMU are learnt from REQUIRED_SAMPLES poses  *)
(* in a row of a target held still, compared with the IMU's orientation.   *)
(*                                                                         *)
(* A system has one IMU, on the body of the one target (Assumptions.h,     *)
(* MakeHDKTrackingSystem.h).  The orientation itself is left out: what is  *)
(* kept of a quaternion is which of its two signs it has, since q and -q   *)
(* are one rotation but have different logarithms and must not be averaged *)
(* together.  The texts that instruct the user are left out.               *)
(***************************************************************************)
EXTENDS Integers, Sequences

CONSTANT REQUIRED_SAMPLES

ASSUME CalibrationAssumption == REQUIRED_SAMPLES \in Nat \ {0}

Signs == {1, -1}

VARIABLES
  m_imuBody,            \* have we IMU data?
  m_imuOrientation,     \* the sign of the last orientation
  m_videoTarget,        \* have we video data?
  m_vel,                \* m_linVel and m_angVel: "slow", or one over its cutoff
  m_steadyVideoReports,
  m_rTc_ln_accum,       \* the signs of the logarithms summed up
  m_calibComplete,      \* with the camera's pose and the IMU's yaw set
  videoReports          \* history: the velocities of all poses taken in

calibrationVars == <<m_imuBody, m_imuOrientation, m_videoTarget, m_vel,
                     m_steadyVideoReports, m_rTc_ln_accum, m_calibComplete, videoReports>>

CalibrationTypeOK ==
  /\ m_imuBody \in BOOLEAN /\ m_videoTarget \in BOOLEAN
  /\ m_imuOrientation \in Signs
  /\ m_vel \in {"slow", "fast"}
  /\ m_steadyVideoReports \in Nat
  /\ m_rTc_ln_accum \subseteq Signs
  /\ m_calibComplete \in BOOLEAN
  /\ videoReports \in Seq({"slow", "fast"})

CalibrationInit ==
  /\ m_imuBody = FALSE /\ m_videoTarget = FALSE
  /\ m_imuOrientation = 1
  /\ m_vel = "slow"
  /\ m_steadyVideoReports = 0
  /\ m_rTc_ln_accum = {}
  /\ m_calibComplete = FALSE
  /\ videoReports = <<>>

finished(reports) == reports >= REQUIRED_SAMPLES

\* The sign that keeps an orientation continuous with the one before; the first
\* is taken with w >= 0.
signAsReceived(sign) == sign   \* mutant
continuousSign(sign) == IF m_imuBody THEN m_imuOrientation ELSE 1

postCalibrationUpdate(reports) == m_calibComplete' = finished(reports)

\* calibrationHandleIMUData of TrackingSystem: processIMUData, and the update.
calibrationHandleIMUData(sign) ==
  /\ m_imuOrientation' = continuousSign(sign)
  /\ m_imuBody' = TRUE
  /\ postCalibrationUpdate(m_steadyVideoReports)
  /\ UNCHANGED <<m_videoTarget, m_vel, m_steadyVideoReports, m_rTc_ln_accum, videoReports>>

wantVideoData == m_imuBody

\* The first pose has nothing to be compared with: the velocities stay zero.
velocityNow(moving) ==
  IF ~m_videoTarget THEN m_vel ELSE IF moving THEN "fast" ELSE "slow"

countKept(vel) ==   \* mutant
  IF vel = "slow" THEN m_steadyVideoReports + 1 ELSE m_steadyVideoReports
countSteady(vel) == IF vel = "slow" THEN m_steadyVideoReports + 1 ELSE 0

processVideoData(moving) ==
  LET vel == velocityNow(moving) IN
  /\ m_videoTarget' = TRUE
  /\ m_vel' = vel
  /\ m_steadyVideoReports' = countSteady(vel)
  /\ m_rTc_ln_accum' = IF vel = "slow" THEN m_rTc_ln_accum \cup {m_imuOrientation} ELSE {}
  /\ videoReports' = Append(videoReports, vel)
  /\ UNCHANGED <<m_imuBody, m_imuOrientation>>

\* calibrationVideoPhaseThree of TrackingSystem: pose is "none" when RANSAC
\* found none, or else "still" or "moving" against the pose before.
calibrationVideoPhaseThree(pose) ==
  /\ IF wantVideoData /\ pose # "none"
       THEN processVideoData(pose = "moving")
       ELSE UNCHANGED <<m_imuBody, m_imuOrientation, m_videoTarget, m_vel,
                        m_steadyVideoReports, m_rTc_ln_accum, videoReports>>
  /\ postCalibrationUpdate(m_steadyVideoReports')

-----------------------------------------------------------------------------
\* The camera's pose comes from poses in a row that were all still, the last
\* REQUIRED_SAMPLES seen (RoomCalibration.cpp 62-64).
CalibratedWhileStill ==
  m_calibComplete =>
    /\ Len(videoReports) >= REQUIRED_SAMPLES
    /\ \A i \in 0..REQUIRED_SAMPLES - 1 : videoReports[Len(videoReports) - i] = "slow"

\* What is averaged is on one side of the sphere of quaternions: opposite signs
\* would cancel out to "a bogus result" (RoomCalibration.cpp 292-293).
OneSideAveraged == m_rTc_ln_accum \in {{}, {1}, {-1}}
=============================================================================
