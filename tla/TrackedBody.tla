----------------------------- MODULE TrackedBody -----------------------------
(***************************************************************************)
(* TrackedBody.cpp and TrackedBodyIMU.cpp: the state of a body, the        *)
(* snapshots taken of it and the IMU measurements kept to be replayed.  An *)
(* image takes long to process, so its pose is for a time in the past: the *)
(* state is rolled back to the last snapshot not newer than the image, the *)
(* image is applied, and so are, again, the IMU measurements newer than it.*)
(*                                                                         *)
(* The state of the body is abstracted to what was applied to it, and in   *)
(* what order: IMU measurements ("ori" for an orientation, "vel" for an    *)
(* angular velocity) and images ("video"), each with its timestamp.        *)
(***************************************************************************)
EXTENDS HistoryContainer

VARIABLES
  m_state,          \* what was applied to the state, in order
  m_stateTime,
  stateHistory,
  imuMeasurements,
  hasPoseEstimate,  \* of the body's target, after its last image
  everHadPose,
  m_last,           \* time of the last orientation the IMU gave
  replay,           \* measurements replaceStateSnapshot has still to replay
  appliedIMU        \* history: the IMU measurements ever applied

bodyVars == <<m_state, m_stateTime, stateHistory, imuMeasurements, hasPoseEstimate,
              everHadPose, m_last, replay, appliedIMU>>

Kinds  == {"ori", "vel", "video"}
Events == [kind : Kinds, time : Nat]
States == Seq(Events)

BodyTypeOK ==
  /\ m_state \in States
  /\ m_stateTime \in Nat
  /\ stateHistory \in Seq([time : Nat, state : States])
  /\ imuMeasurements \in Seq(Events)
  /\ hasPoseEstimate \in BOOLEAN /\ everHadPose \in BOOLEAN
  /\ m_last \in Nat
  /\ replay \in Seq(Events)
  /\ appliedIMU \subseteq Events

\* m_last has no initial value: it holds anything until the first orientation.
BodyInit(times) ==
  /\ m_state = <<>> /\ m_stateTime = 0
  /\ stateHistory = <<>> /\ imuMeasurements = <<>>
  /\ hasPoseEstimate = FALSE /\ everHadPose = FALSE
  /\ m_last \in times
  /\ replay = <<>>
  /\ appliedIMU = {}

-----------------------------------------------------------------------------
(***************************************************************************)
(* IMU measurements                                                        *)
(***************************************************************************)
Snapshot(tv, state) == [time |-> tv, state |-> state]

\* applyIMUMeasurement: only what is not older than the newest snapshot.
worthApplying(tv) == is_valid_to_push_newest(stateHistory, tv)

applyIMUMeasurement(meas) ==
  IF worthApplying(meas.time)
    THEN /\ m_state' = Append(m_state, meas)
         /\ m_stateTime' = meas.time
         /\ stateHistory' = push_newest(stateHistory, Snapshot(meas.time, Append(m_state, meas)))
         /\ appliedIMU' = appliedIMU \cup {meas}
    ELSE UNCHANGED <<m_state, m_stateTime, stateHistory, appliedIMU>>

\* Looked up, and remembered, only when an IMU measurement comes in.
hasEverHadPoseEstimate == everHadPose \/ hasPoseEstimate

outOfOrder(tv) == ~is_valid_to_push_newest(imuMeasurements, tv)

\* incorporateNewMeasurementFromIMU of a measurement that is not out of order.
\* An orientation is remembered by the IMU too.
incorporateNewMeasurementFromIMU(meas) ==
  /\ m_last' = IF meas.kind = "ori" THEN meas.time ELSE m_last
  /\ everHadPose' = hasEverHadPoseEstimate
  /\ IF hasEverHadPoseEstimate
       THEN applyIMUMeasurement(meas)
       ELSE UNCHANGED <<m_state, m_stateTime, stateHistory, appliedIMU>>
  /\ imuMeasurements' = push_newest(imuMeasurements, meas)
  /\ UNCHANGED <<hasPoseEstimate, replay>>

-----------------------------------------------------------------------------
(***************************************************************************)
(* Images                                                                  *)
(***************************************************************************)
\* getStateAtOrBefore: the index of the snapshot to go back to, or end().
base(tv) == closest_not_newer(stateHistory, tv)
validState(tv) == base(tv) # end(stateHistory)
stateTime(tv) == IF validState(tv) THEN stateHistory[base(tv)].time ELSE 0
stateAt(tv) == IF validState(tv) THEN stateHistory[base(tv)].state ELSE <<>>

replayAll(newTime) == imuMeasurements   \* mutant
replayPastFirst(newTime) ==   \* mutant
  SubSeq(imuMeasurements, upper_bound(imuMeasurements, newTime) + 1, Len(imuMeasurements))
toReplay(newTime) == get_range_newer_than(imuMeasurements, newTime)

keepInvalidated(tv) == stateHistory   \* mutant
withoutInvalidated(tv) == pop_after(stateHistory, stateTime(tv))

\* replaceStateSnapshot, up to its loop over the measurements to replay.
replaceStateSnapshot(newTime) ==
  LET newState == Append(stateAt(newTime), [kind |-> "video", time |-> newTime])
      kept == withoutInvalidated(newTime)
  IN
  /\ m_state' = newState
  /\ m_stateTime' = newTime
  /\ stateHistory' = IF is_valid_to_push_newest(kept, newTime)
                       THEN push_newest(kept, Snapshot(newTime, newState)) ELSE kept
  /\ replay' = toReplay(newTime)

\* One turn of that loop.
ReplayOne ==
  /\ applyIMUMeasurement(Head(replay))
  /\ replay' = Tail(replay)
  /\ UNCHANGED <<imuMeasurements, hasPoseEstimate, everHadPose, m_last>>

Min2(a, b) == IF a < b THEN a ELSE b

imuAlone(videoTime) == m_last   \* mutant
getOldestPossibleMeasurementSource(videoTime) == Min2(videoTime, m_last)

neverToEmpty(oldest) == Min2(oldest, newest_timestamp(stateHistory))

pruneHistory(videoTime) ==
  IF stateHistory = <<>>
    THEN UNCHANGED <<stateHistory, imuMeasurements>>
    ELSE LET oldest == neverToEmpty(getOldestPossibleMeasurementSource(videoTime)) IN
         /\ stateHistory' = pop_before(stateHistory, oldest)
         /\ imuMeasurements' = pop_before(imuMeasurements, oldest)
=============================================================================
