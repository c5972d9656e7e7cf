---------------------------- MODULE TrackingSystem ----------------------------
(***************************************************************************)
(* TrackingSystem.cpp: images and IMU messages, as the tracker thread      *)
(* hands them over, go to the room calibrator first and to the body once   *)
(* the room is calibrated.  Everything here runs on the tracker thread;    *)
(* what varies is when images and messages arrive and what they carry.     *)
(***************************************************************************)
EXTENDS RoomCalibration, TrackedBody

CONSTANTS
  Backdate,      \* cameraMicrosecondsOffset: how long before grab() an image is from
  FrameInterval, \* the least time from an image to the next
  ImuPeriod,     \* the most from a message to the next, of a regular IMU
  RegularImu,    \* is the IMU regular, and none of its messages lost?
  Unset,         \* values m_last may have before it is first set
  MaxTime        \* bound: the clock

ASSUME SystemAssumption ==
  /\ Backdate \in Nat /\ RegularImu \in BOOLEAN /\ MaxTime \in Nat
  /\ FrameInterval \in Nat \ {0} /\ ImuPeriod \in Nat \ {0}
  /\ Unset \in SUBSET Nat

VARIABLES
  now,        \* the clock
  frame,      \* time of the image being processed, 0 when there is none
  lastFrame,  \* time of the last image processed
  sent,       \* the last IMU message sent
  pc          \* "idle", in "replay" or to "prune" in updatePoseEstimates, "threw"

vars == <<calibrationVars, bodyVars, now, frame, lastFrame, sent, pc>>

TypeOK ==
  /\ CalibrationTypeOK /\ BodyTypeOK
  /\ now \in Nat /\ frame \in Nat /\ lastFrame \in Nat
  /\ sent \in Events
  /\ pc \in {"idle", "replay", "prune", "threw"}

Init ==
  /\ CalibrationInit
  /\ BodyInit(Unset)
  /\ now = 1 /\ frame = 0 /\ lastFrame = 0
  /\ sent = [kind |-> "ori", time |-> 0]
  /\ pc = "idle"

Tick ==
  /\ now < MaxTime
  /\ now' = now + 1
  /\ UNCHANGED <<calibrationVars, bodyVars, frame, lastFrame, sent, pc>>

Grab ==
  /\ pc = "idle" /\ frame = 0
  /\ now - Backdate >= lastFrame + FrameInterval
  /\ frame' = now - Backdate
  /\ UNCHANGED <<calibrationVars, bodyVars, now, lastFrame, sent, pc>>

-----------------------------------------------------------------------------
\* updatePoseFromOrientation and updatePoseFromAngularVelocity.  Until the yaw
\* is known an orientation goes to the calibrator and a velocity nowhere; a
\* message older than the last one kept makes the tracker thread end.
HandleImu(meas, sign) ==
  IF ~m_calibComplete
    THEN /\ IF meas.kind = "ori" THEN calibrationHandleIMUData(sign)
                                 ELSE UNCHANGED calibrationVars
         /\ UNCHANGED <<bodyVars, pc>>
    ELSE /\ UNCHANGED calibrationVars
         /\ IF outOfOrder(meas.time)
              THEN /\ pc' = "threw"
                   /\ m_last' = IF meas.kind = "ori" THEN meas.time ELSE m_last
                   /\ UNCHANGED <<m_state, m_stateTime, stateHistory, imuMeasurements,
                                  hasPoseEstimate, everHadPose, replay, appliedIMU>>
              ELSE incorporateNewMeasurementFromIMU(meas) /\ UNCHANGED pc

\* What the IMU sends: of one time an orientation and then a velocity.  A time
\* in the past stands for a message that waited in the queue.
Follows(meas) ==
  /\ \/ meas.time > sent.time
     \/ meas.time = sent.time /\ sent.kind = "ori" /\ meas.kind = "vel"
  /\ RegularImu => sent.time = 0 \/ meas.time <= sent.time + ImuPeriod

ImuMessage(meas, sign) ==
  /\ pc = "idle"
  /\ meas.time <= now
  /\ Follows(meas)
  /\ sent' = meas
  /\ HandleImu(meas, sign)
  /\ UNCHANGED <<now, frame, lastFrame>>

\* A message with a time before that of the last one kept.
ImuOutOfOrder(meas, sign) ==
  /\ pc = "idle"
  /\ m_calibComplete /\ outOfOrder(meas.time)
  /\ HandleImu(meas, sign)
  /\ UNCHANGED <<now, frame, lastFrame, sent>>

-----------------------------------------------------------------------------
\* retrieve() failed: TrackerThread leaves the frame at that.
DropFrame ==
  /\ pc = "idle" /\ frame # 0
  /\ frame' = 0
  /\ UNCHANGED <<calibrationVars, bodyVars, now, lastFrame, sent, pc>>

CalibrationFrame(pose) ==
  /\ pc = "idle" /\ frame # 0
  /\ ~m_calibComplete
  /\ calibrationVideoPhaseThree(pose)
  /\ lastFrame' = frame /\ frame' = 0
  /\ UNCHANGED <<bodyVars, now, sent, pc>>

\* updatePoseEstimates once calibrated: the outcome is "noLeds" if no blob was
\* taken for an LED of the target, which is then not asked for a pose, "noPose"
\* or "pose".
updatePoseEstimates(outcome) ==
  /\ pc = "idle" /\ frame # 0
  /\ m_calibComplete
  /\ lastFrame' = frame /\ frame' = 0
  /\ hasPoseEstimate' = IF outcome = "noLeds" THEN hasPoseEstimate ELSE outcome = "pose"
  /\ IF outcome = "pose"
       THEN replaceStateSnapshot(frame) /\ pc' = "replay"
       ELSE UNCHANGED <<m_state, m_stateTime, stateHistory, replay>> /\ pc' = "prune"
  /\ UNCHANGED <<calibrationVars, imuMeasurements, everHadPose, m_last, appliedIMU,
                 now, sent>>

Replay ==
  /\ pc = "replay"
  /\ IF replay # <<>> THEN ReplayOne /\ pc' = "replay"
                      ELSE UNCHANGED bodyVars /\ pc' = "prune"
  /\ UNCHANGED <<calibrationVars, now, frame, lastFrame, sent>>

Prune ==
  /\ pc = "prune" /\ pc' = "idle"
  /\ pruneHistory(lastFrame)
  /\ UNCHANGED <<calibrationVars, m_state, m_stateTime, hasPoseEstimate, everHadPose,
                 m_last, replay, appliedIMU, now, frame, lastFrame, sent>>

ImuMeasurements == [kind : {"ori", "vel"}, time : 1..MaxTime]

Next ==
  \/ Tick \/ Grab \/ DropFrame \/ Replay \/ Prune
  \/ \E meas \in ImuMeasurements, sign \in Signs :
       ImuMessage(meas, sign) \/ ImuOutOfOrder(meas, sign)
  \/ \E pose \in {"none", "still", "moving"} : CalibrationFrame(pose)
  \/ \E outcome \in {"noLeds", "noPose", "pose"} : updatePoseEstimates(outcome)

Spec == Init /\ [][Next]_vars

-----------------------------------------------------------------------------
\* The newest snapshot is of the present state: a rollback never leaves behind
\* one of a state that is no more (replaceStateSnapshot, applyIMUMeasurement).
NewestIsCurrent ==
  stateHistory # <<>> =>
    stateHistory[Len(stateHistory)] = Snapshot(m_stateTime, m_state)

\* Nothing is applied to the state twice or out of order, however often the
\* state is rolled back and measurements are replayed.
AppliedInOrder ==
  \A i, j \in DOMAIN m_state :
    i < j => m_state[i].time <= m_state[j].time /\ m_state[i] # m_state[j]

\* After an image, the state has every measurement kept that is newer than the
\* last image applied, those that came before the first pose included.
ReplayComplete ==
  pc = "idle" /\ hasEverHadPoseEstimate /\ stateHistory # <<>> =>
    \A i \in DOMAIN imuMeasurements :
      (\A j \in DOMAIN m_state :
          m_state[j].kind = "video" => m_state[j].time < imuMeasurements[i].time)
      => \E j \in DOMAIN m_state : m_state[j] = imuMeasurements[i]

\* A measurement once applied stays applied: rolling back drops none for good.
NoneForgotten ==
  pc = "idle" => appliedIMU \subseteq {m_state[j] : j \in DOMAIN m_state}

\* Once there is a state, there is one to start from for every image to come:
\* pruning keeps what is still needed (TrackedBody.h 205-208).
BaseFound ==
  pc = "idle" /\ frame # 0 /\ stateHistory # <<>> => validState(frame)

\* Rolling back and replaying, in as many steps as there are measurements, puts
\* the image in its place: what is still to be replayed counts already.
Body == INSTANCE DelayedFusion WITH
  estimate  <- m_state \o replay,
  kept      <- {imuMeasurements[i] : i \in DOMAIN imuMeasurements},
  lastImage <- lastFrame

ImplementsFusion == Body!Fusion

-----------------------------------------------------------------------------
(***************************************************************************)
(* The inductive invariants behind them.                                   *)
(***************************************************************************)
CalibrationInv ==
  /\ m_calibComplete <=> finished(m_steadyVideoReports)
  /\ m_steadyVideoReports <= Len(videoReports)
  /\ \A i \in 0..(m_steadyVideoReports - 1) : videoReports[Len(videoReports) - i] = "slow"
  /\ m_rTc_ln_accum \subseteq {m_imuOrientation}
  /\ ~m_imuBody => m_rTc_ln_accum = {}

\* The order in which the IMU sends; what was sent up to the latest message.
Before(a, b) == a.time < b.time \/ (a.time = b.time /\ a.kind = "ori" /\ b.kind = "vel")
Sent(meas, latest) == meas.kind # "video" /\ (meas = latest \/ Before(meas, latest))

Has(events, meas) == \E i \in DOMAIN events : events[i] = meas

MeasurementsInOrder(measurements, latest) ==
  /\ \A i \in DOMAIN measurements : Sent(measurements[i], latest)
  /\ \A i, j \in DOMAIN measurements : i < j => Before(measurements[i], measurements[j])

Ordered(state) ==
  \A i, j \in DOMAIN state : i < j => state[i].time <= state[j].time /\ state[i] # state[j]

\* A state with its time: of events that were, none of them later.
StateOf(state, time, lastImage, latest) ==
  /\ Ordered(state)
  /\ \A i \in DOMAIN state :
       /\ state[i].time <= time
       /\ IF state[i].kind = "video" THEN state[i].time <= lastImage ELSE Sent(state[i], latest)

BodyInv ==
  /\ StateOf(m_state, m_stateTime, lastFrame, sent)
  /\ m_stateTime = IF m_state = <<>> THEN 0 ELSE m_state[Len(m_state)].time
  /\ \A i \in DOMAIN stateHistory :
       StateOf(stateHistory[i].state, stateHistory[i].time, lastFrame, sent)
  /\ Chronological(stateHistory)
  /\ NewestIsCurrent
  /\ stateHistory = <<>> => m_state = <<>> /\ m_stateTime = 0 /\ appliedIMU = {}

\* What is to be replayed is later than what was applied, and is kept.
Replaying ==
  /\ MeasurementsInOrder(replay, sent)
  /\ \A j \in DOMAIN replay :
       /\ m_stateTime <= replay[j].time
       /\ \A i \in DOMAIN m_state :
            m_state[i].kind # "video" => Before(m_state[i], replay[j])
       /\ Has(imuMeasurements, replay[j])

HistoryInv ==
  /\ BodyInv
  /\ hasEverHadPoseEstimate => stateHistory # <<>>
  /\ MeasurementsInOrder(imuMeasurements, sent)
  /\ Replaying
  /\ pc # "replay" => replay = <<>>
  /\ frame # 0 => frame > lastFrame

\* Every measurement newer than the last image in the state is in the state, or
\* about to be replayed.
ReplayInv ==
  hasEverHadPoseEstimate =>
    \A i \in DOMAIN imuMeasurements :
      \/ Has(m_state, imuMeasurements[i]) \/ Has(replay, imuMeasurements[i])
      \/ \E j \in DOMAIN m_state :
           m_state[j].kind = "video" /\ m_state[j].time >= imuMeasurements[i].time

\* Whatever was applied is in the state or about to be replayed; it is in each
\* snapshot, unless it is from the time of the next or later; and as long as an
\* image older than it may come, it is kept.
KeptInv ==
  \A meas \in appliedIMU :
    /\ Has(m_state, meas) \/ Has(replay, meas)
    /\ \A i \in 1..(Len(stateHistory) - 1) :
         Has(stateHistory[i].state, meas) \/ meas.time >= stateHistory[i + 1].time
    /\ meas.time > lastFrame => Has(imuMeasurements, meas)

\* A snapshot of the state as it was after its first k events.
AsOf(snapshot, state, k) ==
  /\ Len(snapshot.state) = k
  /\ \A j \in 1..k : snapshot.state[j] = state[j]
  /\ snapshot.time = state[k].time

\* The snapshots are of the state after each of the last events applied to it.
Skipped == Len(m_state) - Len(stateHistory)

PrefixInv ==
  /\ Skipped >= 0
  /\ \A i \in DOMAIN stateHistory : AsOf(stateHistory[i], m_state, Skipped + i)
  /\ \A i \in DOMAIN m_state : m_state[i].kind # "video" => m_state[i] \in appliedIMU

\* With a regular IMU that is fast enough for the delay of the images, there is no
\* gap that an image could fall into: the first snapshot is not newer than the
\* next image may be, no two after the last image are much farther apart than two
\* images may be, and neither is what is kept of what was sent.
Within(gap, events, from, until) ==
  \A t \in from..(until - 1) :
    \E i \in DOMAIN events : t < events[i].time /\ events[i].time <= t + gap

\* Of what was sent at calibration and before, after the time of an image, nothing
\* is kept; that is no longer than the image is late.
Heeded(events, from) ==
  sent.time <= from + Backdate \/ Within(FrameInterval + 1, events, from, sent.time)

BaseInv ==
  /\ stateHistory # <<>> => stateHistory[1].time <= lastFrame + FrameInterval
  /\ \A i \in 1..(Len(stateHistory) - 1) :
       \/ stateHistory[i + 1].time <= stateHistory[i].time + FrameInterval + 1
       \/ stateHistory[i + 1].time <= lastFrame + FrameInterval
  /\ sent.time <= now
  /\ m_imuBody => sent.time > 0
  /\ m_steadyVideoReports > 0 => m_imuBody
  /\ hasEverHadPoseEstimate => m_calibComplete
  /\ replay # <<>> => hasEverHadPoseEstimate
  /\ frame # 0 => frame >= lastFrame + FrameInterval
  /\ m_calibComplete /\ frame # 0 /\ pc # "threw" => Heeded(imuMeasurements, frame)
  /\ hasEverHadPoseEstimate /\ pc # "threw" => Heeded(replay, m_stateTime)
=============================================================================
