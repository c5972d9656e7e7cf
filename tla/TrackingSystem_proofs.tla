------------------------- MODULE TrackingSystem_proofs -------------------------
(***************************************************************************)
(* Proofs about calibration and about the body, for any number of samples  *)
(* and any clock: rolling back and replaying apply each measurement once   *)
(* and in order and leave none out.  With an IMU that sends often enough   *)
(* for how late images are and how far apart, there is always a snapshot   *)
(* to roll back to, and nothing that was applied is lost.                  *)
(***************************************************************************)
EXTENDS TrackingSystem, SequenceTheorems, WellFoundedInduction, TLAPS

-----------------------------------------------------------------------------
(***************************************************************************)
(* HistoryContainer                                                        *)
(***************************************************************************)
LEMMA LeastNatural ==
  ASSUME NEW S \in SUBSET Nat, S # {}
  PROVE  \E n \in S : \A m \in S : n <= m
<1> DEFINE R == OpToRel(<, Nat)
<1>1. IsWellFoundedOn(R, Nat)
  BY NatLessThanWellFounded
<1>2. \A a, b \in Nat : a < b => <<a, b>> \in R
  BY DEF OpToRel
<1> HIDE DEF R
<1>3. PICK n \in S : \A m \in S : ~(<<m, n>> \in R)
  BY <1>1, WFMin
<1>4. \A m \in S : ~(m < n)
  BY <1>2, <1>3
<1> QED BY <1>3, <1>4

LEMMA SmallestIsLeast ==
  ASSUME NEW S \in SUBSET Nat, S # {}
  PROVE  Smallest(S) \in S /\ \A m \in S : Smallest(S) <= m
BY LeastNatural DEF Smallest

Timed(h) == \A i \in DOMAIN h : h[i].time \in Nat

\* Where the searches end, on any history.
LEMMA UpperBound ==
  ASSUME NEW T, NEW h \in Seq(T), Timed(h), NEW tv \in Nat
  PROVE  LET ub == upper_bound(h, tv) IN
         /\ ub \in 1..(Len(h) + 1)
         /\ \A i \in 1..(ub - 1) : h[i].time <= tv
         /\ ub <= Len(h) => h[ub].time > tv
<1> DEFINE S == {i \in 1..end(h) : i = end(h) \/ h[i].time > tv}
<1>1. Len(h) \in Nat /\ DOMAIN h = 1..Len(h)
  OBVIOUS
<1>2. S \in SUBSET Nat /\ end(h) \in S
  BY <1>1 DEF end
<1>3. upper_bound(h, tv) \in S /\ \A m \in S : upper_bound(h, tv) <= m
  BY <1>2, SmallestIsLeast DEF upper_bound
<1>4. ASSUME NEW i \in 1..(upper_bound(h, tv) - 1) PROVE h[i].time <= tv
  <2>1. i \in 1..Len(h) /\ i \notin S /\ i # end(h) /\ i \in 1..end(h)
    BY <1>1, <1>2, <1>3 DEF end
  <2> QED BY <1>1, <2>1 DEF Timed
<1> QED BY <1>1, <1>3, <1>4 DEF end

LEMMA LowerBound ==
  ASSUME NEW T, NEW h \in Seq(T), Timed(h), NEW tv \in Nat
  PROVE  LET lb == lower_bound(h, tv) IN
         /\ lb \in 1..(Len(h) + 1)
         /\ \A i \in 1..(lb - 1) : h[i].time < tv
         /\ lb <= Len(h) => h[lb].time >= tv
<1> DEFINE S == {i \in 1..end(h) : i = end(h) \/ h[i].time >= tv}
<1>1. Len(h) \in Nat /\ DOMAIN h = 1..Len(h)
  OBVIOUS
<1>2. S \in SUBSET Nat /\ end(h) \in S
  BY <1>1 DEF end
<1>3. lower_bound(h, tv) \in S /\ \A m \in S : lower_bound(h, tv) <= m
  BY <1>2, SmallestIsLeast DEF lower_bound
<1>4. ASSUME NEW i \in 1..(lower_bound(h, tv) - 1) PROVE h[i].time < tv
  <2>1. i \in 1..Len(h) /\ i \notin S /\ i # end(h) /\ i \in 1..end(h)
    BY <1>1, <1>2, <1>3 DEF end
  <2> QED BY <1>1, <2>1 DEF Timed
<1> QED BY <1>1, <1>3, <1>4 DEF end

LEMMA Slice ==
  ASSUME NEW T, NEW h \in Seq(T), NEW a \in 1..(Len(h) + 1), NEW b \in (a - 1)..Len(h)
  PROVE  LET s == SubSeq(h, a, b) IN
         /\ s \in Seq(T)
         /\ Len(s) = b - a + 1
         /\ DOMAIN s = 1..(b - a + 1)
         /\ \A i \in 1..(b - a + 1) : s[i] = h[a + i - 1] /\ a + i - 1 \in DOMAIN h
<1>1. Len(h) \in Nat /\ DOMAIN h = 1..Len(h) /\ a \in Int /\ b \in Int
  OBVIOUS
<1>2. \A i \in a..b : h[i] \in T
  BY <1>1
<1>3. /\ SubSeq(h, a, b) \in Seq(T)
      /\ Len(SubSeq(h, a, b)) = IF a <= b THEN b - a + 1 ELSE 0
      /\ \A i \in 1..(b - a + 1) : SubSeq(h, a, b)[i] = h[a + i - 1]
  BY <1>1, <1>2, SubSeqProperties
<1> QED BY <1>1, <1>3, LenProperties
\* What is removed: after a time, and before one.
LEMMA PopAfter ==
  ASSUME NEW T, NEW h \in Seq(T), Timed(h), NEW tv \in Nat
  PROVE  LET kept == pop_after(h, tv)  n == upper_bound(h, tv) - 1 IN
         /\ kept \in Seq(T) /\ n \in 0..Len(h) /\ Len(kept) = n
         /\ DOMAIN kept = 1..n
         /\ \A i \in 1..n : kept[i] = h[i] /\ h[i].time <= tv /\ i \in DOMAIN h
<1>1. Len(h) \in Nat /\ DOMAIN h = 1..Len(h)
  OBVIOUS
<1> DEFINE ub == upper_bound(h, tv)
<1>2. ub \in 1..(Len(h) + 1) /\ \A i \in 1..(ub - 1) : h[i].time <= tv
  BY UpperBound
<1> HIDE DEF ub
<1>3. ub - 1 \in 0..Len(h) /\ 1 \in 1..(Len(h) + 1) /\ ub - 1 \in (1 - 1)..Len(h)
  BY <1>1, <1>2
<1>4. /\ SubSeq(h, 1, ub - 1) \in Seq(T) /\ Len(SubSeq(h, 1, ub - 1)) = (ub - 1) - 1 + 1
      /\ DOMAIN SubSeq(h, 1, ub - 1) = 1..((ub - 1) - 1 + 1)
      /\ \A i \in 1..((ub - 1) - 1 + 1) :
           SubSeq(h, 1, ub - 1)[i] = h[1 + i - 1] /\ 1 + i - 1 \in DOMAIN h
  BY <1>3, Slice
<1>5. (ub - 1) - 1 + 1 = ub - 1 /\ \A i \in 1..(ub - 1) : 1 + i - 1 = i
  BY <1>2
<1>6. pop_after(h, tv) = SubSeq(h, 1, ub - 1)
  BY DEF pop_after, ub
<1>7. \A i \in 1..(ub - 1) : SubSeq(h, 1, ub - 1)[i] = h[i] /\ i \in DOMAIN h
  BY <1>4, <1>5
<1> QED BY <1>2, <1>3, <1>4, <1>5, <1>6, <1>7 DEF ub

LEMMA PopBefore ==
  ASSUME NEW T, NEW h \in Seq(T), Timed(h), NEW tv \in Nat
  PROVE  \E n \in 0..Len(h) :
           LET kept == pop_before(h, tv) IN
           /\ kept \in Seq(T) /\ Len(kept) = Len(h) - n
           /\ DOMAIN kept = 1..(Len(h) - n)
           /\ \A i \in 1..(Len(h) - n) : kept[i] = h[n + i] /\ n + i \in DOMAIN h
           /\ \A i \in 1..n : h[i].time < tv
           /\ h # <<>> /\ h[Len(h)].time >= tv => n < Len(h)
<1>1. Len(h) \in Nat /\ DOMAIN h = 1..Len(h)
  OBVIOUS
<1> DEFINE lb == lower_bound(h, tv)
<1>2. /\ lb \in 1..(Len(h) + 1)
      /\ \A i \in 1..(lb - 1) : h[i].time < tv
      /\ lb <= Len(h) => h[lb].time >= tv
  BY LowerBound
<1> HIDE DEF lb
<1>3. CASE pop_before(h, tv) = h
  <2>1. \A i \in 1..(Len(h) - 0) : h[i] = h[0 + i] /\ 0 + i \in DOMAIN h
    BY <1>1
  <2>2. h # <<>> => 0 < Len(h)
    BY <1>1
  <2>3. Len(h) - 0 = Len(h) /\ 0 \in 0..Len(h) /\ \A i \in 1..0 : h[i].time < tv
    BY <1>1
  <2> QED BY <1>1, <1>3, <2>1, <2>2, <2>3
<1>4. CASE pop_before(h, tv) = SubSeq(h, lb, Len(h))
  <2>1. Len(h) \in (lb - 1)..Len(h)
    BY <1>1, <1>2
  <2>2. /\ pop_before(h, tv) \in Seq(T)
        /\ Len(pop_before(h, tv)) = Len(h) - lb + 1
        /\ DOMAIN pop_before(h, tv) = 1..(Len(h) - lb + 1)
        /\ \A i \in 1..(Len(h) - lb + 1) :
             pop_before(h, tv)[i] = h[lb + i - 1] /\ lb + i - 1 \in DOMAIN h
    BY <1>2, <1>4, <2>1, Slice
  <2>3. h # <<>> /\ h[Len(h)].time >= tv => lb - 1 < Len(h)
    <3> SUFFICES ASSUME h # <<>>, h[Len(h)].time >= tv, lb = Len(h) + 1 PROVE FALSE
      BY <1>1, <1>2
    <3>1. Len(h) \in 1..(lb - 1) /\ Len(h) \in DOMAIN h
      BY <1>1
    <3> QED BY <1>2, <3>1 DEF Timed
  <2>4. lb - 1 \in 0..Len(h) /\ Len(h) - (lb - 1) = Len(h) - lb + 1
    BY <1>1, <1>2
  <2>5. \A i \in 1..(Len(h) - lb + 1) : (lb - 1) + i = lb + i - 1
    BY <1>1, <1>2
  <2> QED BY <1>2, <2>2, <2>3, <2>4, <2>5
<1> QED BY <1>3, <1>4 DEF pop_before, lb

LEMMA RangeNewer ==
  ASSUME NEW T, NEW h \in Seq(T), Timed(h), NEW tv \in Nat
  PROVE  \E n \in 0..Len(h) :
           LET newer == get_range_newer_than(h, tv) IN
           /\ newer \in Seq(T) /\ Len(newer) = Len(h) - n
           /\ DOMAIN newer = 1..(Len(h) - n)
           /\ \A i \in 1..(Len(h) - n) : newer[i] = h[n + i] /\ n + i \in DOMAIN h
           /\ \A i \in 1..n : h[i].time <= tv
           /\ n < Len(h) => h[n + 1].time > tv
<1>1. Len(h) \in Nat /\ DOMAIN h = 1..Len(h)
  OBVIOUS
<1> DEFINE ub == upper_bound(h, tv)
<1>2. /\ ub \in 1..(Len(h) + 1)
      /\ \A i \in 1..(ub - 1) : h[i].time <= tv
      /\ ub <= Len(h) => h[ub].time > tv
  BY UpperBound
<1> HIDE DEF ub
<1>3. get_range_newer_than(h, tv) = SubSeq(h, ub, Len(h))
  BY DEF get_range_newer_than, ub
<1>4. Len(h) \in (ub - 1)..Len(h)
  BY <1>1, <1>2
<1>5. /\ get_range_newer_than(h, tv) \in Seq(T)
      /\ Len(get_range_newer_than(h, tv)) = Len(h) - ub + 1
      /\ DOMAIN get_range_newer_than(h, tv) = 1..(Len(h) - ub + 1)
      /\ \A i \in 1..(Len(h) - ub + 1) :
           get_range_newer_than(h, tv)[i] = h[ub + i - 1] /\ ub + i - 1 \in DOMAIN h
  BY <1>2, <1>3, <1>4, Slice
<1>6. ub - 1 \in 0..Len(h) /\ Len(h) - (ub - 1) = Len(h) - ub + 1
  BY <1>1, <1>2
<1>7. \A i \in 1..(Len(h) - ub + 1) : (ub - 1) + i = ub + i - 1
  BY <1>1, <1>2
<1>8. ub - 1 < Len(h) => h[(ub - 1) + 1].time > tv
  BY <1>1, <1>2
<1> QED BY <1>2, <1>5, <1>6, <1>7, <1>8
-----------------------------------------------------------------------------
(***************************************************************************)
(* Calibration                                                             *)
(***************************************************************************)
LEMMA CalibrationInit0 == Init => CalibrationTypeOK /\ CalibrationInv
<1> SUFFICES ASSUME Init PROVE CalibrationTypeOK /\ CalibrationInv
  OBVIOUS
<1>1. /\ m_imuBody = FALSE /\ m_videoTarget = FALSE /\ m_calibComplete = FALSE
      /\ m_imuOrientation = 1 /\ m_vel = "slow" /\ m_steadyVideoReports = 0
      /\ m_rTc_ln_accum = {} /\ videoReports = <<>>
  BY DEF Init, CalibrationInit
<1>2. <<>> \in Seq({"slow", "fast"}) /\ Len(<<>>) = 0
  OBVIOUS
<1>3. CalibrationTypeOK
  <2>1. m_imuBody \in BOOLEAN /\ m_videoTarget \in BOOLEAN /\ m_calibComplete \in BOOLEAN
    BY <1>1
  <2>2. m_imuOrientation \in Signs /\ m_rTc_ln_accum \subseteq Signs
    BY <1>1 DEF Signs
  <2>3. m_vel \in {"slow", "fast"} /\ m_steadyVideoReports \in Nat
    BY <1>1
  <2> QED BY <1>1, <1>2, <2>1, <2>2, <2>3 DEF CalibrationTypeOK
<1>4. CalibrationInv
  <2>1. ~finished(0)
    BY CalibrationAssumption DEF finished
  <2>2. 0..(0 - 1) = {}
    OBVIOUS
  <2> QED BY <1>1, <1>2, <2>1, <2>2 DEF CalibrationInv
<1> QED BY <1>3, <1>4

\* Poses: the count goes up with each that was still and else starts over.
LEMMA VideoKeepsCalibration ==
  ASSUME CalibrationTypeOK, CalibrationInv, NEW pose,
         calibrationVideoPhaseThree(pose)
  PROVE  CalibrationTypeOK' /\ CalibrationInv'
<1>1. CASE wantVideoData /\ pose # "none"
  <2> DEFINE vel == velocityNow(pose = "moving")
  <2>1. /\ vel \in {"slow", "fast"} /\ m_imuBody
        /\ m_videoTarget' = TRUE /\ m_vel' = vel
        /\ m_steadyVideoReports' = (IF vel = "slow" THEN m_steadyVideoReports + 1 ELSE 0)
        /\ m_rTc_ln_accum' = (IF vel = "slow" THEN m_rTc_ln_accum \cup {m_imuOrientation} ELSE {})
        /\ videoReports' = Append(videoReports, vel)
        /\ UNCHANGED <<m_imuBody, m_imuOrientation>>
        /\ m_calibComplete' = finished(m_steadyVideoReports')
    BY <1>1 DEF calibrationVideoPhaseThree, processVideoData, velocityNow, countSteady,
      postCalibrationUpdate, wantVideoData, CalibrationTypeOK
  <2> HIDE DEF vel
  <2>2. /\ videoReports' \in Seq({"slow", "fast"}) /\ Len(videoReports) \in Nat
        /\ Len(videoReports') = Len(videoReports) + 1
        /\ \A i \in 1..Len(videoReports) : videoReports'[i] = videoReports[i]
        /\ videoReports'[Len(videoReports) + 1] = vel
    BY <2>1 DEF CalibrationTypeOK
  <2>3. m_steadyVideoReports' \in Nat
    BY <2>1 DEF CalibrationTypeOK
  <2>4. m_calibComplete' \in BOOLEAN
    BY <2>1 DEF finished
  <2>5. CalibrationTypeOK'
    BY <2>1, <2>2, <2>3, <2>4 DEF CalibrationTypeOK
  <2>6. CASE vel = "slow"
    <3>1. ASSUME NEW i \in 0..(m_steadyVideoReports' - 1)
          PROVE  videoReports'[Len(videoReports') - i] = "slow"
      <4>1. CASE i = 0
        BY <2>2, <2>6, <4>1
      <4>2. CASE i # 0
        <5>1. i - 1 \in 0..(m_steadyVideoReports - 1)
          BY <2>1, <2>6, <4>2 DEF CalibrationTypeOK
        <5>2. /\ Len(videoReports') - i = Len(videoReports) - (i - 1)
              /\ Len(videoReports) - (i - 1) \in 1..Len(videoReports)
          BY <2>2, <5>1 DEF CalibrationInv, CalibrationTypeOK
        <5> QED BY <2>2, <5>1, <5>2 DEF CalibrationInv
      <4> QED BY <4>1, <4>2
    <3> QED BY <2>1, <2>2, <2>5, <2>6, <3>1 DEF CalibrationInv, CalibrationTypeOK
  <2>7. CASE vel = "fast"
    BY <2>1, <2>2, <2>5, <2>7 DEF CalibrationInv
  <2> QED BY <2>1, <2>6, <2>7
<1>2. CASE ~(wantVideoData /\ pose # "none")
  BY <1>2 DEF calibrationVideoPhaseThree, postCalibrationUpdate, finished, CalibrationTypeOK,
    CalibrationInv
<1> QED BY <1>1, <1>2

LEMMA ImuKeepsCalibration ==
  ASSUME CalibrationTypeOK, CalibrationInv, NEW sign, calibrationHandleIMUData(sign)
  PROVE  CalibrationTypeOK' /\ CalibrationInv'
BY DEF calibrationHandleIMUData, continuousSign, postCalibrationUpdate, finished,
  CalibrationTypeOK, CalibrationInv, Signs

LEMMA CalibrationNext ==
  CalibrationTypeOK /\ CalibrationInv /\ [Next]_vars => CalibrationTypeOK' /\ CalibrationInv'
<1> SUFFICES ASSUME CalibrationTypeOK, CalibrationInv, [Next]_vars
             PROVE  CalibrationTypeOK' /\ CalibrationInv'
  OBVIOUS
<1>1. CASE UNCHANGED calibrationVars
  BY <1>1 DEF calibrationVars, CalibrationTypeOK, CalibrationInv
<1>2. ASSUME NEW sign, calibrationHandleIMUData(sign)
      PROVE  CalibrationTypeOK' /\ CalibrationInv'
  BY <1>2, ImuKeepsCalibration
<1>3. ASSUME NEW pose, calibrationVideoPhaseThree(pose)
      PROVE  CalibrationTypeOK' /\ CalibrationInv'
  BY <1>3, VideoKeepsCalibration
<1>4. \/ UNCHANGED calibrationVars
      \/ \E sign \in Signs : calibrationHandleIMUData(sign)
      \/ \E pose \in {"none", "still", "moving"} : calibrationVideoPhaseThree(pose)
  BY DEF Next, vars, Tick, Grab, DropFrame, Replay, Prune, ImuMessage, ImuOutOfOrder,
    HandleImu, CalibrationFrame, updatePoseEstimates
<1> QED BY <1>1, <1>2, <1>3, <1>4

\* For any number of samples required: calibration is done with the last so many
\* poses all still.
THEOREM StillWhenCalibrated == Spec => []CalibratedWhileStill
<1>1. CalibrationTypeOK /\ CalibrationInv => CalibratedWhileStill
  <2> SUFFICES ASSUME CalibrationTypeOK, CalibrationInv, m_calibComplete
               PROVE  /\ Len(videoReports) >= REQUIRED_SAMPLES
                      /\ \A i \in 0..REQUIRED_SAMPLES - 1 :
                           videoReports[Len(videoReports) - i] = "slow"
    BY DEF CalibratedWhileStill
  <2>1. m_steadyVideoReports >= REQUIRED_SAMPLES /\ m_steadyVideoReports \in Nat
        /\ Len(videoReports) \in Nat
    BY DEF CalibrationInv, finished, CalibrationTypeOK
  <2> QED BY <2>1, CalibrationAssumption DEF CalibrationInv
<1> QED BY <1>1, CalibrationInit0, CalibrationNext, PTL DEF Spec

\* What is averaged has one sign only.
THEOREM OneSide == Spec => []OneSideAveraged
<1>1. CalibrationTypeOK /\ CalibrationInv => OneSideAveraged
  BY DEF CalibrationTypeOK, CalibrationInv, OneSideAveraged, Signs
<1> QED BY <1>1, CalibrationInit0, CalibrationNext, PTL DEF Spec

-----------------------------------------------------------------------------
(***************************************************************************)
(* Types                                                                   *)
(***************************************************************************)
Snapshots == [time : Nat, state : States]

LEMMA HistoriesTimed ==
  ASSUME BodyTypeOK
  PROVE  /\ stateHistory \in Seq(Snapshots) /\ Timed(stateHistory)
         /\ imuMeasurements \in Seq(Events) /\ Timed(imuMeasurements)
         /\ replay \in Seq(Events) /\ Timed(replay)
<1>1. stateHistory \in Seq(Snapshots) /\ imuMeasurements \in Seq(Events) /\ replay \in Seq(Events)
  BY DEF BodyTypeOK, Snapshots
<1>2. \A i \in DOMAIN stateHistory : stateHistory[i] \in Snapshots
  BY <1>1
<1>3. \A i \in DOMAIN imuMeasurements : imuMeasurements[i] \in Events
  BY <1>1
<1>4. \A i \in DOMAIN replay : replay[i] \in Events
  BY <1>1
<1> QED BY <1>1, <1>2, <1>3, <1>4 DEF Timed, Snapshots, Events

\* The snapshot gone back to is not newer than the image, and the next one is.
LEMMA StateAtOrBefore ==
  ASSUME BodyTypeOK, NEW tv \in Nat
  PROVE  /\ stateTime(tv) \in Nat /\ stateAt(tv) \in States
         /\ stateTime(tv) <= tv
         /\ \/ stateAt(tv) = <<>> /\ ~validState(tv)
            \/ /\ validState(tv)
               /\ base(tv) \in 1..Len(stateHistory)
               /\ base(tv) + 1 = upper_bound(stateHistory, tv)
               /\ stateTime(tv) = stateHistory[base(tv)].time
               /\ stateAt(tv) = stateHistory[base(tv)].state
<1>1. Len(stateHistory) \in Nat /\ DOMAIN stateHistory = 1..Len(stateHistory)
  BY HistoriesTimed
<1> DEFINE ub == upper_bound(stateHistory, tv)
<1>2. /\ ub \in 1..(Len(stateHistory) + 1)
      /\ \A i \in 1..(ub - 1) : stateHistory[i].time <= tv
  BY HistoriesTimed, UpperBound
<1>3. base(tv) = IF ub = 1 THEN Len(stateHistory) + 1 ELSE ub - 1
  BY DEF base, closest_not_newer, end
<1> HIDE DEF ub
<1>4. CASE ub = 1
  <2>1. ~validState(tv)
    BY <1>3, <1>4 DEF validState, end
  <2>2. stateTime(tv) = 0 /\ stateAt(tv) = <<>>
    BY <2>1 DEF stateTime, stateAt
  <2>3. <<>> \in States
    BY DEF States
  <2> QED BY <2>1, <2>2, <2>3
<1>5. CASE ub # 1
  <2>1. base(tv) + 1 = ub /\ base(tv) \in 1..Len(stateHistory) /\ base(tv) \in 1..(ub - 1)
    BY <1>1, <1>2, <1>3, <1>5
  <2>2. validState(tv)
    BY <1>1, <2>1 DEF validState, end
  <2>3. stateTime(tv) = stateHistory[base(tv)].time /\ stateAt(tv) = stateHistory[base(tv)].state
    BY <2>2 DEF stateTime, stateAt
  <2>4. stateHistory[base(tv)] \in Snapshots /\ stateHistory[base(tv)].time <= tv
    BY <1>1, <1>2, <2>1, HistoriesTimed
  <2> QED BY <2>1, <2>2, <2>3, <2>4 DEF Snapshots, ub
<1> QED BY <1>4, <1>5

LEMMA ApplyTyped ==
  ASSUME BodyTypeOK, NEW meas \in Events, applyIMUMeasurement(meas)
  PROVE  /\ m_state' \in States /\ m_stateTime' \in Nat
         /\ stateHistory' \in Seq(Snapshots) /\ appliedIMU' \subseteq Events
<1>1. CASE worthApplying(meas.time)
  <2>1. Append(m_state, meas) \in States /\ meas.time \in Nat
    BY DEF BodyTypeOK, States, Events
  <2>2. Snapshot(meas.time, Append(m_state, meas)) \in Snapshots
    BY <2>1 DEF Snapshot, Snapshots
  <2>3. push_newest(stateHistory, Snapshot(meas.time, Append(m_state, meas))) \in Seq(Snapshots)
    BY <2>2, HistoriesTimed DEF push_newest
  <2> QED BY <1>1, <2>1, <2>3 DEF applyIMUMeasurement, BodyTypeOK
<1>2. CASE ~worthApplying(meas.time)
  BY <1>2, HistoriesTimed DEF applyIMUMeasurement, BodyTypeOK
<1> QED BY <1>1, <1>2

LEMMA IncorporateTyped ==
  ASSUME BodyTypeOK, NEW meas \in Events, incorporateNewMeasurementFromIMU(meas)
  PROVE  BodyTypeOK'
<1>1. /\ m_state' \in States /\ m_stateTime' \in Nat
      /\ stateHistory' \in Seq(Snapshots) /\ appliedIMU' \subseteq Events
  BY ApplyTyped, HistoriesTimed DEF incorporateNewMeasurementFromIMU, BodyTypeOK
<1>2. imuMeasurements' \in Seq(Events)
  BY HistoriesTimed DEF incorporateNewMeasurementFromIMU, push_newest
<1>3. m_last' \in Nat /\ everHadPose' \in BOOLEAN /\ hasPoseEstimate' \in BOOLEAN
  BY DEF incorporateNewMeasurementFromIMU, hasEverHadPoseEstimate, BodyTypeOK, Events
<1>4. replay' \in Seq(Events)
  BY HistoriesTimed DEF incorporateNewMeasurementFromIMU
<1> QED BY <1>1, <1>2, <1>3, <1>4 DEF BodyTypeOK, Snapshots

LEMMA HeadAndTail ==
  ASSUME NEW T, NEW q \in Seq(T), q # <<>>
  PROVE  /\ Head(q) = q[1] /\ 1 \in DOMAIN q /\ Head(q) \in T
         /\ Tail(q) \in Seq(T) /\ Len(q) \in Nat /\ Len(Tail(q)) = Len(q) - 1
         /\ \A i \in DOMAIN Tail(q) : Tail(q)[i] = q[i + 1] /\ i + 1 \in DOMAIN q /\ i \in 1..(Len(q) - 1)
<1>1. Len(q) \in Nat /\ Len(q) # 0 /\ DOMAIN q = 1..Len(q)
  OBVIOUS
<1>2. Tail(q) \in Seq(T) /\ Len(Tail(q)) = Len(q) - 1
  BY <1>1
<1>3. DOMAIN Tail(q) = 1..(Len(q) - 1)
  BY <1>2
<1>4. \A i \in 1..(Len(q) - 1) : Tail(q)[i] = q[i + 1]
  BY <1>1
<1> QED BY <1>1, <1>2, <1>3, <1>4

LEMMA PruneTyped ==
  ASSUME BodyTypeOK, NEW tv \in Nat, pruneHistory(tv)
  PROVE  stateHistory' \in Seq(Snapshots) /\ imuMeasurements' \in Seq(Events)
<1>1. CASE stateHistory = <<>>
  BY <1>1, HistoriesTimed DEF pruneHistory
<1>2. CASE stateHistory # <<>>
  <2> DEFINE oldest == neverToEmpty(getOldestPossibleMeasurementSource(tv))
  <2>1. Len(stateHistory) \in DOMAIN stateHistory
    BY <1>2, HistoriesTimed
  <2>2. newest_timestamp(stateHistory) \in Nat
    BY <2>1, HistoriesTimed DEF newest_timestamp, Timed
  <2>3. oldest \in Nat
    BY <2>2 DEF neverToEmpty, getOldestPossibleMeasurementSource, Min2, BodyTypeOK
  <2>4. stateHistory' = pop_before(stateHistory, oldest)
        /\ imuMeasurements' = pop_before(imuMeasurements, oldest)
    BY <1>2 DEF pruneHistory
  <2> HIDE DEF oldest
  <2>5. pop_before(stateHistory, oldest) \in Seq(Snapshots)
    BY <2>3, HistoriesTimed, PopBefore
  <2>6. pop_before(imuMeasurements, oldest) \in Seq(Events)
    BY <2>3, HistoriesTimed, PopBefore
  <2> QED BY <2>4, <2>5, <2>6
<1> QED BY <1>1, <1>2

LEMMA ReplaceTyped ==
  ASSUME BodyTypeOK, NEW tv \in Nat, replaceStateSnapshot(tv)
  PROVE  /\ m_state' \in States /\ m_stateTime' \in Nat
         /\ stateHistory' \in Seq(Snapshots) /\ replay' \in Seq(Events)
<1> DEFINE newState == Append(stateAt(tv), [kind |-> "video", time |-> tv])
           kept == withoutInvalidated(tv)
<1>1. [kind |-> "video", time |-> tv] \in Events
  BY DEF Events, Kinds
<1>2. newState \in States
  BY <1>1, StateAtOrBefore DEF States
<1>3. kept \in Seq(Snapshots)
  BY StateAtOrBefore, HistoriesTimed, PopAfter DEF withoutInvalidated
<1>4. toReplay(tv) \in Seq(Events)
  BY HistoriesTimed, RangeNewer DEF toReplay
<1> HIDE DEF newState, kept
<1>5. Snapshot(tv, newState) \in Snapshots
  BY <1>2 DEF Snapshot, Snapshots
<1>6. push_newest(kept, Snapshot(tv, newState)) \in Seq(Snapshots)
  BY <1>3, <1>5 DEF push_newest
<1> QED BY <1>2, <1>3, <1>4, <1>6 DEF replaceStateSnapshot, newState, kept

LEMMA InitTyped == Init => TypeOK
<1> SUFFICES ASSUME Init PROVE TypeOK
  OBVIOUS
<1>1. CalibrationTypeOK
  BY CalibrationInit0
<1>2. BodyTypeOK
  <2>1. /\ m_state = <<>> /\ stateHistory = <<>> /\ imuMeasurements = <<>> /\ replay = <<>>
        /\ m_stateTime = 0 /\ m_last \in Unset /\ appliedIMU = {}
        /\ hasPoseEstimate = FALSE /\ everHadPose = FALSE
    BY DEF Init, BodyInit
  <2>2. m_state \in States /\ imuMeasurements \in Seq(Events) /\ replay \in Seq(Events)
    BY <2>1 DEF States
  <2>3. stateHistory \in Seq([time : Nat, state : States])
    BY <2>1
  <2>4. hasPoseEstimate \in BOOLEAN /\ everHadPose \in BOOLEAN
    BY <2>1
  <2> QED BY <2>1, <2>2, <2>3, <2>4, SystemAssumption DEF BodyTypeOK
<1>3. now \in Nat /\ frame \in Nat /\ lastFrame \in Nat /\ pc \in {"idle", "replay", "prune", "threw"}
  BY DEF Init
<1>4. sent \in Events
  BY DEF Init, Events, Kinds
<1> QED BY <1>1, <1>2, <1>3, <1>4 DEF TypeOK

LEMMA BodyStill == BodyTypeOK /\ UNCHANGED bodyVars => BodyTypeOK'
BY DEF BodyTypeOK, bodyVars

LEMMA ImuAreEvents == ImuMeasurements \subseteq Events
BY SystemAssumption DEF ImuMeasurements, Events, Kinds

LEMMA HandleImuTyped ==
  ASSUME BodyTypeOK, pc \in {"idle", "replay", "prune", "threw"}, NEW meas \in Events, NEW sign,
         HandleImu(meas, sign)
  PROVE  BodyTypeOK' /\ pc' \in {"idle", "replay", "prune", "threw"}
<1>1. CASE ~m_calibComplete
  BY <1>1, BodyStill DEF HandleImu
<1>2. CASE m_calibComplete /\ outOfOrder(meas.time)
  <2>1. m_last' \in Nat
    BY <1>2 DEF HandleImu, BodyTypeOK, Events
  <2> QED BY <1>2, <2>1 DEF HandleImu, BodyTypeOK
<1>3. CASE m_calibComplete /\ ~outOfOrder(meas.time)
  BY <1>3, IncorporateTyped DEF HandleImu
<1> QED BY <1>1, <1>2, <1>3

LEMMA NextTyped == TypeOK /\ CalibrationTypeOK' /\ [Next]_vars => TypeOK'
<1> SUFFICES ASSUME TypeOK, CalibrationTypeOK', [Next]_vars PROVE TypeOK'
  OBVIOUS
<1> USE DEF TypeOK
<1>1. CASE Tick
  BY <1>1, BodyStill DEF Tick
<1>2. CASE Grab
  <2>1. frame' \in Nat
    BY <1>2, SystemAssumption DEF Grab
  <2> QED BY <1>2, <2>1, BodyStill DEF Grab
<1>3. CASE DropFrame
  BY <1>3, BodyStill DEF DropFrame
<1>4. CASE Replay
  <2>1. CASE replay # <<>>
    <3>1. Head(replay) \in Events /\ Tail(replay) \in Seq(Events)
      BY <2>1, HistoriesTimed, HeadAndTail
    <3>2. /\ m_state' \in States /\ m_stateTime' \in Nat
          /\ stateHistory' \in Seq(Snapshots) /\ appliedIMU' \subseteq Events
      BY <1>4, <2>1, <3>1, ApplyTyped DEF Replay, ReplayOne
    <3>3. BodyTypeOK'
      BY <1>4, <2>1, <3>1, <3>2 DEF Replay, ReplayOne, BodyTypeOK, Snapshots
    <3> QED BY <1>4, <2>1, <3>3 DEF Replay
  <2>2. CASE replay = <<>>
    BY <1>4, <2>2, BodyStill DEF Replay
  <2> QED BY <2>1, <2>2
<1>5. CASE Prune
  <2>1. stateHistory' \in Seq(Snapshots) /\ imuMeasurements' \in Seq(Events)
    BY <1>5, PruneTyped DEF Prune
  <2>2. BodyTypeOK'
    BY <1>5, <2>1 DEF Prune, BodyTypeOK, Snapshots
  <2> QED BY <1>5, <2>2 DEF Prune
<1>6. ASSUME NEW meas \in ImuMeasurements, NEW sign \in Signs, ImuMessage(meas, sign)
      PROVE  TypeOK'
  <2>1. meas \in Events
    BY ImuAreEvents
  <2> QED BY <1>6, <2>1, HandleImuTyped DEF ImuMessage
<1>7. ASSUME NEW meas \in ImuMeasurements, NEW sign \in Signs, ImuOutOfOrder(meas, sign)
      PROVE  TypeOK'
  <2>1. meas \in Events
    BY ImuAreEvents
  <2> QED BY <1>7, <2>1, HandleImuTyped DEF ImuOutOfOrder
<1>8. ASSUME NEW pose \in {"none", "still", "moving"}, CalibrationFrame(pose) PROVE TypeOK'
  BY <1>8, BodyStill DEF CalibrationFrame
<1>9. ASSUME NEW outcome \in {"noLeds", "noPose", "pose"}, updatePoseEstimates(outcome)
      PROVE  TypeOK'
  <2>1. hasPoseEstimate' \in BOOLEAN
    BY <1>9 DEF updatePoseEstimates, BodyTypeOK
  <2>2. CASE outcome = "pose"
    <3>1. /\ m_state' \in States /\ m_stateTime' \in Nat
          /\ stateHistory' \in Seq(Snapshots) /\ replay' \in Seq(Events)
      BY <1>9, <2>2, ReplaceTyped DEF updatePoseEstimates
    <3>2. BodyTypeOK'
      BY <1>9, <2>1, <2>2, <3>1 DEF updatePoseEstimates, BodyTypeOK, Snapshots
    <3> QED BY <1>9, <2>2, <3>2 DEF updatePoseEstimates
  <2>3. CASE outcome # "pose"
    <3>1. BodyTypeOK'
      BY <1>9, <2>1, <2>3 DEF updatePoseEstimates, BodyTypeOK
    <3> QED BY <1>9, <2>3, <3>1 DEF updatePoseEstimates
  <2> QED BY <2>2, <2>3
<1>10. CASE UNCHANGED vars
  BY <1>10, BodyStill DEF vars
<1> QED BY <1>1, <1>2, <1>3, <1>4, <1>5, <1>6, <1>7, <1>8, <1>9, <1>10 DEF Next

\* Every variable keeps its type.
THEOREM TypeCorrect == Spec => []TypeOK
<1>1. TypeOK /\ CalibrationInv /\ [Next]_vars => TypeOK' /\ CalibrationInv'
  BY CalibrationNext, NextTyped DEF TypeOK
<1> QED BY <1>1, InitTyped, CalibrationInit0, PTL DEF Spec

-----------------------------------------------------------------------------
(***************************************************************************)
(* The order of what is applied, and of the snapshots                      *)
(***************************************************************************)
LEMMA BeforeIsAnOrder ==
  ASSUME NEW a \in Events, NEW b \in Events, NEW c \in Events
  PROVE  /\ Before(a, b) => a # b /\ a.time <= b.time
         /\ Before(a, b) /\ Before(b, c) => Before(a, c)
         /\ Sent(a, b) /\ (b = c \/ Before(b, c)) => Sent(a, c)
BY DEF Before, Sent, Events, Kinds

LEMMA StateOfLater ==
  ASSUME NEW state \in States, NEW time \in Nat, NEW time2 \in Nat, time <= time2,
         NEW image \in Nat, NEW image2 \in Nat, image <= image2,
         NEW latest \in Events, NEW latest2 \in Events, latest = latest2 \/ Before(latest, latest2),
         StateOf(state, time, image, latest)
  PROVE  StateOf(state, time2, image2, latest2)
<1>1. ASSUME NEW i \in DOMAIN state
      PROVE  /\ state[i].time <= time2
             /\ IF state[i].kind = "video" THEN state[i].time <= image2
                                           ELSE Sent(state[i], latest2)
  <2>1. state[i] \in Events
    BY DEF States
  <2>2. state[i].time <= time
        /\ IF state[i].kind = "video" THEN state[i].time <= image ELSE Sent(state[i], latest)
    BY DEF StateOf
  <2>3. state[i].time \in Nat
    BY <2>1 DEF Events
  <2>4. Sent(state[i], latest) => Sent(state[i], latest2)
    BY <2>1, BeforeIsAnOrder
  <2> QED BY <2>2, <2>3, <2>4
<1>2. Ordered(state)
  BY DEF StateOf
<1> QED BY <1>1, <1>2 DEF StateOf

LEMMA InOrderLater ==
  ASSUME NEW measurements \in Seq(Events), NEW latest \in Events, NEW latest2 \in Events,
         latest = latest2 \/ Before(latest, latest2), MeasurementsInOrder(measurements, latest)
  PROVE  MeasurementsInOrder(measurements, latest2)
<1>1. \A i \in DOMAIN measurements : measurements[i] \in Events
  OBVIOUS
<1> QED BY <1>1, BeforeIsAnOrder DEF MeasurementsInOrder

\* The end of a sequence in order is in order.
LEMMA InOrderFrom ==
  ASSUME NEW measurements \in Seq(Events), NEW latest \in Events,
         MeasurementsInOrder(measurements, latest),
         NEW n \in Nat, NEW part, NEW len \in Int, DOMAIN part = 1..len,
         \A i \in 1..len : part[i] = measurements[n + i] /\ n + i \in DOMAIN measurements
  PROVE  MeasurementsInOrder(part, latest)
<1>1. \A i \in DOMAIN part : Sent(part[i], latest)
  BY DEF MeasurementsInOrder
<1>2. ASSUME NEW i \in DOMAIN part, NEW j \in DOMAIN part, i < j PROVE Before(part[i], part[j])
  <2>1. n + i < n + j
    BY <1>2
  <2> QED BY <1>2, <2>1 DEF MeasurementsInOrder
<1> QED BY <1>1, <1>2 DEF MeasurementsInOrder

LEMMA Appended ==
  ASSUME NEW T, NEW s \in Seq(T), NEW e \in T
  PROVE  /\ Append(s, e) \in Seq(T) /\ Len(s) \in Nat /\ DOMAIN s = 1..Len(s)
         /\ Len(Append(s, e)) = Len(s) + 1
         /\ DOMAIN Append(s, e) = 1..(Len(s) + 1)
         /\ \A i \in 1..Len(s) : Append(s, e)[i] = s[i]
         /\ Append(s, e)[Len(s) + 1] = e
OBVIOUS

LEMMA InOrderAppended ==
  ASSUME NEW measurements \in Seq(Events), NEW latest \in Events, NEW meas \in Events,
         meas.kind # "video", Before(latest, meas), MeasurementsInOrder(measurements, latest)
  PROVE  MeasurementsInOrder(Append(measurements, meas), meas)
<1> DEFINE longer == Append(measurements, meas)
<1>1. /\ Len(measurements) \in Nat /\ DOMAIN measurements = 1..Len(measurements)
      /\ DOMAIN longer = 1..(Len(measurements) + 1)
      /\ \A i \in 1..Len(measurements) : longer[i] = measurements[i]
      /\ longer[Len(measurements) + 1] = meas
  BY Appended
<1> HIDE DEF longer
<1>2. \A i \in 1..Len(measurements) :
        measurements[i] \in Events /\ Sent(measurements[i], meas) /\ Before(measurements[i], meas)
  <2>1. ASSUME NEW i \in 1..Len(measurements)
        PROVE measurements[i] \in Events /\ Sent(measurements[i], latest)
    BY <1>1 DEF MeasurementsInOrder
  <2> QED BY <2>1, BeforeIsAnOrder DEF Sent
<1>3. Sent(meas, meas)
  BY DEF Sent
<1>4. \A i \in DOMAIN longer : i \in 1..Len(measurements) \/ i = Len(measurements) + 1
  BY <1>1
<1>5. \A i \in DOMAIN longer : Sent(longer[i], meas)
  BY <1>1, <1>2, <1>3, <1>4
<1>6. ASSUME NEW i \in DOMAIN longer, NEW j \in DOMAIN longer, i < j
      PROVE  Before(longer[i], longer[j])
  <2>1. i \in 1..Len(measurements)
    BY <1>1, <1>6
  <2>2. CASE j \in 1..Len(measurements)
    BY <1>1, <1>6, <2>1, <2>2 DEF MeasurementsInOrder
  <2>3. CASE j = Len(measurements) + 1
    BY <1>1, <1>2, <2>1, <2>3
  <2> QED BY <1>4, <2>2, <2>3
<1> QED BY <1>5, <1>6 DEF MeasurementsInOrder, longer

\* A measurement that comes after those applied, an image after the images.
LEMMA StateAppended ==
  ASSUME NEW state \in States, NEW time \in Nat, NEW image \in Nat, NEW latest \in Events,
         StateOf(state, time, image, latest),
         NEW e \in Events, time <= e.time, \A i \in DOMAIN state : state[i] # e,
         NEW image2 \in Nat, image <= image2, NEW latest2 \in Events,
         latest = latest2 \/ Before(latest, latest2),
         IF e.kind = "video" THEN e.time <= image2 ELSE Sent(e, latest2)
  PROVE  StateOf(Append(state, e), e.time, image2, latest2)
<1> DEFINE longer == Append(state, e)
<1>1. /\ Len(state) \in Nat /\ DOMAIN state = 1..Len(state)
      /\ DOMAIN longer = 1..(Len(state) + 1)
      /\ \A i \in 1..Len(state) : longer[i] = state[i]
      /\ longer[Len(state) + 1] = e
  BY Appended DEF States
<1> HIDE DEF longer
<1>2. e.time \in Nat
  BY DEF Events
<1>3. StateOf(state, e.time, image2, latest2)
  BY <1>2, StateOfLater
<1>4. \A i \in DOMAIN longer : i \in 1..Len(state) \/ i = Len(state) + 1
  BY <1>1
<1>5. ASSUME NEW i \in DOMAIN longer
      PROVE  /\ longer[i].time <= e.time
             /\ IF longer[i].kind = "video" THEN longer[i].time <= image2
                                            ELSE Sent(longer[i], latest2)
  <2>1. CASE i \in 1..Len(state)
    BY <1>1, <1>3, <2>1 DEF StateOf
  <2>2. CASE i = Len(state) + 1
    BY <1>1, <1>2, <2>2
  <2> QED BY <1>4, <2>1, <2>2
<1>6. ASSUME NEW i \in DOMAIN longer, NEW j \in DOMAIN longer, i < j
      PROVE  longer[i].time <= longer[j].time /\ longer[i] # longer[j]
  <2>1. i \in 1..Len(state)
    BY <1>1, <1>6
  <2>2. CASE j \in 1..Len(state)
    BY <1>1, <1>3, <1>6, <2>1, <2>2 DEF StateOf, Ordered
  <2>3. CASE j = Len(state) + 1
    BY <1>1, <1>3, <2>1, <2>3 DEF StateOf
  <2> QED BY <1>4, <2>2, <2>3
<1> QED BY <1>5, <1>6 DEF StateOf, Ordered, longer

HistoryOf(h, image, latest) ==
  /\ Chronological(h)
  /\ \A i \in DOMAIN h : StateOf(h[i].state, h[i].time, image, latest)

LEMMA HistoryLater ==
  ASSUME NEW h \in Seq(Snapshots), NEW image \in Nat, NEW image2 \in Nat, image <= image2,
         NEW latest \in Events, NEW latest2 \in Events, latest = latest2 \/ Before(latest, latest2),
         HistoryOf(h, image, latest)
  PROVE  HistoryOf(h, image2, latest2)
<1>1. ASSUME NEW i \in DOMAIN h PROVE StateOf(h[i].state, h[i].time, image2, latest2)
  <2>1. h[i] \in Snapshots
    OBVIOUS
  <2>2. h[i].state \in States /\ h[i].time \in Nat /\ StateOf(h[i].state, h[i].time, image, latest)
    BY <2>1 DEF Snapshots, HistoryOf
  <2>3. \A state \in States, time \in Nat :
          StateOf(state, time, image, latest) => StateOf(state, time, image2, latest2)
    BY StateOfLater
  <2> QED BY <2>2, <2>3
<1> QED BY <1>1 DEF HistoryOf

LEMMA HistoryPart ==
  ASSUME NEW h \in Seq(Snapshots), NEW image, NEW latest, HistoryOf(h, image, latest),
         NEW n \in Nat, NEW part, NEW len \in Int, DOMAIN part = 1..len,
         \A i \in 1..len : part[i] = h[n + i] /\ n + i \in DOMAIN h
  PROVE  HistoryOf(part, image, latest)
<1>1. \A i \in DOMAIN part : StateOf(part[i].state, part[i].time, image, latest)
  BY DEF HistoryOf
<1>2. ASSUME NEW i \in DOMAIN part, NEW j \in DOMAIN part, i < j PROVE part[i].time <= part[j].time
  <2>1. n + i < n + j
    BY <1>2
  <2> QED BY <1>2, <2>1 DEF HistoryOf, Chronological
<1> QED BY <1>1, <1>2 DEF HistoryOf, Chronological

LEMMA HistoryPushed ==
  ASSUME NEW h \in Seq(Snapshots), NEW image, NEW latest, HistoryOf(h, image, latest),
         NEW tv \in Nat, NEW state \in States, StateOf(state, tv, image, latest),
         \A i \in DOMAIN h : h[i].time <= tv
  PROVE  LET longer == push_newest(h, Snapshot(tv, state)) IN
         /\ HistoryOf(longer, image, latest)
         /\ longer # <<>> /\ longer[Len(longer)] = Snapshot(tv, state)
<1> DEFINE longer == push_newest(h, Snapshot(tv, state))
<1>1. Snapshot(tv, state) \in Snapshots
  BY DEF Snapshot, Snapshots
<1>2. /\ Len(h) \in Nat /\ DOMAIN h = 1..Len(h)
      /\ Len(longer) = Len(h) + 1 /\ DOMAIN longer = 1..(Len(h) + 1)
      /\ \A i \in 1..Len(h) : longer[i] = h[i]
      /\ longer[Len(h) + 1] = Snapshot(tv, state)
  BY <1>1, Appended DEF push_newest
<1> HIDE DEF longer
<1>3. Snapshot(tv, state).time = tv /\ Snapshot(tv, state).state = state
  BY DEF Snapshot
<1>4. \A i \in DOMAIN longer : i \in 1..Len(h) \/ i = Len(h) + 1
  BY <1>2
<1>5. \A i \in DOMAIN longer : StateOf(longer[i].state, longer[i].time, image, latest)
  BY <1>2, <1>3, <1>4 DEF HistoryOf
<1>6. ASSUME NEW i \in DOMAIN longer, NEW j \in DOMAIN longer, i < j
      PROVE  longer[i].time <= longer[j].time
  <2>1. i \in 1..Len(h)
    BY <1>2, <1>6
  <2> QED BY <1>2, <1>3, <1>4, <1>6, <2>1 DEF HistoryOf, Chronological
<1>7. longer # <<>>
  BY <1>2
<1> QED BY <1>2, <1>5, <1>6, <1>7 DEF HistoryOf, Chronological, longer

-----------------------------------------------------------------------------
(***************************************************************************)
(* Each step keeps the state and the histories in order                    *)
(***************************************************************************)
Later == lastFrame <= lastFrame' /\ (sent = sent' \/ Before(sent, sent'))

LEMMA BodyLater ==
  ASSUME TypeOK, TypeOK', BodyInv, Later, UNCHANGED <<m_state, m_stateTime, stateHistory, appliedIMU>>
  PROVE  BodyInv'
<1>1. /\ m_state \in States /\ m_stateTime \in Nat /\ stateHistory \in Seq(Snapshots)
      /\ lastFrame \in Nat /\ lastFrame' \in Nat /\ sent \in Events /\ sent' \in Events
  BY HistoriesTimed DEF TypeOK, BodyTypeOK
<1>2. StateOf(m_state, m_stateTime, lastFrame', sent')
  BY <1>1, StateOfLater DEF BodyInv, Later
<1>3. HistoryOf(stateHistory, lastFrame, sent)
  BY DEF BodyInv, HistoryOf
<1>4. HistoryOf(stateHistory, lastFrame', sent')
  BY <1>1, <1>3, HistoryLater DEF Later
<1> QED BY <1>2, <1>4 DEF BodyInv, HistoryOf, NewestIsCurrent

\* The time of the newest snapshot is that of the state, and none is newer.
LEMMA NewestIsLast ==
  ASSUME TypeOK, BodyInv
  PROVE  /\ \A i \in DOMAIN stateHistory : stateHistory[i].time <= m_stateTime
         /\ stateHistory # <<>> => newest_timestamp(stateHistory) = m_stateTime
         /\ \A tv \in Nat : worthApplying(tv) <=> m_stateTime <= tv
<1>1. /\ stateHistory \in Seq(Snapshots) /\ Timed(stateHistory) /\ m_stateTime \in Nat
      /\ Len(stateHistory) \in Nat /\ DOMAIN stateHistory = 1..Len(stateHistory)
  BY HistoriesTimed DEF TypeOK, BodyTypeOK
<1>2. CASE stateHistory = <<>>
  <2>1. m_stateTime = 0
    BY <1>2 DEF BodyInv
  <2> QED BY <1>1, <1>2, <2>1 DEF worthApplying, is_valid_to_push_newest
<1>3. CASE stateHistory # <<>>
  <2>1. Len(stateHistory) \in DOMAIN stateHistory
    BY <1>1, <1>3
  <2>2. stateHistory[Len(stateHistory)].time = m_stateTime
    BY <1>3 DEF BodyInv, NewestIsCurrent, Snapshot
  <2>3. \A i \in DOMAIN stateHistory : i = Len(stateHistory) \/ i < Len(stateHistory)
    BY <1>1
  <2>4. \A i \in DOMAIN stateHistory : stateHistory[i].time <= m_stateTime
    BY <1>1, <2>1, <2>2, <2>3 DEF BodyInv, Chronological
  <2> QED BY <1>1, <1>3, <2>2, <2>4 DEF worthApplying, is_valid_to_push_newest, newest_timestamp
<1> QED BY <1>2, <1>3

\* A measurement that is not older than the state, after those applied.
LEMMA ApplyKeepsOrder ==
  ASSUME TypeOK, TypeOK', BodyInv, Later, lastFrame' = lastFrame, NEW meas \in Events,
         meas.kind # "video", Sent(meas, sent'), m_stateTime <= meas.time,
         \A i \in DOMAIN m_state : m_state[i].kind # "video" => Before(m_state[i], meas),
         applyIMUMeasurement(meas)
  PROVE  /\ BodyInv' /\ stateHistory' # <<>>
         /\ m_state' = Append(m_state, meas) /\ m_stateTime' = meas.time
         /\ stateHistory' = push_newest(stateHistory, Snapshot(meas.time, Append(m_state, meas)))
         /\ appliedIMU' = appliedIMU \cup {meas}
<1>1. /\ m_state \in States /\ m_stateTime \in Nat /\ stateHistory \in Seq(Snapshots)
      /\ lastFrame \in Nat /\ lastFrame' \in Nat /\ sent \in Events /\ sent' \in Events
      /\ meas.time \in Nat
  BY HistoriesTimed DEF TypeOK, BodyTypeOK, Events
<1>2. worthApplying(meas.time)
  BY <1>1, NewestIsLast
<1>3. /\ m_state' = Append(m_state, meas) /\ m_stateTime' = meas.time
      /\ stateHistory' = push_newest(stateHistory, Snapshot(meas.time, Append(m_state, meas)))
      /\ appliedIMU' = appliedIMU \cup {meas}
  BY <1>2 DEF applyIMUMeasurement
<1>4. \A i \in DOMAIN m_state : m_state[i] # meas
  <2>1. \A i \in DOMAIN m_state : m_state[i] \in Events
    BY <1>1 DEF States
  <2> QED BY <2>1, BeforeIsAnOrder
<1>5. StateOf(m_state', m_stateTime', lastFrame', sent')
  <2>1. StateOf(m_state, m_stateTime, lastFrame, sent)
    BY DEF BodyInv
  <2>2. StateOf(Append(m_state, meas), meas.time, lastFrame', sent')
    BY <1>1, <1>4, <2>1, StateAppended DEF Later
  <2> QED BY <1>3, <2>2
<1>6. HistoryOf(stateHistory, lastFrame', sent')
  <2>1. HistoryOf(stateHistory, lastFrame, sent)
    BY DEF BodyInv, HistoryOf
  <2> QED BY <1>1, <2>1, HistoryLater DEF Later
<1>7. \A i \in DOMAIN stateHistory : stateHistory[i].time <= meas.time
  <2>1. \A i \in DOMAIN stateHistory : stateHistory[i].time \in Nat
    BY HistoriesTimed DEF Timed, TypeOK
  <2> QED BY <1>1, <2>1, NewestIsLast
<1>8. Append(m_state, meas) \in States
  BY <1>1 DEF States
<1>9. /\ HistoryOf(stateHistory', lastFrame', sent') /\ stateHistory' # <<>>
      /\ stateHistory'[Len(stateHistory')] = Snapshot(m_stateTime', m_state')
  BY <1>1, <1>3, <1>5, <1>6, <1>7, <1>8, HistoryPushed
<1>10. m_state' # <<>> /\ m_state'[Len(m_state')].time = m_stateTime'
  <2>1. Len(Append(m_state, meas)) = Len(m_state) + 1
        /\ Append(m_state, meas)[Len(m_state) + 1] = meas
    BY <1>1, Appended DEF States
  <2>2. Append(m_state, meas) # <<>>
    BY <1>1, <2>1 DEF States
  <2> QED BY <1>3, <2>1, <2>2
<1>11. BodyInv'
  BY <1>5, <1>9, <1>10 DEF BodyInv, HistoryOf, NewestIsCurrent
<1> QED BY <1>3, <1>9, <1>11

\* Measurements that are in order have times that do not decrease.
LEMMA TimesInOrder ==
  ASSUME NEW h, NEW latest, MeasurementsInOrder(h, latest), Timed(h),
         NEW a \in DOMAIN h, NEW b \in DOMAIN h, a < b
  PROVE  h[a].time <= h[b].time
<1>1. Before(h[a], h[b])
  BY DEF MeasurementsInOrder
<1>2. h[a].time \in Nat /\ h[b].time \in Nat
  BY DEF Timed
<1> QED BY <1>1, <1>2 DEF Before

\* What an image goes back to, with it applied, and what is to be replayed.
LEMMA ReplaceKeepsOrder ==
  ASSUME TypeOK, TypeOK', HistoryInv, frame # 0, replaceStateSnapshot(frame),
         lastFrame' = frame, sent' = sent, UNCHANGED <<imuMeasurements, appliedIMU>>
  PROVE  /\ BodyInv' /\ Replaying' /\ stateHistory' # <<>>
         /\ \A j \in DOMAIN replay' : replay'[j].time > frame
<1> DEFINE image == [kind |-> "video", time |-> frame]
           old == stateAt(frame)
           newState == Append(old, image)
           kept == withoutInvalidated(frame)
<1>1. /\ frame \in Nat /\ lastFrame \in Nat /\ frame > lastFrame /\ sent \in Events /\ BodyTypeOK
      /\ stateHistory \in Seq(Snapshots) /\ Timed(stateHistory)
  BY HistoriesTimed DEF TypeOK, HistoryInv
<1>2. image \in Events /\ image.kind = "video" /\ image.time = frame
  BY <1>1 DEF Events, Kinds
<1>3. old \in States /\ stateTime(frame) \in Nat /\ stateTime(frame) <= frame
  BY <1>1, StateAtOrBefore
<1>4. StateOf(old, stateTime(frame), lastFrame, sent)
  <2>1. CASE old = <<>> /\ ~validState(frame)
    BY <2>1 DEF StateOf, Ordered
  <2>2. CASE validState(frame)
    <3>1. /\ base(frame) \in 1..Len(stateHistory)
          /\ stateTime(frame) = stateHistory[base(frame)].time
          /\ old = stateHistory[base(frame)].state
      BY <1>1, <2>2, StateAtOrBefore
    <3>2. base(frame) \in DOMAIN stateHistory
      BY <1>1, <3>1
    <3>3. \A i \in DOMAIN stateHistory :
            StateOf(stateHistory[i].state, stateHistory[i].time, lastFrame, sent)
      BY DEF HistoryInv, BodyInv
    <3> QED BY <3>1, <3>2, <3>3
  <2> QED BY <1>1, <2>1, <2>2, StateAtOrBefore
<1>5. newState \in States /\ newState # <<>> /\ newState[Len(newState)] = image
  <2>1. newState[Len(old) + 1] = image /\ Len(newState) = Len(old) + 1 /\ newState \in Seq(Events)
    BY <1>2, <1>3, Appended DEF States
  <2>2. newState # <<>>
    BY <1>3, <2>1 DEF States
  <2> QED BY <2>1, <2>2 DEF States
<1>6. \A i \in DOMAIN old : old[i].time \in Nat /\ old[i].time <= stateTime(frame) /\ old[i] \in Events
  <2> HIDE DEF old
  <2>1. ASSUME NEW i \in DOMAIN old PROVE old[i] \in Events /\ old[i].time <= stateTime(frame)
    BY <1>3, <1>4 DEF States, StateOf
  <2> QED BY <2>1 DEF Events
<1>7. \A i \in DOMAIN old : old[i] # image
  <2>1. \A i \in DOMAIN old : old[i].kind = "video" => old[i].time <= lastFrame
    BY <1>4 DEF StateOf
  <2> QED BY <1>1, <1>2, <1>6, <2>1
<1>8. StateOf(newState, frame, frame, sent)
  <2> HIDE DEF image, old
  <2>1. StateOf(Append(old, image), image.time, frame, sent)
    BY <1>1, <1>2, <1>3, <1>4, <1>7, StateAppended
  <2> QED BY <1>2, <2>1
<1>9. HistoryOf(stateHistory, frame, sent)
  <2>1. HistoryOf(stateHistory, lastFrame, sent)
    BY DEF HistoryInv, BodyInv, HistoryOf
  <2> QED BY <1>1, <2>1, HistoryLater
<1>10. PICK n \in 0..Len(stateHistory) :
         /\ kept \in Seq(Snapshots) /\ Len(kept) = n /\ DOMAIN kept = 1..n
         /\ \A i \in 1..n : kept[i] = stateHistory[i] /\ stateHistory[i].time <= stateTime(frame)
                            /\ i \in DOMAIN stateHistory
  BY <1>1, <1>3, PopAfter DEF withoutInvalidated
<1>11. HistoryOf(kept, frame, sent)
  <2> HIDE DEF kept
  <2>1. n \in Int /\ 0 \in Nat
    BY <1>1
  <2>2. \A i \in 1..n : kept[i] = stateHistory[0 + i] /\ 0 + i \in DOMAIN stateHistory
    BY <1>10
  <2> QED BY <1>1, <1>9, <1>10, <2>1, <2>2, HistoryPart
<1>12. \A i \in DOMAIN kept : kept[i].time \in Nat /\ kept[i].time <= frame
  <2>1. ASSUME NEW i \in DOMAIN kept PROVE kept[i].time \in Nat /\ kept[i].time <= frame
    <3>1. kept[i].time \in Nat /\ kept[i].time <= stateTime(frame)
      BY <1>1, <1>10 DEF Timed
    <3> QED BY <1>1, <1>3, <3>1
  <2> QED BY <2>1
<1>13. is_valid_to_push_newest(kept, frame)
  <2>1. CASE kept = <<>>
    BY <2>1 DEF is_valid_to_push_newest
  <2>2. CASE kept # <<>>
    <3>1. Len(kept) \in DOMAIN kept
      <4> HIDE DEF kept
      <4> QED BY <1>10, <2>2
    <3> QED BY <1>1, <1>12, <3>1 DEF is_valid_to_push_newest, newest_timestamp
  <2> QED BY <2>1, <2>2
<1>14. /\ m_state' = newState /\ m_stateTime' = frame
       /\ stateHistory' = push_newest(kept, Snapshot(frame, newState))
       /\ replay' = toReplay(frame)
  BY <1>13 DEF replaceStateSnapshot
<1>15. /\ HistoryOf(stateHistory', frame, sent) /\ stateHistory' # <<>>
       /\ stateHistory'[Len(stateHistory')] = Snapshot(frame, newState)
  <2> HIDE DEF kept, newState
  <2> QED BY <1>1, <1>5, <1>8, <1>10, <1>11, <1>12, <1>14, HistoryPushed
<1>16. BodyInv'
  <2>1. m_state' # <<>> /\ m_state'[Len(m_state')].time = m_stateTime'
    BY <1>2, <1>5, <1>14
  <2>2. StateOf(m_state', m_stateTime', lastFrame', sent')
    BY <1>8, <1>14
  <2> HIDE DEF newState
  <2> QED BY <1>14, <1>15, <2>1, <2>2 DEF BodyInv, HistoryOf, NewestIsCurrent
<1>17. imuMeasurements \in Seq(Events) /\ Timed(imuMeasurements)
       /\ MeasurementsInOrder(imuMeasurements, sent)
  BY <1>1, HistoriesTimed DEF HistoryInv
<1>18. PICK k \in 0..Len(imuMeasurements) :
         /\ Len(replay') = Len(imuMeasurements) - k
         /\ DOMAIN replay' = 1..(Len(imuMeasurements) - k)
         /\ \A i \in 1..(Len(imuMeasurements) - k) :
              replay'[i] = imuMeasurements[k + i] /\ k + i \in DOMAIN imuMeasurements
         /\ k < Len(imuMeasurements) => imuMeasurements[k + 1].time > frame
  BY <1>1, <1>14, <1>17, RangeNewer DEF toReplay
<1>19. MeasurementsInOrder(replay', sent)
  <2>1. k \in Nat /\ Len(imuMeasurements) - k \in Int
    BY <1>17
  <2> QED BY <1>1, <1>17, <1>18, <2>1, InOrderFrom
<1>20. ASSUME NEW j \in DOMAIN replay' PROVE replay'[j].time > frame /\ replay'[j] \in Events
  <2>1. k + j \in DOMAIN imuMeasurements /\ replay'[j] = imuMeasurements[k + j] /\ j \in Nat /\ j >= 1
        /\ k + 1 <= k + j /\ k < Len(imuMeasurements) /\ k + 1 \in DOMAIN imuMeasurements
    BY <1>17, <1>18
  <2>2. imuMeasurements[k + 1].time <= imuMeasurements[k + j].time
    <3>1. CASE k + 1 = k + j
      BY <2>1, <3>1, <1>17 DEF Timed
    <3>2. CASE k + 1 < k + j
      <4>1. k + 1 \in DOMAIN imuMeasurements /\ k + j \in DOMAIN imuMeasurements
        BY <2>1
      <4> QED BY ONLY <1>17, <3>2, <4>1, TimesInOrder
    <3> QED BY <2>1, <3>1, <3>2
  <2>3. imuMeasurements[k + 1].time \in Nat /\ imuMeasurements[k + j].time \in Nat
    BY <1>17, <2>1 DEF Timed
  <2> QED BY <1>1, <1>17, <1>18, <2>1, <2>2, <2>3
<1>21. ASSUME NEW j \in DOMAIN replay', NEW i \in DOMAIN m_state', m_state'[i].kind # "video"
       PROVE  Before(m_state'[i], replay'[j])
  <2>1. /\ Len(old) \in Nat /\ DOMAIN old = 1..Len(old) /\ DOMAIN newState = 1..(Len(old) + 1)
        /\ \A l \in 1..Len(old) : newState[l] = old[l]
        /\ newState[Len(old) + 1] = image
    BY <1>2, <1>3, Appended DEF States
  <2>2. i \in DOMAIN old /\ m_state'[i] = old[i]
    <3>1. i \in 1..(Len(old) + 1)
      BY <1>14, <2>1
    <3>2. i # Len(old) + 1
      BY <1>2, <1>14, <1>21, <2>1
    <3> HIDE DEF old, newState
    <3> QED BY <1>14, <2>1, <3>1, <3>2
  <2>3. old[i].time <= frame /\ old[i].time \in Nat
    <3> HIDE DEF old
    <3> QED BY <1>1, <1>3, <1>6, <2>2
  <2>4. replay'[j].time > frame /\ replay'[j].time \in Nat
    BY <1>20 DEF Events
  <2> HIDE DEF old
  <2> QED BY <1>1, <2>2, <2>3, <2>4 DEF Before
<1>22. Replaying'
  <2>1. ASSUME NEW j \in DOMAIN replay'
        PROVE  m_stateTime' <= replay'[j].time
               /\ Has(imuMeasurements', replay'[j])
    <3>1. replay'[j].time > frame /\ replay'[j].time \in Nat
      BY <1>20 DEF Events
    <3>2. k + j \in DOMAIN imuMeasurements /\ imuMeasurements[k + j] = replay'[j]
      BY <1>18
    <3> QED BY <1>1, <1>14, <3>1, <3>2 DEF Has
  <2> QED BY <1>19, <1>21, <2>1 DEF Replaying
<1> QED BY <1>15, <1>16, <1>20, <1>22

LEMMA PruneKeepsOrder ==
  ASSUME TypeOK, TypeOK', HistoryInv, pruneHistory(lastFrame), replay' = <<>>,
         UNCHANGED <<m_state, m_stateTime, hasPoseEstimate, everHadPose, lastFrame, sent, frame,
                     appliedIMU>>
  PROVE  HistoryInv'
<1>1. /\ stateHistory \in Seq(Snapshots) /\ Timed(stateHistory) /\ lastFrame \in Nat
      /\ imuMeasurements \in Seq(Events) /\ Timed(imuMeasurements) /\ m_last \in Nat
      /\ m_stateTime \in Nat /\ sent \in Events
  BY HistoriesTimed DEF TypeOK, BodyTypeOK
<1>2. Replaying'
  BY DEF Replaying, MeasurementsInOrder
<1>3. CASE stateHistory = <<>>
  <2>1. UNCHANGED <<stateHistory, imuMeasurements>>
    BY <1>3 DEF pruneHistory
  <2> QED BY <1>2, <2>1 DEF HistoryInv, BodyInv, NewestIsCurrent, hasEverHadPoseEstimate
<1>4. CASE stateHistory # <<>>
  <2> DEFINE oldest == neverToEmpty(getOldestPossibleMeasurementSource(lastFrame))
  <2>1. newest_timestamp(stateHistory) = m_stateTime
    BY <1>4, NewestIsLast DEF HistoryInv
  <2>2. oldest \in Nat /\ oldest <= m_stateTime
    BY <1>1, <2>1 DEF neverToEmpty, getOldestPossibleMeasurementSource, Min2
  <2>3. stateHistory' = pop_before(stateHistory, oldest)
        /\ imuMeasurements' = pop_before(imuMeasurements, oldest)
    BY <1>4 DEF pruneHistory
  <2> HIDE DEF oldest
  <2>4. PICK n \in 0..Len(stateHistory) :
          /\ Len(stateHistory') = Len(stateHistory) - n
          /\ DOMAIN stateHistory' = 1..(Len(stateHistory) - n)
          /\ \A i \in 1..(Len(stateHistory) - n) :
               stateHistory'[i] = stateHistory[n + i] /\ n + i \in DOMAIN stateHistory
          /\ stateHistory # <<>> /\ stateHistory[Len(stateHistory)].time >= oldest
               => n < Len(stateHistory)
    BY <1>1, <2>2, <2>3, PopBefore
  <2>5. PICK k \in 0..Len(imuMeasurements) :
          /\ DOMAIN imuMeasurements' = 1..(Len(imuMeasurements) - k)
          /\ \A i \in 1..(Len(imuMeasurements) - k) :
               imuMeasurements'[i] = imuMeasurements[k + i] /\ k + i \in DOMAIN imuMeasurements
    <3>1. \E k \in 0..Len(imuMeasurements) :
            LET kept == pop_before(imuMeasurements, oldest) IN
            /\ DOMAIN kept = 1..(Len(imuMeasurements) - k)
            /\ \A i \in 1..(Len(imuMeasurements) - k) :
                 kept[i] = imuMeasurements[k + i] /\ k + i \in DOMAIN imuMeasurements
      BY <1>1, <2>2, PopBefore
    <3> QED BY <2>3, <3>1
  <2>6. n < Len(stateHistory) /\ n \in Nat /\ Len(stateHistory) \in Nat /\ k \in Nat
        /\ Len(imuMeasurements) \in Nat
    BY <1>1, <1>4, <2>1, <2>2, <2>4 DEF newest_timestamp
  <2>7. HistoryOf(stateHistory', lastFrame, sent)
    <3>1. HistoryOf(stateHistory, lastFrame, sent)
      BY DEF HistoryInv, BodyInv, HistoryOf
    <3>2. Len(stateHistory) - n \in Int
      BY <2>6
    <3> QED BY <1>1, <2>4, <2>6, <3>1, <3>2, HistoryPart
  <2>8. MeasurementsInOrder(imuMeasurements', sent)
    <3>1. MeasurementsInOrder(imuMeasurements, sent)
      BY DEF HistoryInv
    <3>2. Len(imuMeasurements) - k \in Int
      BY <2>6
    <3> QED BY <1>1, <2>5, <2>6, <3>1, <3>2, InOrderFrom
  <2>9. stateHistory' # <<>> /\ stateHistory'[Len(stateHistory')] = Snapshot(m_stateTime, m_state)
    <3>1. Len(stateHistory') \in 1..(Len(stateHistory) - n) /\ n + Len(stateHistory') = Len(stateHistory)
      BY <2>4, <2>6
    <3>2. stateHistory'[Len(stateHistory')] = stateHistory[Len(stateHistory)]
      BY <2>4, <3>1
    <3>3. stateHistory' # <<>>
      BY <2>4, <3>1
    <3> QED BY <1>4, <3>2, <3>3 DEF HistoryInv, BodyInv, NewestIsCurrent
  <2>10. BodyInv'
    BY <2>7, <2>9 DEF HistoryInv, BodyInv, HistoryOf, NewestIsCurrent
  <2> QED BY <1>2, <2>8, <2>9, <2>10 DEF HistoryInv
<1> QED BY <1>3, <1>4

LEMMA ReplayKeepsOrder ==
  ASSUME TypeOK, TypeOK', HistoryInv, replay # <<>>, ReplayOne,
         UNCHANGED <<lastFrame, sent, frame>>
  PROVE  /\ BodyInv' /\ Replaying' /\ stateHistory' # <<>>
         /\ m_state' = Append(m_state, Head(replay)) /\ m_stateTime' = Head(replay).time
         /\ stateHistory' = push_newest(stateHistory, Snapshot(m_stateTime', m_state'))
         /\ appliedIMU' = appliedIMU \cup {Head(replay)}
<1> DEFINE meas == Head(replay)
<1>1. replay \in Seq(Events) /\ lastFrame \in Nat /\ m_state \in States /\ sent \in Events
  BY HistoriesTimed DEF TypeOK, BodyTypeOK
<1>2. /\ meas = replay[1] /\ 1 \in DOMAIN replay /\ meas \in Events
      /\ replay' = Tail(replay) /\ Len(replay) \in Nat /\ Len(Tail(replay)) = Len(replay) - 1
      /\ \A i \in DOMAIN Tail(replay) : Tail(replay)[i] = replay[i + 1]
           /\ i + 1 \in DOMAIN replay /\ i \in 1..(Len(replay) - 1)
  BY <1>1, HeadAndTail DEF ReplayOne
<1>3. Sent(meas, sent) /\ meas.kind # "video" /\ m_stateTime <= meas.time
      /\ \A i \in DOMAIN m_state : m_state[i].kind # "video" => Before(m_state[i], meas)
  BY <1>2 DEF HistoryInv, Replaying, MeasurementsInOrder, Sent
<1>4. applyIMUMeasurement(meas) /\ Later
  BY <1>1 DEF ReplayOne, Later
<1> HIDE DEF meas
<1>5. /\ BodyInv' /\ stateHistory' # <<>>
      /\ m_state' = Append(m_state, meas) /\ m_stateTime' = meas.time
      /\ stateHistory' = push_newest(stateHistory, Snapshot(meas.time, Append(m_state, meas)))
      /\ appliedIMU' = appliedIMU \cup {meas}
  BY <1>2, <1>3, <1>4, ApplyKeepsOrder DEF HistoryInv
<1>6. MeasurementsInOrder(replay', sent)
  <2>1. DOMAIN Tail(replay) = 1..(Len(replay) - 1)
    BY <1>1, <1>2, HeadAndTail
  <2>2. MeasurementsInOrder(replay, sent)
    BY DEF HistoryInv, Replaying
  <2>3. \A i \in 1..(Len(replay) - 1) : Tail(replay)[i] = replay[1 + i] /\ 1 + i \in DOMAIN replay
    <3>1. \A i \in 1..(Len(replay) - 1) : i + 1 = 1 + i
      BY <1>2
    <3> QED BY <1>2, <2>1, <3>1
  <2>4. Len(replay) - 1 \in Int /\ 1 \in Nat
    BY <1>2
  <2>5. MeasurementsInOrder(Tail(replay), sent)
    BY <1>1, <2>1, <2>2, <2>3, <2>4, InOrderFrom
  <2> QED BY <1>2, <2>5
<1>7. \A j \in DOMAIN replay' : Before(meas, replay'[j]) /\ replay'[j] \in Events
  <2>1. ASSUME NEW j \in DOMAIN replay' PROVE Before(meas, replay'[j]) /\ replay'[j] \in Events
    <3>1. replay'[j] = replay[j + 1] /\ j + 1 \in DOMAIN replay /\ 1 < j + 1
      BY <1>2
    <3> QED BY <1>1, <1>2, <3>1 DEF HistoryInv, Replaying, MeasurementsInOrder
  <2> QED BY <2>1
<1>8. ASSUME NEW j \in DOMAIN replay'
      PROVE  /\ m_stateTime' <= replay'[j].time
             /\ \A i \in DOMAIN m_state' :
                  m_state'[i].kind # "video" => Before(m_state'[i], replay'[j])
             /\ Has(imuMeasurements', replay'[j])
  <2>1. replay'[j] = replay[j + 1] /\ j + 1 \in DOMAIN replay
    BY <1>2
  <2>2. m_stateTime' <= replay'[j].time
    BY <1>2, <1>5, <1>7, BeforeIsAnOrder
  <2>3. Has(imuMeasurements', replay'[j])
    BY <2>1 DEF HistoryInv, Replaying, ReplayOne
  <2>4. ASSUME NEW i \in DOMAIN m_state', m_state'[i].kind # "video"
        PROVE  Before(m_state'[i], replay'[j])
    <3>1. /\ Len(m_state) \in Nat /\ DOMAIN m_state = 1..Len(m_state)
          /\ DOMAIN m_state' = 1..(Len(m_state) + 1)
          /\ \A l \in 1..Len(m_state) : m_state'[l] = m_state[l]
          /\ m_state'[Len(m_state) + 1] = meas
      BY <1>1, <1>2, <1>5, Appended DEF States
    <3>2. CASE i \in 1..Len(m_state)
      BY <2>1, <2>4, <3>1, <3>2 DEF HistoryInv, Replaying
    <3>3. CASE i = Len(m_state) + 1
      BY <1>7, <3>1, <3>3
    <3> QED BY <3>1, <3>2, <3>3
  <2> QED BY <2>2, <2>3, <2>4
<1>9. Replaying'
  BY <1>6, <1>8 DEF Replaying
<1> QED BY <1>5, <1>9 DEF meas

LEMMA FollowsIsBefore ==
  ASSUME NEW meas \in ImuMeasurements, Follows(meas), sent \in Events
  PROVE  Before(sent, meas) /\ meas.kind # "video" /\ meas \in Events
BY ImuAreEvents DEF Follows, Before, ImuMeasurements, Events

\* A message of the IMU, however it is handled.
LEMMA ImuKeepsOrder ==
  ASSUME TypeOK, TypeOK', HistoryInv, NEW meas \in ImuMeasurements, NEW sign \in Signs,
         ImuMessage(meas, sign)
  PROVE  HistoryInv'
<1>1. /\ replay = <<>> /\ sent \in Events /\ meas \in Events /\ meas.kind # "video"
      /\ Before(sent, meas) /\ sent' = meas /\ lastFrame' = lastFrame /\ frame' = frame
      /\ lastFrame \in Nat /\ imuMeasurements \in Seq(Events)
  BY FollowsIsBefore, HistoriesTimed DEF ImuMessage, TypeOK, HistoryInv
<1>2. Later
  BY <1>1 DEF Later
<1>3. replay' = <<>>
  BY <1>1 DEF ImuMessage, HandleImu, incorporateNewMeasurementFromIMU, bodyVars
<1>4. Replaying'
  BY <1>3 DEF Replaying, MeasurementsInOrder
<1>5. MeasurementsInOrder(imuMeasurements, meas)
  BY <1>1, InOrderLater DEF HistoryInv
<1>6. ASSUME UNCHANGED <<m_state, m_stateTime, stateHistory, appliedIMU>> PROVE BodyInv'
  BY <1>2, <1>6, BodyLater DEF HistoryInv
<1>7. CASE ~m_calibComplete \/ outOfOrder(meas.time)
  <2>1. UNCHANGED <<m_state, m_stateTime, stateHistory, appliedIMU, imuMeasurements,
                    hasPoseEstimate, everHadPose, replay>>
    BY <1>7 DEF ImuMessage, HandleImu, bodyVars
  <2> QED BY <1>1, <1>3, <1>4, <1>5, <1>6, <2>1 DEF HistoryInv, hasEverHadPoseEstimate
<1>8. CASE m_calibComplete /\ ~outOfOrder(meas.time)
  <2>1. incorporateNewMeasurementFromIMU(meas)
    BY <1>8 DEF ImuMessage, HandleImu
  <2>2. imuMeasurements' = Append(imuMeasurements, meas)
    BY <2>1 DEF incorporateNewMeasurementFromIMU, push_newest
  <2>3. MeasurementsInOrder(imuMeasurements', sent')
    BY <1>1, <2>2, InOrderAppended DEF HistoryInv
  <2>4. hasEverHadPoseEstimate' = hasEverHadPoseEstimate
    BY <2>1 DEF incorporateNewMeasurementFromIMU, hasEverHadPoseEstimate
  <2>5. CASE UNCHANGED <<m_state, m_stateTime, stateHistory, appliedIMU>>
    BY <1>1, <1>3, <1>4, <1>6, <2>3, <2>4, <2>5 DEF HistoryInv
  <2>6. CASE hasEverHadPoseEstimate /\ worthApplying(meas.time)
    <3>1. applyIMUMeasurement(meas)
      BY <2>1, <2>6 DEF incorporateNewMeasurementFromIMU
    <3>2. m_stateTime <= meas.time
      BY <1>1, <2>6, NewestIsLast DEF HistoryInv, Events
    <3>3. \A i \in DOMAIN m_state : m_state[i].kind # "video" => Before(m_state[i], meas)
      <4>1. ASSUME NEW i \in DOMAIN m_state, m_state[i].kind # "video"
            PROVE  Before(m_state[i], meas)
        <5>1. m_state[i] \in Events
          BY DEF TypeOK, BodyTypeOK, States
        <5>2. Sent(m_state[i], sent)
          BY <4>1 DEF HistoryInv, BodyInv, StateOf
        <5> QED BY <1>1, <5>1, <5>2, BeforeIsAnOrder DEF Sent
      <4> QED BY <4>1
    <3>4. Sent(meas, sent')
      BY <1>1 DEF Sent
    <3>5. BodyInv' /\ stateHistory' # <<>>
      BY <1>1, <1>2, <3>1, <3>2, <3>3, <3>4, ApplyKeepsOrder DEF HistoryInv
    <3> QED BY <1>1, <1>3, <1>4, <2>3, <3>5 DEF HistoryInv
  <2>7. QED
    BY <2>1, <2>5, <2>6 DEF incorporateNewMeasurementFromIMU, applyIMUMeasurement
<1> QED BY <1>7, <1>8

LEMMA ImageKeepsOrder ==
  ASSUME TypeOK, TypeOK', HistoryInv, NEW outcome, updatePoseEstimates(outcome)
  PROVE  HistoryInv'
<1>1. /\ pc = "idle" /\ frame # 0 /\ lastFrame' = frame /\ frame' = 0 /\ sent' = sent
      /\ frame > lastFrame /\ frame \in Nat /\ lastFrame \in Nat /\ replay = <<>>
      /\ UNCHANGED <<imuMeasurements, appliedIMU, everHadPose>>
  BY DEF updatePoseEstimates, HistoryInv, TypeOK
<1>2. MeasurementsInOrder(imuMeasurements', sent')
  BY <1>1 DEF HistoryInv
<1>3. CASE outcome = "pose"
  <2>1. replaceStateSnapshot(frame) /\ pc' = "replay"
    BY <1>3 DEF updatePoseEstimates
  <2>2. BodyInv' /\ Replaying' /\ stateHistory' # <<>>
    BY <1>1, <2>1, ReplaceKeepsOrder
  <2> QED BY <1>1, <1>2, <2>1, <2>2 DEF HistoryInv
<1>4. CASE outcome # "pose"
  <2>1. UNCHANGED <<m_state, m_stateTime, stateHistory, replay>>
    BY <1>4 DEF updatePoseEstimates
  <2>2. BodyInv'
    BY <1>1, <2>1, BodyLater DEF HistoryInv, Later
  <2>3. Replaying' /\ replay' = <<>>
    BY <1>1, <2>1 DEF Replaying, MeasurementsInOrder
  <2>4. hasEverHadPoseEstimate' => hasEverHadPoseEstimate
    <3>1. hasPoseEstimate' = IF outcome = "noLeds" THEN hasPoseEstimate ELSE outcome = "pose"
      BY DEF updatePoseEstimates
    <3>2. hasPoseEstimate' => hasPoseEstimate
      BY <1>4, <3>1
    <3> QED BY <1>1, <3>2 DEF hasEverHadPoseEstimate
  <2> QED BY <1>1, <1>2, <2>1, <2>2, <2>3, <2>4 DEF HistoryInv
<1> QED BY <1>3, <1>4

LEMMA HistoryStill ==
  ASSUME TypeOK, TypeOK', HistoryInv, UNCHANGED <<m_state, m_stateTime, stateHistory, imuMeasurements,
           hasPoseEstimate, everHadPose, replay, appliedIMU, sent>>,
         lastFrame <= lastFrame', frame' # 0 => frame' > lastFrame',
         pc' # "replay" => replay = <<>>
  PROVE  HistoryInv'
<1>1. BodyInv'
  BY BodyLater DEF HistoryInv, Later
<1>2. Replaying'
  BY DEF HistoryInv, Replaying
<1> QED BY <1>1, <1>2 DEF HistoryInv, hasEverHadPoseEstimate

LEMMA HistoryNext ==
  TypeOK /\ TypeOK' /\ HistoryInv /\ [Next]_vars => HistoryInv'
<1> SUFFICES ASSUME TypeOK, TypeOK', HistoryInv, [Next]_vars PROVE HistoryInv'
  OBVIOUS
<1>0. lastFrame \in Nat /\ frame \in Nat /\ now \in Nat
  BY DEF TypeOK
<1>1. CASE Tick
  BY <1>0, <1>1, HistoryStill DEF Tick, HistoryInv, bodyVars
<1>2. CASE Grab
  BY <1>0, <1>2, HistoryStill, SystemAssumption DEF Grab, HistoryInv, bodyVars
<1>3. CASE DropFrame
  BY <1>0, <1>3, HistoryStill DEF DropFrame, HistoryInv, bodyVars
<1>4. CASE Replay
  <2>1. CASE replay # <<>>
    <3>1. ReplayOne /\ pc' = "replay" /\ UNCHANGED <<lastFrame, sent, frame>>
      BY <1>4, <2>1 DEF Replay
    <3>2. BodyInv' /\ Replaying' /\ stateHistory' # <<>>
      BY <2>1, <3>1, ReplayKeepsOrder
    <3> QED BY <3>1, <3>2 DEF HistoryInv, ReplayOne
  <2>2. CASE replay = <<>>
    BY <1>0, <1>4, <2>2, HistoryStill DEF Replay, HistoryInv, bodyVars
  <2> QED BY <2>1, <2>2
<1>5. CASE Prune
  <2>1. replay' = <<>>
    BY <1>5 DEF Prune, HistoryInv
  <2> QED BY <1>5, <2>1, PruneKeepsOrder DEF Prune
<1>6. ASSUME NEW meas \in ImuMeasurements, NEW sign \in Signs, ImuMessage(meas, sign)
      PROVE  HistoryInv'
  BY <1>6, ImuKeepsOrder
<1>7. ASSUME NEW meas \in ImuMeasurements, NEW sign \in Signs, ImuOutOfOrder(meas, sign)
      PROVE  HistoryInv'
  <2>1. UNCHANGED <<m_state, m_stateTime, stateHistory, imuMeasurements, hasPoseEstimate,
                    everHadPose, replay, appliedIMU, sent, frame, lastFrame>>
        /\ pc' = "threw" /\ replay = <<>>
    BY <1>7 DEF ImuOutOfOrder, HandleImu, HistoryInv
  <2> QED BY <1>0, <2>1, HistoryStill DEF HistoryInv
<1>8. ASSUME NEW pose \in {"none", "still", "moving"}, CalibrationFrame(pose) PROVE HistoryInv'
  BY <1>0, <1>8, HistoryStill DEF CalibrationFrame, HistoryInv, bodyVars
<1>9. ASSUME NEW outcome \in {"noLeds", "noPose", "pose"}, updatePoseEstimates(outcome)
      PROVE  HistoryInv'
  BY <1>9, ImageKeepsOrder
<1>10. CASE UNCHANGED vars
  BY <1>0, <1>10, HistoryStill DEF vars, HistoryInv, bodyVars
<1> QED BY <1>1, <1>2, <1>3, <1>4, <1>5, <1>6, <1>7, <1>8, <1>9, <1>10 DEF Next

LEMMA HistoryInit == Init => HistoryInv
<1> SUFFICES ASSUME Init PROVE HistoryInv
  OBVIOUS
<1>1. /\ m_state = <<>> /\ stateHistory = <<>> /\ imuMeasurements = <<>> /\ replay = <<>>
      /\ m_stateTime = 0 /\ appliedIMU = {} /\ frame = 0
      /\ hasPoseEstimate = FALSE /\ everHadPose = FALSE
  BY DEF Init, BodyInit
<1>2. BodyInv
  BY <1>1 DEF BodyInv, StateOf, Ordered, Chronological, NewestIsCurrent
<1>3. Replaying
  BY <1>1 DEF Replaying, MeasurementsInOrder
<1> QED BY <1>1, <1>2, <1>3 DEF HistoryInv, MeasurementsInOrder, hasEverHadPoseEstimate

Inv == TypeOK /\ CalibrationInv /\ HistoryInv

LEMMA InvInit == Init => Inv
BY InitTyped, CalibrationInit0, HistoryInit DEF Inv

LEMMA InvNext == Inv /\ [Next]_vars => Inv'
BY CalibrationNext, NextTyped, HistoryNext DEF Inv, TypeOK

\* The newest snapshot is always of the present state.
THEOREM NewestCurrent == Spec => []NewestIsCurrent
<1>1. Inv => NewestIsCurrent
  BY DEF Inv, HistoryInv, BodyInv
<1> QED BY <1>1, InvInit, InvNext, PTL DEF Spec

\* Whatever is rolled back and replayed, nothing is in the state twice or after
\* something later.
THEOREM InOrder == Spec => []AppliedInOrder
<1>1. Inv => AppliedInOrder
  BY DEF Inv, HistoryInv, BodyInv, StateOf, Ordered, AppliedInOrder
<1> QED BY <1>1, InvInit, InvNext, PTL DEF Spec

-----------------------------------------------------------------------------
(***************************************************************************)
(* Nothing kept is left out, and nothing applied is lost                   *)
(***************************************************************************)
LEMMA HasAppended ==
  ASSUME NEW T, NEW s \in Seq(T), NEW e \in T
  PROVE  /\ Has(Append(s, e), e)
         /\ \A x : Has(s, x) => Has(Append(s, e), x)
<1>1. /\ Len(s) \in Nat /\ DOMAIN s = 1..Len(s) /\ DOMAIN Append(s, e) = 1..(Len(s) + 1)
      /\ \A i \in 1..Len(s) : Append(s, e)[i] = s[i]
      /\ Append(s, e)[Len(s) + 1] = e
  BY Appended
<1>2. Len(s) + 1 \in 1..(Len(s) + 1) /\ \A i \in 1..Len(s) : i \in 1..(Len(s) + 1)
  BY <1>1
<1>3. Has(Append(s, e), e)
  BY <1>1, <1>2 DEF Has
<1>4. ASSUME NEW x, Has(s, x) PROVE Has(Append(s, e), x)
  <2>1. PICK i \in 1..Len(s) : s[i] = x
    BY <1>1, <1>4 DEF Has
  <2>2. Append(s, e)[i] = x /\ i \in DOMAIN Append(s, e)
    BY <1>1, <1>2, <2>1
  <2> QED BY <2>2 DEF Has
<1> QED BY <1>3, <1>4

LEMMA HasHeadOrTail ==
  ASSUME NEW q \in Seq(Events), q # <<>>, NEW x, Has(q, x)
  PROVE  x = Head(q) \/ Has(Tail(q), x)
<1>1. PICK i \in DOMAIN q : q[i] = x
  BY DEF Has
<1>2. CASE i = 1
  BY <1>1, <1>2, HeadAndTail
<1>3. CASE i # 1
  <2>1. Len(q) \in Nat /\ DOMAIN q = 1..Len(q) /\ DOMAIN Tail(q) = 1..(Len(q) - 1)
    BY HeadAndTail
  <2>2. i - 1 \in DOMAIN Tail(q) /\ (i - 1) + 1 = i
    BY <1>3, <2>1
  <2>3. Tail(q)[i - 1] = q[i]
    BY <2>2, HeadAndTail
  <2> QED BY <1>1, <2>2, <2>3 DEF Has
<1> QED BY <1>2, <1>3

LEMMA HasOfPart ==
  ASSUME NEW s, NEW part, NEW n \in Nat, NEW len \in Int, DOMAIN part = 1..len,
         \A i \in 1..len : part[i] = s[n + i] /\ n + i \in DOMAIN s, NEW x, Has(part, x)
  PROVE  Has(s, x)
BY DEF Has

\* A measurement that is applied when it comes in, or else is older than the
\* image the state is of.
LEMMA AppliedOrSeen ==
  ASSUME Inv, Inv', NEW meas \in ImuMeasurements, NEW sign \in Signs, ImuMessage(meas, sign),
         m_calibComplete, ~outOfOrder(meas.time), hasEverHadPoseEstimate
  PROVE  \/ /\ worthApplying(meas.time)
            /\ m_state' = Append(m_state, meas) /\ m_stateTime' = meas.time
            /\ stateHistory' = push_newest(stateHistory, Snapshot(meas.time, Append(m_state, meas)))
            /\ appliedIMU' = appliedIMU \cup {meas}
         \/ /\ UNCHANGED <<m_state, m_stateTime, stateHistory, appliedIMU>>
            /\ \E j \in DOMAIN m_state : m_state[j].kind = "video" /\ m_state[j].time >= meas.time
<1>1. applyIMUMeasurement(meas)
  BY DEF ImuMessage, HandleImu, incorporateNewMeasurementFromIMU
<1>2. CASE worthApplying(meas.time)
  BY <1>1, <1>2 DEF applyIMUMeasurement
<1>3. CASE ~worthApplying(meas.time)
  <2>1. /\ m_state \in States /\ m_stateTime \in Nat /\ meas \in Events /\ meas.time \in Nat
        /\ sent \in Events /\ Before(sent, meas)
    BY FollowsIsBefore DEF ImuMessage, Inv, TypeOK, BodyTypeOK, Events
  <2>2. m_stateTime > meas.time
    BY <1>3, <2>1, NewestIsLast DEF Inv, HistoryInv
  <2>3. m_state # <<>> /\ m_state[Len(m_state)].time = m_stateTime
    BY <2>1, <2>2 DEF Inv, HistoryInv, BodyInv
  <2>4. Len(m_state) \in DOMAIN m_state /\ m_state[Len(m_state)] \in Events
    BY <2>1, <2>3 DEF States
  <2>5. m_state[Len(m_state)].kind = "video"
    <3> SUFFICES ASSUME m_state[Len(m_state)].kind # "video" PROVE FALSE
      OBVIOUS
    <3>1. Sent(m_state[Len(m_state)], sent)
      BY <2>4 DEF Inv, HistoryInv, BodyInv, StateOf
    <3>2. Before(m_state[Len(m_state)], meas)
      BY <2>1, <2>4, <3>1, BeforeIsAnOrder DEF Sent
    <3>3. m_state[Len(m_state)].time <= meas.time
      BY <2>1, <2>4, <3>2, BeforeIsAnOrder
    <3> QED BY <2>1, <2>2, <2>3, <3>3
  <2>6. m_state[Len(m_state)].time >= meas.time
    BY <2>1, <2>2, <2>3
  <2> QED BY <1>1, <1>3, <2>4, <2>5, <2>6 DEF applyIMUMeasurement
<1> QED BY <1>2, <1>3

LEMMA VideoStays ==
  ASSUME NEW state \in States, NEW e \in Events, NEW time,
         \E j \in DOMAIN state : state[j].kind = "video" /\ state[j].time >= time
  PROVE  \E j \in DOMAIN Append(state, e) :
           Append(state, e)[j].kind = "video" /\ Append(state, e)[j].time >= time
<1>1. PICK j \in DOMAIN state : state[j].kind = "video" /\ state[j].time >= time
  OBVIOUS
<1>2. j \in DOMAIN Append(state, e) /\ Append(state, e)[j] = state[j]
  <2>1. /\ Len(state) \in Nat /\ DOMAIN state = 1..Len(state)
        /\ DOMAIN Append(state, e) = 1..(Len(state) + 1)
        /\ \A i \in 1..Len(state) : Append(state, e)[i] = state[i]
    BY Appended DEF States
  <2> QED BY <2>1
<1> QED BY <1>1, <1>2

LEMMA ReplayInvStill ==
  ASSUME ReplayInv, UNCHANGED <<m_state, replay, imuMeasurements>>,
         hasEverHadPoseEstimate' => hasEverHadPoseEstimate
  PROVE  ReplayInv'
BY DEF ReplayInv

LEMMA ImageReplays ==
  ASSUME Inv, Inv', replaceStateSnapshot(frame), UNCHANGED imuMeasurements
  PROVE  /\ ReplayInv'
         /\ \A i \in DOMAIN imuMeasurements :
              imuMeasurements[i].time > frame => Has(replay', imuMeasurements[i])
<1>1. /\ imuMeasurements \in Seq(Events) /\ Timed(imuMeasurements) /\ frame \in Nat
      /\ stateAt(frame) \in States /\ Len(imuMeasurements) \in Nat
      /\ DOMAIN imuMeasurements = 1..Len(imuMeasurements)
  BY HistoriesTimed, StateAtOrBefore DEF Inv, TypeOK
<1> DEFINE image == [kind |-> "video", time |-> frame]
<1>2. image \in Events
  BY <1>1 DEF Events, Kinds
<1>3. m_state' = Append(stateAt(frame), image)
  BY DEF replaceStateSnapshot
<1>4. \E j \in DOMAIN m_state' : m_state'[j].kind = "video" /\ m_state'[j].time = frame
  <2>1. Has(m_state', image)
    BY <1>1, <1>2, <1>3, HasAppended DEF States
  <2> QED BY <2>1 DEF Has
<1>5. PICK k \in 0..Len(imuMeasurements) :
        /\ DOMAIN replay' = 1..(Len(imuMeasurements) - k)
        /\ \A i \in 1..(Len(imuMeasurements) - k) :
             replay'[i] = imuMeasurements[k + i] /\ k + i \in DOMAIN imuMeasurements
        /\ \A i \in 1..k : imuMeasurements[i].time <= frame
  BY <1>1, RangeNewer DEF replaceStateSnapshot, toReplay
<1>6. ASSUME NEW i \in DOMAIN imuMeasurements
      PROVE  imuMeasurements[i].time <= frame \/ Has(replay', imuMeasurements[i])
  <2>1. CASE i <= k
    BY <1>1, <1>5, <2>1
  <2>2. CASE i > k
    <3>1. i - k \in 1..(Len(imuMeasurements) - k) /\ k + (i - k) = i
      BY <1>1, <2>2
    <3> QED BY <1>5, <3>1 DEF Has
  <2> QED BY <1>1, <2>1, <2>2
<1>7. \A i \in DOMAIN imuMeasurements : imuMeasurements[i].time \in Nat
  BY <1>1 DEF Timed
<1>8. ASSUME NEW i \in DOMAIN imuMeasurements', imuMeasurements[i].time <= frame
      PROVE  \E j \in DOMAIN m_state' :
               m_state'[j].kind = "video" /\ m_state'[j].time >= imuMeasurements'[i].time
  BY <1>1, <1>4, <1>7, <1>8
<1>9. ReplayInv'
  BY <1>6, <1>8 DEF ReplayInv
<1> QED BY <1>1, <1>6, <1>7, <1>9

\* Pruning: what is left was there, and what is newer than the image is left.
LEMMA KeptWereThere ==
  ASSUME TypeOK, pruneHistory(lastFrame)
  PROVE  /\ \A i \in DOMAIN imuMeasurements' :
              \E k \in DOMAIN imuMeasurements : imuMeasurements'[i] = imuMeasurements[k]
         /\ \A x : x.time > lastFrame /\ Has(imuMeasurements, x) => Has(imuMeasurements', x)
         /\ \E n \in 0..Len(stateHistory) :
              /\ Len(stateHistory') = Len(stateHistory) - n
              /\ DOMAIN stateHistory' = 1..(Len(stateHistory) - n)
              /\ \A i \in 1..(Len(stateHistory) - n) : stateHistory'[i] = stateHistory[n + i]
              /\ \A i \in 1..n : stateHistory[i].time < lastFrame
<1>1. /\ stateHistory \in Seq(Snapshots) /\ Timed(stateHistory) /\ lastFrame \in Nat
      /\ imuMeasurements \in Seq(Events) /\ Timed(imuMeasurements) /\ m_last \in Nat
      /\ Len(stateHistory) \in Nat /\ DOMAIN stateHistory = 1..Len(stateHistory)
      /\ Len(imuMeasurements) \in Nat /\ DOMAIN imuMeasurements = 1..Len(imuMeasurements)
  BY HistoriesTimed DEF TypeOK, BodyTypeOK
<1>2. CASE stateHistory = <<>>
  <2>1. UNCHANGED <<stateHistory, imuMeasurements>>
    BY <1>2 DEF pruneHistory
  <2>2. /\ 0 \in 0..Len(stateHistory) /\ Len(stateHistory) - 0 = Len(stateHistory)
        /\ \A i \in 1..Len(stateHistory) : 0 + i = i
        /\ \A i \in 1..0 : stateHistory[i].time < lastFrame
    BY <1>1
  <2>3. /\ Len(stateHistory') = Len(stateHistory) - 0
        /\ DOMAIN stateHistory' = 1..(Len(stateHistory) - 0)
        /\ \A i \in 1..(Len(stateHistory) - 0) : stateHistory'[i] = stateHistory[0 + i]
    BY <1>1, <2>1, <2>2
  <2> QED BY <2>1, <2>2, <2>3
<1>3. CASE stateHistory # <<>>
  <2> DEFINE oldest == neverToEmpty(getOldestPossibleMeasurementSource(lastFrame))
  <2>1. newest_timestamp(stateHistory) \in Nat
    <3>1. Len(stateHistory) \in DOMAIN stateHistory
      BY <1>1, <1>3
    <3> QED BY <1>1, <3>1 DEF newest_timestamp, Timed
  <2>2. oldest \in Nat /\ oldest <= lastFrame
    BY <1>1, <2>1 DEF neverToEmpty, getOldestPossibleMeasurementSource, Min2
  <2>3. stateHistory' = pop_before(stateHistory, oldest)
        /\ imuMeasurements' = pop_before(imuMeasurements, oldest)
    BY <1>3 DEF pruneHistory
  <2> HIDE DEF oldest
  <2>4. \E n \in 0..Len(stateHistory) :
          LET kept == pop_before(stateHistory, oldest) IN
          /\ Len(kept) = Len(stateHistory) - n
          /\ DOMAIN kept = 1..(Len(stateHistory) - n)
          /\ \A i \in 1..(Len(stateHistory) - n) : kept[i] = stateHistory[n + i]
          /\ \A i \in 1..n : stateHistory[i].time < lastFrame
    <3>1. PICK n \in 0..Len(stateHistory) :
            LET kept == pop_before(stateHistory, oldest) IN
            /\ kept \in Seq(Snapshots) /\ Len(kept) = Len(stateHistory) - n
            /\ DOMAIN kept = 1..(Len(stateHistory) - n)
            /\ \A i \in 1..(Len(stateHistory) - n) :
                 kept[i] = stateHistory[n + i] /\ n + i \in DOMAIN stateHistory
            /\ \A i \in 1..n : stateHistory[i].time < oldest
            /\ stateHistory # <<>> /\ stateHistory[Len(stateHistory)].time >= oldest
                 => n < Len(stateHistory)
      BY <1>1, <2>2, PopBefore
    <3>2. \A i \in 1..n : stateHistory[i].time < lastFrame
      <4>1. ASSUME NEW i \in 1..n PROVE stateHistory[i].time < lastFrame
        <5>1. i \in DOMAIN stateHistory
          BY <1>1
        <5>2. stateHistory[i].time < oldest /\ stateHistory[i].time \in Nat
          BY <1>1, <3>1, <5>1 DEF Timed
        <5> QED BY <1>1, <2>2, <5>2
      <4> QED BY <4>1
    <3> QED BY <3>1, <3>2
  <2>5. \E k \in 0..Len(imuMeasurements) :
          LET kept == pop_before(imuMeasurements, oldest) IN
          /\ DOMAIN kept = 1..(Len(imuMeasurements) - k)
          /\ \A i \in 1..(Len(imuMeasurements) - k) :
               kept[i] = imuMeasurements[k + i] /\ k + i \in DOMAIN imuMeasurements
          /\ \A i \in 1..k : imuMeasurements[i].time < oldest
    BY <1>1, <2>2, PopBefore
  <2>6. PICK k \in 0..Len(imuMeasurements) :
          /\ DOMAIN imuMeasurements' = 1..(Len(imuMeasurements) - k)
          /\ \A i \in 1..(Len(imuMeasurements) - k) :
               imuMeasurements'[i] = imuMeasurements[k + i] /\ k + i \in DOMAIN imuMeasurements
          /\ \A i \in 1..k : imuMeasurements[i].time < oldest
    BY <2>3, <2>5
  <2>7. ASSUME NEW x, x.time > lastFrame, Has(imuMeasurements, x) PROVE Has(imuMeasurements', x)
    <3>1. PICK i \in DOMAIN imuMeasurements : imuMeasurements[i] = x
      BY <2>7 DEF Has
    <3>2. x.time \in Nat
      BY <1>1, <3>1 DEF Timed
    <3>3. i > k
      <4>1. i \in Nat /\ 1 <= i /\ k \in Nat
        BY <1>1
      <4>2. ~(i \in 1..k)
        <5>1. i \in 1..k => imuMeasurements[i].time < oldest
          BY <2>6
        <5>2. ~(x.time < oldest)
          BY <1>1, <2>2, <2>7, <3>2
        <5> QED BY <3>1, <5>1, <5>2
      <4> QED BY <4>1, <4>2
    <3>4. i - k \in 1..(Len(imuMeasurements) - k) /\ k + (i - k) = i
      BY <1>1, <3>3
    <3> QED BY <2>6, <3>1, <3>4 DEF Has
  <2> QED BY <2>3, <2>4, <2>6, <2>7
<1> QED BY <1>2, <1>3

\* One measurement replayed: it is in the state, the others still are to be.
LEMMA ReplayedOrToReplay ==
  ASSUME Inv, replay # <<>>, m_state' = Append(m_state, Head(replay)), replay' = Tail(replay),
         NEW x, Has(m_state, x) \/ Has(replay, x)
  PROVE  Has(m_state', x) \/ Has(replay', x)
<1>1. replay \in Seq(Events) /\ m_state \in Seq(Events) /\ Head(replay) \in Events
  BY HeadAndTail DEF Inv, TypeOK, BodyTypeOK, States
<1> QED BY <1>1, HasAppended, HasHeadOrTail

LEMMA ReplayInvNext == Inv /\ Inv' /\ ReplayInv /\ [Next]_vars => ReplayInv'
<1> SUFFICES ASSUME Inv, Inv', ReplayInv, [Next]_vars PROVE ReplayInv'
  OBVIOUS
<1>0. m_state \in States /\ m_state \in Seq(Events) /\ imuMeasurements \in Seq(Events)
      /\ replay \in Seq(Events)
  BY DEF Inv, TypeOK, BodyTypeOK, States
<1>1. CASE UNCHANGED bodyVars
  BY <1>1, ReplayInvStill DEF bodyVars, hasEverHadPoseEstimate
<1>2. CASE Replay /\ replay # <<>>
  <2>1. /\ ReplayOne
        /\ UNCHANGED <<imuMeasurements, hasPoseEstimate, everHadPose, lastFrame, sent, frame>>
    BY <1>2 DEF Replay, ReplayOne
  <2>2. m_state' = Append(m_state, Head(replay)) /\ replay' = Tail(replay)
    BY <1>2, <2>1, ReplayKeepsOrder DEF Inv, ReplayOne
  <2>3. Head(replay) \in Events
    BY <1>0, <1>2, HeadAndTail
  <2>4. ASSUME hasEverHadPoseEstimate, NEW i \in DOMAIN imuMeasurements
        PROVE  \/ Has(m_state', imuMeasurements[i]) \/ Has(replay', imuMeasurements[i])
               \/ \E j \in DOMAIN m_state' :
                    m_state'[j].kind = "video" /\ m_state'[j].time >= imuMeasurements[i].time
    <3>1. CASE Has(m_state, imuMeasurements[i]) \/ Has(replay, imuMeasurements[i])
      BY <1>2, <2>2, <3>1, ReplayedOrToReplay
    <3>2. CASE \E j \in DOMAIN m_state :
                 m_state[j].kind = "video" /\ m_state[j].time >= imuMeasurements[i].time
      BY <1>0, <2>2, <2>3, <3>2, VideoStays
    <3> QED BY <2>4, <3>1, <3>2 DEF ReplayInv
  <2> QED BY <2>1, <2>4 DEF ReplayInv, hasEverHadPoseEstimate
<1>3. CASE Prune
  <2>1. UNCHANGED <<m_state, replay, hasPoseEstimate, everHadPose>>
    BY <1>3 DEF Prune
  <2>2. \A i \in DOMAIN imuMeasurements' :
          \E k \in DOMAIN imuMeasurements : imuMeasurements'[i] = imuMeasurements[k]
    BY <1>3, KeptWereThere DEF Prune, Inv
  <2> QED BY <2>1, <2>2 DEF ReplayInv, hasEverHadPoseEstimate
<1>4. ASSUME NEW meas \in ImuMeasurements, NEW sign \in Signs, ImuMessage(meas, sign)
      PROVE  ReplayInv'
  <2>1. CASE ~m_calibComplete \/ outOfOrder(meas.time)
    BY <1>4, <2>1, ReplayInvStill DEF ImuMessage, HandleImu, bodyVars, hasEverHadPoseEstimate
  <2>2. CASE m_calibComplete /\ ~outOfOrder(meas.time)
    <3>1. /\ imuMeasurements' = Append(imuMeasurements, meas) /\ replay' = replay
          /\ hasEverHadPoseEstimate' = hasEverHadPoseEstimate
      BY <1>4, <2>2 DEF ImuMessage, HandleImu, incorporateNewMeasurementFromIMU, push_newest,
        hasEverHadPoseEstimate
    <3>2. meas \in Events /\ meas.time \in Nat
      BY ImuAreEvents DEF Events
    <3> SUFFICES ASSUME hasEverHadPoseEstimate, NEW i \in DOMAIN imuMeasurements'
                 PROVE  \/ Has(m_state', imuMeasurements'[i]) \/ Has(replay', imuMeasurements'[i])
                        \/ \E j \in DOMAIN m_state' :
                             /\ m_state'[j].kind = "video"
                             /\ m_state'[j].time >= imuMeasurements'[i].time
      BY <3>1 DEF ReplayInv
    <3>3. \/ m_state' = Append(m_state, meas)
          \/ /\ m_state' = m_state
             /\ \E j \in DOMAIN m_state : m_state[j].kind = "video" /\ m_state[j].time >= meas.time
      BY <1>4, <2>2, AppliedOrSeen
    <3>4. \/ imuMeasurements'[i] = meas
          \/ i \in DOMAIN imuMeasurements /\ imuMeasurements'[i] = imuMeasurements[i]
      <4>1. /\ Len(imuMeasurements) \in Nat /\ DOMAIN imuMeasurements = 1..Len(imuMeasurements)
            /\ DOMAIN imuMeasurements' = 1..(Len(imuMeasurements) + 1)
            /\ \A k \in 1..Len(imuMeasurements) : imuMeasurements'[k] = imuMeasurements[k]
            /\ imuMeasurements'[Len(imuMeasurements) + 1] = meas
        BY <1>0, <3>1, <3>2, Appended
      <4>2. i \in 1..Len(imuMeasurements) \/ i = Len(imuMeasurements) + 1
        BY <4>1
      <4>3. CASE i \in 1..Len(imuMeasurements)
        BY <4>1, <4>3
      <4>4. CASE i = Len(imuMeasurements) + 1
        <5>1. imuMeasurements'[Len(imuMeasurements) + 1] = meas
          BY <4>1
        <5> QED BY <4>4, <5>1
      <4> QED BY <4>2, <4>3, <4>4
    <3>5. CASE imuMeasurements'[i] = meas
      <4>1. CASE m_state' = Append(m_state, meas)
        <5>1. Has(Append(m_state, meas), meas)
          BY <1>0, <3>2, HasAppended
        <5> QED BY <3>5, <4>1, <5>1
      <4>2. CASE /\ m_state' = m_state
                 /\ \E j \in DOMAIN m_state :
                      m_state[j].kind = "video" /\ m_state[j].time >= meas.time
        BY <3>5, <4>2
      <4> QED BY <3>3, <4>1, <4>2
    <3>6. CASE i \in DOMAIN imuMeasurements /\ imuMeasurements'[i] = imuMeasurements[i]
      <4>1. \/ Has(m_state, imuMeasurements[i]) \/ Has(replay, imuMeasurements[i])
            \/ \E j \in DOMAIN m_state :
                 m_state[j].kind = "video" /\ m_state[j].time >= imuMeasurements[i].time
        BY <3>6 DEF ReplayInv
      <4>2. CASE m_state' = Append(m_state, meas)
        BY <1>0, <3>1, <3>2, <3>6, <4>1, <4>2, HasAppended, VideoStays
      <4>3. CASE m_state' = m_state
        BY <3>1, <3>6, <4>1, <4>3
      <4> QED BY <3>3, <4>2, <4>3
    <3> QED BY <3>4, <3>5, <3>6
  <2> QED BY <2>1, <2>2
<1>5. ASSUME NEW meas \in ImuMeasurements, NEW sign \in Signs, ImuOutOfOrder(meas, sign)
      PROVE  ReplayInv'
  BY <1>5, ReplayInvStill DEF ImuOutOfOrder, HandleImu, hasEverHadPoseEstimate
<1>6. ASSUME NEW outcome \in {"noLeds", "noPose", "pose"}, updatePoseEstimates(outcome)
      PROVE  ReplayInv'
  <2>1. CASE outcome = "pose"
    BY <1>6, <2>1, ImageReplays DEF updatePoseEstimates
  <2>2. CASE outcome # "pose"
    <3>1. hasPoseEstimate' = IF outcome = "noLeds" THEN hasPoseEstimate ELSE outcome = "pose"
      BY <1>6 DEF updatePoseEstimates
    <3>2. hasPoseEstimate' => hasPoseEstimate
      BY <2>2, <3>1
    <3>3. hasEverHadPoseEstimate' => hasEverHadPoseEstimate
      BY <1>6, <3>2 DEF updatePoseEstimates, hasEverHadPoseEstimate
    <3> QED BY <1>6, <2>2, <3>3, ReplayInvStill DEF updatePoseEstimates
  <2> QED BY <2>1, <2>2
<1>7. \/ UNCHANGED bodyVars \/ (Replay /\ replay # <<>>) \/ Prune
      \/ \E meas \in ImuMeasurements, sign \in Signs :
           ImuMessage(meas, sign) \/ ImuOutOfOrder(meas, sign)
      \/ \E outcome \in {"noLeds", "noPose", "pose"} : updatePoseEstimates(outcome)
  <2>1. Tick \/ Grab \/ DropFrame \/ UNCHANGED vars => UNCHANGED bodyVars
    BY DEF vars, Tick, Grab, DropFrame
  <2>2. Replay => UNCHANGED bodyVars \/ (Replay /\ replay # <<>>)
    <3>1. CASE replay # <<>>
      BY <3>1
    <3>2. CASE replay = <<>>
      BY <3>2 DEF Replay
    <3> QED BY <3>1, <3>2
  <2>3. ASSUME NEW pose, CalibrationFrame(pose) PROVE UNCHANGED bodyVars
    BY <2>3 DEF CalibrationFrame, bodyVars
  <2> QED BY <2>1, <2>2, <2>3 DEF Next
<1> QED BY <1>1, <1>2, <1>3, <1>4, <1>5, <1>6, <1>7

\* Whenever the thread is idle, the state has all measurements kept that are
\* newer than its last image.
THEOREM NothingLeftOut == Spec => []ReplayComplete
<1>1. Inv /\ ReplayInv => ReplayComplete
  <2> SUFFICES ASSUME Inv, ReplayInv, pc = "idle", hasEverHadPoseEstimate,
                      NEW i \in DOMAIN imuMeasurements,
                      \A j \in DOMAIN m_state :
                        m_state[j].kind = "video" => m_state[j].time < imuMeasurements[i].time
               PROVE  Has(m_state, imuMeasurements[i])
    BY DEF ReplayComplete, Has
  <2>1. replay = <<>> /\ imuMeasurements[i].time \in Nat
    BY HistoriesTimed DEF Inv, TypeOK, HistoryInv, Timed
  <2>2. ~Has(replay, imuMeasurements[i])
    BY <2>1 DEF Has
  <2>3. \A j \in DOMAIN m_state : m_state[j].time \in Nat
    <3>1. \A j \in DOMAIN m_state : m_state[j] \in Events
      BY DEF Inv, TypeOK, BodyTypeOK, States
    <3> QED BY <3>1 DEF Events
  <2> QED BY <2>1, <2>2, <2>3 DEF ReplayInv
<1>2. Init => ReplayInv
  BY DEF Init, BodyInit, ReplayInv
<1> QED BY <1>1, <1>2, InvInit, InvNext, ReplayInvNext, PTL DEF Spec

LEMMA BelowLast ==
  ASSUME NEW last \in Nat, NEW i \in 1..last, i # last
  PROVE  i \in 1..(last - 1) /\ i + 1 \in 1..last /\ i < last
OBVIOUS

LEMMA KeptStill ==
  ASSUME TypeOK, TypeOK', KeptInv, UNCHANGED <<m_state, replay, stateHistory, appliedIMU>>,
         lastFrame <= lastFrame', \A x : Has(imuMeasurements, x) => Has(imuMeasurements', x)
  PROVE  KeptInv'
<1>1. ASSUME NEW meas \in appliedIMU, meas.time > lastFrame' PROVE Has(imuMeasurements', meas)
  <2>1. meas.time \in Nat /\ lastFrame \in Nat /\ lastFrame' \in Nat
    BY DEF TypeOK, BodyTypeOK, Events
  <2>2. meas.time > lastFrame
    BY <1>1, <2>1
  <2> QED BY <2>2 DEF KeptInv
<1> QED BY <1>1 DEF KeptInv

\* A measurement applied: the snapshot before the new one has all the others,
\* but for those still to be replayed, which are later.
LEMMA ApplyKeepsKept ==
  ASSUME Inv, Inv', KeptInv, NEW meas \in Events, m_stateTime <= meas.time,
         m_state' = Append(m_state, meas), appliedIMU' = appliedIMU \cup {meas},
         stateHistory' = push_newest(stateHistory, Snapshot(meas.time, Append(m_state, meas))),
         lastFrame' = lastFrame, Has(imuMeasurements', meas),
         \A x : Has(imuMeasurements, x) => Has(imuMeasurements', x),
         \A x : Has(replay, x) => x = meas \/ (Has(replay', x) /\ meas.time <= x.time)
  PROVE  KeptInv'
<1>1. /\ m_state \in Seq(Events) /\ stateHistory \in Seq(Snapshots) /\ Timed(stateHistory)
      /\ m_stateTime \in Nat /\ meas.time \in Nat /\ Len(stateHistory) \in Nat
      /\ DOMAIN stateHistory = 1..Len(stateHistory)
  BY HistoriesTimed DEF Inv, TypeOK, BodyTypeOK, States, Events
<1>2. Snapshot(meas.time, Append(m_state, meas)) \in Snapshots
  BY <1>1 DEF Snapshot, Snapshots, States
<1>3. /\ Len(stateHistory') = Len(stateHistory) + 1
      /\ \A i \in 1..Len(stateHistory) : stateHistory'[i] = stateHistory[i]
      /\ stateHistory'[Len(stateHistory) + 1].time = meas.time
  BY <1>1, <1>2, Appended DEF push_newest, Snapshot
<1>4. Has(m_state', meas) /\ \A x : Has(m_state, x) => Has(m_state', x)
  BY <1>1, HasAppended
<1>5. ASSUME NEW x \in appliedIMU'
      PROVE  /\ Has(m_state', x) \/ Has(replay', x)
             /\ x.time > lastFrame => Has(imuMeasurements', x)
  BY <1>4, <1>5 DEF KeptInv
<1>6. ASSUME NEW x \in appliedIMU', NEW i \in 1..(Len(stateHistory') - 1)
      PROVE  Has(stateHistory'[i].state, x) \/ x.time >= stateHistory'[i + 1].time
  <2>1. i \in 1..Len(stateHistory) /\ stateHistory'[i] = stateHistory[i]
    BY <1>1, <1>3
  <2>2. CASE i = Len(stateHistory)
    <3>1. stateHistory'[i + 1].time = meas.time /\ stateHistory'[i].state = m_state
      <4>1. stateHistory # <<>>
        BY <1>1, <2>1
      <4> QED BY <1>3, <2>1, <2>2, <4>1 DEF Inv, HistoryInv, BodyInv, NewestIsCurrent, Snapshot
    <3>2. x = meas \/ Has(m_state, x) \/ Has(replay, x)
      BY DEF KeptInv
    <3>3. CASE x = meas
      BY <1>1, <3>1, <3>3
    <3>4. CASE Has(m_state, x)
      BY <3>1, <3>4
    <3>5. CASE Has(replay, x) /\ x # meas
      <4>1. meas.time <= x.time
        BY <3>5
      <4>2. x.time \in Nat
        BY DEF Inv, TypeOK, BodyTypeOK, Events
      <4> QED BY <1>1, <3>1, <4>1, <4>2
    <3> QED BY <3>2, <3>3, <3>4, <3>5
  <2>3. CASE i # Len(stateHistory)
    <3>1. i \in 1..(Len(stateHistory) - 1) /\ i + 1 \in 1..Len(stateHistory)
      BY <1>1, <2>1, <2>3, BelowLast
    <3>2. stateHistory'[i + 1] = stateHistory[i + 1]
      BY <1>3, <3>1
    <3>3. CASE x \in appliedIMU
      BY <2>1, <3>1, <3>2, <3>3 DEF KeptInv
    <3>4. CASE x = meas
      <4>1. stateHistory[i + 1].time <= m_stateTime /\ stateHistory[i + 1].time \in Nat
        BY <1>1, <3>1, NewestIsLast DEF Inv, HistoryInv, Timed
      <4> QED BY <1>1, <3>2, <3>4, <4>1
    <3> QED BY <3>3, <3>4
  <2> QED BY <2>2, <2>3
<1> QED BY <1>5, <1>6 DEF KeptInv

LEMMA KeptUpToBase ==
  ASSUME Inv, NEW b \in 1..Len(stateHistory), NEW time \in Nat, stateHistory[b].time <= time,
         NEW i \in 1..b
  PROVE  stateHistory[i].time <= time
<1>1. /\ Timed(stateHistory) /\ Len(stateHistory) \in Nat
      /\ DOMAIN stateHistory = 1..Len(stateHistory)
  BY HistoriesTimed DEF Inv, TypeOK
<1>2. i \in DOMAIN stateHistory /\ b \in DOMAIN stateHistory
  BY <1>1
<1>3. i = b \/ i < b
  BY <1>1
<1>4. stateHistory[i].time <= stateHistory[b].time
  BY <1>1, <1>2, <1>3 DEF Timed, Inv, HistoryInv, BodyInv, Chronological
<1> QED BY <1>1, <1>2, <1>4 DEF Timed

\* What replaceStateSnapshot leaves of the snapshots: those up to the one gone
\* back to, and one of the image.
LEMMA RolledBack ==
  ASSUME Inv, frame # 0, validState(frame), replaceStateSnapshot(frame)
  PROVE  LET kept == withoutInvalidated(frame)
             newState == Append(stateAt(frame), [kind |-> "video", time |-> frame])
         IN
         /\ base(frame) \in 1..Len(stateHistory)
         /\ kept \in Seq(Snapshots) /\ Len(kept) = base(frame)
         /\ \A i \in 1..base(frame) : kept[i] = stateHistory[i]
         /\ m_state' = newState
         /\ stateHistory' = push_newest(kept, Snapshot(frame, newState))
<1> DEFINE b == base(frame)
           newState == Append(stateAt(frame), [kind |-> "video", time |-> frame])
           kept == withoutInvalidated(frame)
<1>1. /\ stateHistory \in Seq(Snapshots) /\ Timed(stateHistory) /\ BodyTypeOK
      /\ Len(stateHistory) \in Nat /\ DOMAIN stateHistory = 1..Len(stateHistory)
      /\ frame \in Nat
  BY HistoriesTimed DEF Inv, TypeOK
<1>2. /\ b \in 1..Len(stateHistory) /\ b + 1 = upper_bound(stateHistory, frame)
      /\ stateTime(frame) = stateHistory[b].time
      /\ stateTime(frame) \in Nat /\ stateTime(frame) <= frame
  BY <1>1, StateAtOrBefore
<1>3. b < Len(stateHistory) => b + 1 \in DOMAIN stateHistory /\ stateHistory[b + 1].time > frame
  <2>1. b + 1 <= Len(stateHistory) => stateHistory[b + 1].time > frame
    BY <1>1, <1>2, UpperBound
  <2> HIDE DEF b
  <2> QED BY <1>1, <1>2, <2>1
<1> HIDE DEF b
<1>4. /\ kept \in Seq(Snapshots) /\ Len(kept) = b
      /\ \A i \in 1..b : kept[i] = stateHistory[i]
  <2> DEFINE n == upper_bound(stateHistory, stateTime(frame)) - 1
  <2>1. /\ kept \in Seq(Snapshots) /\ n \in 0..Len(stateHistory) /\ Len(kept) = n
        /\ \A i \in 1..n : kept[i] = stateHistory[i] /\ stateHistory[i].time <= stateTime(frame)
    BY <1>1, <1>2, PopAfter DEF withoutInvalidated
  <2>2. n + 1 <= Len(stateHistory) => stateHistory[n + 1].time > stateTime(frame)
    <3> DEFINE ub == upper_bound(stateHistory, stateTime(frame))
    <3>1. ub \in 1..(Len(stateHistory) + 1)
          /\ (ub <= Len(stateHistory) => stateHistory[ub].time > stateTime(frame))
      BY <1>1, <1>2, UpperBound
    <3> HIDE DEF ub
    <3>2. n + 1 = ub
      BY <1>1, <3>1 DEF ub
    <3> QED BY <3>1, <3>2
  <2> HIDE DEF n, kept
  <2>3. ~(n < b)
    <3> SUFFICES ASSUME n < b PROVE FALSE
      OBVIOUS
    <3>1. n + 1 \in DOMAIN stateHistory /\ n + 1 <= b /\ n + 1 <= Len(stateHistory)
      BY <1>1, <1>2, <2>1
    <3>2. stateHistory[n + 1].time <= stateHistory[b].time
      <4>1. CASE n + 1 = b
        BY <1>1, <3>1, <4>1 DEF Timed
      <4>2. CASE n + 1 < b
        BY <1>1, <1>2, <3>1, <4>2 DEF Inv, HistoryInv, BodyInv, Chronological
      <4> QED BY <1>1, <1>2, <3>1, <4>1, <4>2
    <3> QED BY <1>1, <1>2, <2>2, <3>1, <3>2 DEF Timed
  <2>4. ~(b < n)
    <3> SUFFICES ASSUME b < n PROVE FALSE
      OBVIOUS
    <3>1. b + 1 \in 1..n /\ b < Len(stateHistory)
      BY <1>1, <1>2, <2>1
    <3>2. stateHistory[b + 1].time <= stateTime(frame) /\ stateHistory[b + 1].time > frame
          /\ stateHistory[b + 1].time \in Nat
      BY <1>1, <1>3, <2>1, <3>1 DEF Timed
    <3> QED BY <1>1, <1>2, <3>2
  <2>5. n = b
    BY <1>1, <1>2, <2>1, <2>3, <2>4
  <2> QED BY <2>1, <2>5
<1>5. /\ m_state' = newState
      /\ stateHistory' = push_newest(kept, Snapshot(frame, newState))
  <2>1. \A i \in DOMAIN kept : kept[i].time <= frame
    <3> HIDE DEF kept
    <3>1. DOMAIN kept = 1..b
      BY <1>4
    <3> QED BY <1>1, <1>2, <1>4, <3>1, KeptUpToBase
  <2>2. is_valid_to_push_newest(kept, frame)
    <3> HIDE DEF kept
    <3>1. Len(kept) \in DOMAIN kept
      BY <1>1, <1>2, <1>4
    <3>2. kept[Len(kept)].time \in Nat
      <4>1. kept[Len(kept)] \in Snapshots
        BY <1>4, <3>1
      <4> QED BY <4>1 DEF Snapshots
    <3> QED BY <1>1, <2>1, <3>1, <3>2 DEF is_valid_to_push_newest, newest_timestamp
  <2> QED BY <2>2 DEF replaceStateSnapshot
<1> HIDE DEF kept, newState
<1>6. b \in 1..Len(stateHistory)
  BY <1>2
<1> QED BY <1>4, <1>5, <1>6 DEF b, kept, newState

\* An image that finds a snapshot to start from: what that snapshot does not have
\* is newer than the image, and still there to be replayed.
LEMMA ImageKeepsKept ==
  ASSUME Inv, Inv', KeptInv, frame # 0, replay = <<>>, validState(frame),
         replaceStateSnapshot(frame), lastFrame' = frame, UNCHANGED <<imuMeasurements, appliedIMU>>
  PROVE  KeptInv'
<1> DEFINE b == base(frame)
           image == [kind |-> "video", time |-> frame]
           newState == Append(stateAt(frame), image)
           kept == withoutInvalidated(frame)
<1>1. /\ stateHistory \in Seq(Snapshots) /\ Timed(stateHistory) /\ BodyTypeOK
      /\ Len(stateHistory) \in Nat /\ DOMAIN stateHistory = 1..Len(stateHistory)
      /\ frame \in Nat /\ lastFrame \in Nat /\ frame > lastFrame
  BY HistoriesTimed DEF Inv, TypeOK, HistoryInv
<1>2. /\ b \in 1..Len(stateHistory) /\ b + 1 = upper_bound(stateHistory, frame)
      /\ stateTime(frame) = stateHistory[b].time /\ stateAt(frame) = stateHistory[b].state
      /\ stateTime(frame) \in Nat /\ stateTime(frame) <= frame /\ stateAt(frame) \in Seq(Events)
  BY <1>1, StateAtOrBefore DEF States
<1> HIDE DEF b
<1>3. b < Len(stateHistory) => b + 1 \in DOMAIN stateHistory /\ stateHistory[b + 1].time > frame
  <2>1. b + 1 <= Len(stateHistory) => stateHistory[b + 1].time > frame
    BY <1>1, <1>2, UpperBound
  <2> QED BY <1>1, <1>2, <2>1
<1>4. /\ kept \in Seq(Snapshots) /\ Len(kept) = b
      /\ \A i \in 1..b : kept[i] = stateHistory[i]
      /\ m_state' = newState
      /\ stateHistory' = push_newest(kept, Snapshot(frame, newState))
  BY <1>1, RolledBack DEF b
<1> HIDE DEF kept
<1>6. image \in Events /\ newState \in States
  <2>1. image \in Events
    BY <1>1 DEF Events, Kinds
  <2> QED BY <1>2, <2>1 DEF States
<1>7. \A x : Has(stateHistory[b].state, x) => Has(m_state', x)
  <2> HIDE DEF image
  <2> QED BY <1>2, <1>4, <1>6, HasAppended
<1> HIDE DEF newState
<1>8. /\ Len(stateHistory') = b + 1
      /\ \A i \in 1..b : stateHistory'[i] = stateHistory[i]
      /\ stateHistory'[b + 1].time = frame
  <2>1. Snapshot(frame, newState) \in Snapshots
    BY <1>1, <1>6 DEF Snapshot, Snapshots
  <2> QED BY <1>4, <2>1, Appended DEF push_newest, Snapshot
\* The measurements that snapshot b does not have.
<1>9. ASSUME NEW x \in appliedIMU
      PROVE  Has(stateHistory[b].state, x) \/ (x.time > frame /\ Has(imuMeasurements, x))
  <2>1. x.time \in Nat
    BY DEF Inv, TypeOK, BodyTypeOK, Events
  <2>2. CASE b = Len(stateHistory)
    <3>1. stateHistory[b].state = m_state
      <4>1. stateHistory # <<>>
        BY <1>1, <1>2
      <4> QED BY <2>2, <4>1 DEF Inv, HistoryInv, BodyInv, NewestIsCurrent, Snapshot
    <3>2. ~Has(replay, x)
      BY DEF Has
    <3> QED BY <3>1, <3>2 DEF KeptInv
  <2>3. CASE b # Len(stateHistory)
    <3>1. b \in 1..(Len(stateHistory) - 1) /\ stateHistory[b + 1].time > frame
          /\ stateHistory[b + 1].time \in Nat
      <4>1. b \in 1..(Len(stateHistory) - 1) /\ b < Len(stateHistory)
        BY <1>1, <1>2, <2>3, BelowLast
      <4> QED BY <1>1, <1>3, <4>1 DEF Timed
    <3>2. Has(stateHistory[b].state, x) \/ x.time >= stateHistory[b + 1].time
      BY <3>1 DEF KeptInv
    <3>3. x.time >= stateHistory[b + 1].time => x.time > frame /\ x.time > lastFrame
      BY <1>1, <2>1, <3>1
    <3> QED BY <3>2, <3>3 DEF KeptInv
  <2> QED BY <2>2, <2>3
<1>10. ASSUME NEW x \in appliedIMU' PROVE Has(m_state', x) \/ Has(replay', x)
  <2>1. CASE Has(stateHistory[b].state, x)
    BY <1>7, <2>1
  <2>2. CASE x.time > frame /\ Has(imuMeasurements, x)
    BY <2>2, ImageReplays DEF Has
  <2> QED BY <1>9, <2>1, <2>2
<1>11. ASSUME NEW x \in appliedIMU', NEW i \in 1..(Len(stateHistory') - 1)
       PROVE  Has(stateHistory'[i].state, x) \/ x.time >= stateHistory'[i + 1].time
  <2>1. i \in 1..b /\ x \in appliedIMU /\ b \in Nat
    BY <1>2, <1>8
  <2>2. CASE i = b
    <3>1. x.time > frame => x.time >= frame
      BY <1>1, <2>1 DEF Inv, TypeOK, BodyTypeOK, Events
    <3> QED BY <1>8, <1>9, <2>1, <2>2, <3>1
  <2>3. CASE i # b
    <3>1. i \in 1..(Len(stateHistory) - 1) /\ i + 1 \in 1..b
      BY <1>1, <1>2, <2>1, <2>3
    <3> QED BY <1>8, <2>1, <3>1 DEF KeptInv
  <2> QED BY <2>2, <2>3
<1>12. ASSUME NEW x \in appliedIMU', x.time > lastFrame' PROVE Has(imuMeasurements', x)
  <2>1. x.time > lastFrame
    BY <1>1, <1>12 DEF Inv, TypeOK, BodyTypeOK, Events
  <2> QED BY <2>1 DEF KeptInv
<1> QED BY <1>10, <1>11, <1>12 DEF KeptInv

LEMMA KeptNext == Inv /\ Inv' /\ KeptInv /\ BaseFound /\ [Next]_vars => KeptInv'
<1> SUFFICES ASSUME Inv, Inv', KeptInv, BaseFound, [Next]_vars PROVE KeptInv'
  OBVIOUS
<1>0. /\ m_state \in Seq(Events) /\ imuMeasurements \in Seq(Events) /\ replay \in Seq(Events)
      /\ TypeOK /\ TypeOK' /\ lastFrame \in Nat /\ frame \in Nat
  BY DEF Inv, TypeOK, BodyTypeOK, States
<1>1. CASE UNCHANGED bodyVars /\ lastFrame <= lastFrame'
  BY <1>0, <1>1, KeptStill DEF bodyVars
<1>2. CASE Replay /\ replay # <<>>
  <2>1. ReplayOne /\ UNCHANGED <<imuMeasurements, lastFrame, sent, frame>>
    BY <1>2 DEF Replay, ReplayOne
  <2>2. /\ m_state' = Append(m_state, Head(replay)) /\ m_stateTime' = Head(replay).time
        /\ stateHistory' = push_newest(stateHistory, Snapshot(m_stateTime', m_state'))
        /\ appliedIMU' = appliedIMU \cup {Head(replay)} /\ replay' = Tail(replay)
    BY <1>2, <2>1, ReplayKeepsOrder DEF Inv, ReplayOne
  <2>3. Head(replay) \in Events /\ Head(replay) = replay[1] /\ 1 \in DOMAIN replay
    BY <1>0, <1>2, HeadAndTail
  <2>4. m_stateTime <= Head(replay).time /\ Has(imuMeasurements, Head(replay))
    BY <2>3 DEF Inv, HistoryInv, Replaying
  <2>5. ASSUME NEW x, Has(replay, x), x # Head(replay)
        PROVE  Has(replay', x) /\ Head(replay).time <= x.time
    <3>1. PICK i \in DOMAIN replay : replay[i] = x
      BY <2>5 DEF Has
    <3>2. 1 < i
      BY <1>0, <2>3, <2>5, <3>1
    <3>3. Before(Head(replay), x)
      BY <2>3, <3>1, <3>2 DEF Inv, HistoryInv, Replaying, MeasurementsInOrder
    <3>4. x \in Events
      BY <1>0, <3>1
    <3> QED BY <1>0, <1>2, <2>2, <2>3, <2>5, <3>3, <3>4, HasHeadOrTail, BeforeIsAnOrder
  <2>6. stateHistory' =
          push_newest(stateHistory, Snapshot(Head(replay).time, Append(m_state, Head(replay))))
    BY <2>2
  <2> QED BY <2>1, <2>2, <2>3, <2>4, <2>5, <2>6, ApplyKeepsKept
<1>3. CASE Prune
  <2>1. /\ UNCHANGED <<m_state, replay, appliedIMU, lastFrame>> /\ pruneHistory(lastFrame)
    BY <1>3 DEF Prune
  <2>2. \A x : x.time > lastFrame /\ Has(imuMeasurements, x) => Has(imuMeasurements', x)
    BY <1>0, <2>1, KeptWereThere
  <2>3. PICK n \in 0..Len(stateHistory) :
          /\ Len(stateHistory') = Len(stateHistory) - n
          /\ \A i \in 1..(Len(stateHistory) - n) : stateHistory'[i] = stateHistory[n + i]
    BY <1>0, <2>1, KeptWereThere
  <2>4. ASSUME NEW x \in appliedIMU', NEW i \in 1..(Len(stateHistory') - 1)
        PROVE  Has(stateHistory'[i].state, x) \/ x.time >= stateHistory'[i + 1].time
    <3>1. Len(stateHistory) \in Nat
      BY HistoriesTimed DEF Inv, TypeOK
    <3>2. n + i \in 1..(Len(stateHistory) - 1) /\ i \in 1..(Len(stateHistory) - n)
          /\ i + 1 \in 1..(Len(stateHistory) - n) /\ n + (i + 1) = (n + i) + 1
      BY <2>3, <3>1
    <3>3. stateHistory'[i] = stateHistory[n + i] /\ stateHistory'[i + 1] = stateHistory[(n + i) + 1]
      BY <2>3, <3>2
    <3> QED BY <2>1, <3>2, <3>3 DEF KeptInv
  <2> QED BY <2>1, <2>2, <2>4 DEF KeptInv
<1>4. ASSUME NEW meas \in ImuMeasurements, NEW sign \in Signs, ImuMessage(meas, sign)
      PROVE  KeptInv'
  <2>0. lastFrame' = lastFrame /\ replay = <<>> /\ meas \in Events
    BY <1>4, ImuAreEvents DEF ImuMessage, Inv, HistoryInv
  <2>1. CASE ~m_calibComplete \/ outOfOrder(meas.time)
    BY <1>0, <1>4, <2>0, <2>1, KeptStill DEF ImuMessage, HandleImu, bodyVars
  <2>2. CASE m_calibComplete /\ ~outOfOrder(meas.time)
    <3>1. imuMeasurements' = Append(imuMeasurements, meas) /\ replay' = replay
      BY <1>4, <2>2 DEF ImuMessage, HandleImu, incorporateNewMeasurementFromIMU, push_newest
    <3>2. Has(imuMeasurements', meas)
          /\ \A x : Has(imuMeasurements, x) => Has(imuMeasurements', x)
      BY <1>0, <2>0, <3>1, HasAppended
    <3>3. \A x : ~Has(replay, x)
      BY <2>0 DEF Has
    <3>4. CASE UNCHANGED <<m_state, stateHistory, appliedIMU>>
      BY <1>0, <2>0, <3>1, <3>2, <3>4, KeptStill
    <3>5. CASE /\ hasEverHadPoseEstimate /\ worthApplying(meas.time)
               /\ m_state' = Append(m_state, meas)
               /\ stateHistory' =
                    push_newest(stateHistory, Snapshot(meas.time, Append(m_state, meas)))
               /\ appliedIMU' = appliedIMU \cup {meas}
      <4>1. m_stateTime <= meas.time
        BY <2>0, <3>5, NewestIsLast DEF Inv, HistoryInv, Events
      <4> QED BY <2>0, <3>2, <3>3, <3>5, <4>1, ApplyKeepsKept
    <3>6. CASE ~hasEverHadPoseEstimate
      BY <1>4, <2>2, <3>4, <3>6 DEF ImuMessage, HandleImu, incorporateNewMeasurementFromIMU
    <3>7. CASE hasEverHadPoseEstimate
      BY <1>4, <2>2, <3>4, <3>5, <3>7, AppliedOrSeen
    <3> QED BY <3>6, <3>7
  <2> QED BY <2>1, <2>2
<1>5. ASSUME NEW meas \in ImuMeasurements, NEW sign \in Signs, ImuOutOfOrder(meas, sign)
      PROVE  KeptInv'
  BY <1>0, <1>5, KeptStill DEF ImuOutOfOrder, HandleImu
<1>6. ASSUME NEW outcome \in {"noLeds", "noPose", "pose"}, updatePoseEstimates(outcome)
      PROVE  KeptInv'
  <2>1. /\ pc = "idle" /\ frame # 0 /\ lastFrame' = frame /\ lastFrame <= frame
        /\ UNCHANGED <<imuMeasurements, appliedIMU>> /\ replay = <<>>
    BY <1>0, <1>6 DEF updatePoseEstimates, Inv, HistoryInv
  <2>2. CASE outcome = "pose" /\ stateHistory # <<>>
    BY <1>6, <2>1, <2>2, ImageKeepsKept DEF updatePoseEstimates, BaseFound
  <2>3. CASE outcome = "pose" /\ stateHistory = <<>>
    <3>1. appliedIMU' = {}
      BY <2>1, <2>3 DEF Inv, HistoryInv, BodyInv
    <3> QED BY <3>1 DEF KeptInv
  <2>4. CASE outcome # "pose"
    BY <1>0, <1>6, <2>1, <2>4, KeptStill DEF updatePoseEstimates
  <2> QED BY <2>2, <2>3, <2>4
<1>7. \/ UNCHANGED bodyVars /\ lastFrame <= lastFrame'
      \/ (Replay /\ replay # <<>>) \/ Prune
      \/ \E meas \in ImuMeasurements, sign \in Signs :
           ImuMessage(meas, sign) \/ ImuOutOfOrder(meas, sign)
      \/ \E outcome \in {"noLeds", "noPose", "pose"} : updatePoseEstimates(outcome)
  <2>1. Tick \/ Grab \/ DropFrame \/ UNCHANGED vars => UNCHANGED bodyVars /\ lastFrame <= lastFrame'
    BY <1>0 DEF vars, Tick, Grab, DropFrame
  <2>2. Replay => (UNCHANGED bodyVars /\ lastFrame <= lastFrame') \/ (Replay /\ replay # <<>>)
    <3>1. CASE replay # <<>>
      BY <3>1
    <3>2. CASE replay = <<>>
      BY <1>0, <3>2 DEF Replay
    <3> QED BY <3>1, <3>2
  <2>3. ASSUME NEW pose, CalibrationFrame(pose) PROVE UNCHANGED bodyVars /\ lastFrame <= lastFrame'
    BY <1>0, <2>3 DEF CalibrationFrame, bodyVars, Inv, HistoryInv
  <2> QED BY <2>1, <2>2, <2>3 DEF Next
<1> QED BY <1>1, <1>2, <1>3, <1>4, <1>5, <1>6, <1>7

\* As long as every image finds a snapshot to start from, no measurement that was
\* applied is lost by rolling back.
THEOREM NothingForgotten == Spec /\ []BaseFound => []NoneForgotten
<1>1. Inv /\ KeptInv => NoneForgotten
  <2> SUFFICES ASSUME Inv, KeptInv, pc = "idle", NEW meas \in appliedIMU
               PROVE  \E j \in DOMAIN m_state : m_state[j] = meas
    BY DEF NoneForgotten
  <2>1. ~Has(replay, meas)
    BY DEF Inv, HistoryInv, Has
  <2> QED BY <2>1 DEF KeptInv, Has
<1>2. Init => KeptInv
  BY DEF Init, BodyInit, KeptInv
<1> QED BY <1>1, <1>2, InvInit, InvNext, KeptNext, PTL DEF Spec

-----------------------------------------------------------------------------
(***************************************************************************)
(* There is always a snapshot to start from                                *)
(***************************************************************************)
\* No image later than the one before it falls between a snapshot and the next.
Near(time, before, image) ==
  time <= before + FrameInterval + 1 \/ time <= image + FrameInterval

Gapless(h, image) == \A i \in 1..(Len(h) - 1) : Near(h[i + 1].time, h[i].time, image)

Starts(h, image) == h # <<>> => h[1].time <= image + FrameInterval

\* What is in BaseInv of the messages alone.
Heard ==
  /\ sent.time <= now
  /\ m_imuBody => sent.time > 0
  /\ m_steadyVideoReports > 0 => m_imuBody

LEMMA GaplessLater ==
  ASSUME NEW h \in Seq(Snapshots), NEW image \in Nat, NEW image2 \in Nat, image <= image2,
         Gapless(h, image), Starts(h, image)
  PROVE  Gapless(h, image2) /\ Starts(h, image2)
<1>1. Len(h) \in Nat /\ \A i \in 1..Len(h) : h[i].time \in Nat
  <2>1. Len(h) \in Nat /\ \A i \in 1..Len(h) : h[i] \in Snapshots
    OBVIOUS
  <2> QED BY <2>1 DEF Snapshots
<1>2. \A time \in Nat : time <= image + FrameInterval => time <= image2 + FrameInterval
  BY SystemAssumption
<1>3. ASSUME NEW i \in 1..(Len(h) - 1) PROVE Near(h[i + 1].time, h[i].time, image2)
  <2>1. i + 1 \in 1..Len(h)
    BY <1>1
  <2>2. h[i + 1].time \in Nat /\ Near(h[i + 1].time, h[i].time, image)
    BY <1>1, <2>1 DEF Gapless
  <2> QED BY <1>2, <2>2 DEF Near
<1>4. h # <<>> => 1 \in 1..Len(h)
  BY <1>1
<1> QED BY <1>1, <1>2, <1>3, <1>4 DEF Gapless, Starts

LEMMA GaplessPushed ==
  ASSUME NEW h \in Seq(Snapshots), NEW image \in Nat, Gapless(h, image), Starts(h, image),
         NEW e \in Snapshots, h = <<>> => e.time <= image + FrameInterval,
         h # <<>> => Near(e.time, h[Len(h)].time, image)
  PROVE  Gapless(Append(h, e), image) /\ Starts(Append(h, e), image)
<1> DEFINE longer == Append(h, e)
<1>1. /\ Len(h) \in Nat /\ Len(longer) = Len(h) + 1
      /\ \A i \in 1..Len(h) : longer[i] = h[i]
      /\ longer[Len(h) + 1] = e
  BY Appended
<1> HIDE DEF longer
<1>2. ASSUME NEW i \in 1..(Len(longer) - 1)
      PROVE  Near(longer[i + 1].time, longer[i].time, image)
  <2>1. i \in 1..Len(h)
    BY <1>1
  <2>2. CASE i = Len(h)
    <3>1. h # <<>>
      BY <1>1, <2>1
    <3> QED BY <1>1, <2>1, <2>2, <3>1
  <2>3. CASE i # Len(h)
    <3>1. i \in 1..(Len(h) - 1) /\ i + 1 \in 1..Len(h)
      BY <1>1, <2>1, <2>3, BelowLast
    <3> QED BY <1>1, <2>1, <3>1 DEF Gapless
  <2> QED BY <2>2, <2>3
<1>3. longer[1].time <= image + FrameInterval
  <2>1. CASE h = <<>>
    BY <1>1, <2>1
  <2>2. CASE h # <<>>
    <3>1. 1 \in 1..Len(h)
      BY <1>1, <2>2
    <3> QED BY <1>1, <2>2, <3>1 DEF Starts
  <2> QED BY <2>1, <2>2
<1> QED BY <1>2, <1>3 DEF Gapless, Starts, longer

LEMMA GaplessPruned ==
  ASSUME NEW h \in Seq(Snapshots), NEW image \in Nat, Gapless(h, image), Starts(h, image),
         NEW n \in 0..Len(h), NEW part, Len(part) = Len(h) - n,
         \A i \in 1..(Len(h) - n) : part[i] = h[n + i], part # <<>> => n < Len(h),
         \A i \in 1..n : h[i].time < image
  PROVE  Gapless(part, image) /\ Starts(part, image)
<1>1. Len(h) \in Nat /\ \A i \in 1..Len(h) : h[i].time \in Nat
  <2>1. Len(h) \in Nat /\ \A i \in 1..Len(h) : h[i] \in Snapshots
    OBVIOUS
  <2> QED BY <2>1 DEF Snapshots
<1>2. ASSUME NEW i \in 1..(Len(part) - 1)
      PROVE  Near(part[i + 1].time, part[i].time, image)
  <2>1. n + i \in 1..(Len(h) - 1) /\ i \in 1..(Len(h) - n) /\ i + 1 \in 1..(Len(h) - n)
        /\ n + (i + 1) = (n + i) + 1
    BY <1>1
  <2>2. part[i] = h[n + i] /\ part[i + 1] = h[(n + i) + 1]
    BY <2>1
  <2> QED BY <2>1, <2>2 DEF Gapless
<1>3. ASSUME part # <<>> PROVE part[1].time <= image + FrameInterval
  <2>1. 1 \in 1..(Len(h) - n) /\ n + 1 \in 1..Len(h)
    BY <1>1, <1>3
  <2>2. part[1] = h[n + 1]
    BY <2>1
  <2>3. CASE n = 0
    <3>1. h # <<>>
      BY <1>1, <2>1
    <3> QED BY <2>2, <2>3, <3>1 DEF Starts
  <2>4. CASE n # 0
    <3>1. n \in 1..(Len(h) - 1) /\ n \in 1..n /\ n \in 1..Len(h)
      BY <1>1, <2>1, <2>4
    <3>2. h[n].time < image /\ h[n].time \in Nat /\ h[n + 1].time \in Nat
      BY <1>1, <2>1, <3>1
    <3>3. Near(h[n + 1].time, h[n].time, image)
      BY <3>1 DEF Gapless
    <3> QED BY <2>2, <3>2, <3>3, SystemAssumption DEF Near
  <2> QED BY <2>3, <2>4
<1> QED BY <1>2, <1>3 DEF Gapless, Starts

\* A snapshot that starts the history no later than the image is found.
LEMMA BaseFoundIfOldEnough ==
  ASSUME Inv, stateHistory # <<>>, stateHistory[1].time <= frame
  PROVE  validState(frame)
<1>1. /\ stateHistory \in Seq(Snapshots) /\ Timed(stateHistory)
      /\ Len(stateHistory) \in Nat /\ DOMAIN stateHistory = 1..Len(stateHistory)
      /\ frame \in Nat
  BY HistoriesTimed DEF Inv, TypeOK
<1>2. stateHistory[1].time <= frame /\ 1 \in DOMAIN stateHistory
  BY <1>1
<1>3. upper_bound(stateHistory, frame) # 1
  <2>1. upper_bound(stateHistory, frame) <= Len(stateHistory)
          => stateHistory[upper_bound(stateHistory, frame)].time > frame
    BY <1>1, UpperBound
  <2> QED BY <1>1, <1>2, <2>1 DEF Timed
<1>4. upper_bound(stateHistory, frame) - 1 \in 0..Len(stateHistory)
  <2>1. upper_bound(stateHistory, frame) \in 1..(Len(stateHistory) + 1)
    BY <1>1, UpperBound
  <2> QED BY <1>1, <2>1
<1> QED BY <1>1, <1>3, <1>4 DEF validState, base, closest_not_newer, end

LEMMA BaseFoundIfStarts ==
  ASSUME Inv, frame # 0, stateHistory # <<>>, Starts(stateHistory, lastFrame),
         frame >= lastFrame + FrameInterval
  PROVE  validState(frame)
<1>1. stateHistory \in Seq(Snapshots) /\ frame \in Nat /\ lastFrame \in Nat
  BY HistoriesTimed DEF Inv, TypeOK
<1>2. 1 \in DOMAIN stateHistory /\ stateHistory[1].time \in Nat
  <2>1. 1 \in DOMAIN stateHistory /\ stateHistory[1] \in Snapshots
    BY <1>1
  <2> QED BY <2>1 DEF Snapshots
<1>3. stateHistory[1].time <= frame
  BY <1>1, <1>2, SystemAssumption DEF Starts
<1> QED BY <1>3, BaseFoundIfOldEnough

\* The messages: calibration takes some, and none is from the future.
LEMMA HeardNext == Inv /\ Inv' /\ Heard /\ [Next]_vars => Heard'
<1> SUFFICES ASSUME Inv, Inv', Heard, [Next]_vars PROVE Heard'
  OBVIOUS
<1>0. /\ now \in Nat /\ now' \in Nat /\ sent \in Events /\ sent' \in Events
      /\ sent.time \in Nat /\ m_steadyVideoReports \in Nat
  BY DEF Inv, TypeOK, CalibrationTypeOK, Events
<1>1. CASE UNCHANGED <<calibrationVars, sent>> /\ now <= now'
  BY <1>0, <1>1 DEF Heard, calibrationVars
<1>2. ASSUME NEW meas \in ImuMeasurements, NEW sign \in Signs, ImuMessage(meas, sign)
      PROVE  Heard'
  <2>1. sent' = meas /\ meas.time <= now /\ now' = now /\ meas.time > 0
    BY <1>2, SystemAssumption DEF ImuMessage, ImuMeasurements
  <2>2. m_steadyVideoReports' = m_steadyVideoReports /\ (m_imuBody' \/ m_imuBody' = m_imuBody)
    BY <1>2 DEF ImuMessage, HandleImu, calibrationHandleIMUData, calibrationVars
  <2> QED BY <2>1, <2>2 DEF Heard
<1>3. ASSUME NEW pose, CalibrationFrame(pose) PROVE Heard'
  <2>1. now' = now /\ sent' = sent /\ m_imuBody' = m_imuBody
    BY <1>3 DEF CalibrationFrame, calibrationVideoPhaseThree, processVideoData
  <2>2. m_imuBody \/ m_steadyVideoReports' = m_steadyVideoReports
    BY <1>3 DEF CalibrationFrame, calibrationVideoPhaseThree, wantVideoData
  <2> QED BY <1>0, <2>1, <2>2 DEF Heard
<1>4. \/ UNCHANGED <<calibrationVars, sent>> /\ now <= now'
      \/ \E meas \in ImuMeasurements, sign \in Signs : ImuMessage(meas, sign)
      \/ \E pose \in {"none", "still", "moving"} : CalibrationFrame(pose)
  <2>1. Tick \/ Grab \/ DropFrame \/ Replay \/ Prune \/ UNCHANGED vars
          => UNCHANGED <<calibrationVars, sent>> /\ now <= now'
    BY <1>0 DEF vars, Tick, Grab, DropFrame, Replay, Prune
  <2>2. ASSUME NEW meas, NEW sign, ImuOutOfOrder(meas, sign)
        PROVE  UNCHANGED <<calibrationVars, sent>> /\ now <= now'
    BY <1>0, <2>2 DEF ImuOutOfOrder, HandleImu
  <2>3. ASSUME NEW outcome, updatePoseEstimates(outcome)
        PROVE  UNCHANGED <<calibrationVars, sent>> /\ now <= now'
    BY <1>0, <2>3 DEF updatePoseEstimates
  <2> QED BY <2>1, <2>2, <2>3 DEF Next
<1> QED BY <1>1, <1>2, <1>3, <1>4

Calibrated == m_calibComplete => sent.time > 0

LEMMA HeardCalibrated == Inv /\ Heard => Calibrated
<1> SUFFICES ASSUME Inv, Heard, m_calibComplete PROVE sent.time > 0
  BY DEF Calibrated
<1>1. m_steadyVideoReports > 0
  BY CalibrationAssumption DEF Inv, CalibrationInv, finished, TypeOK, CalibrationTypeOK
<1> QED BY <1>1 DEF Heard

\* The snapshots have no gap an image could fall into, what is to be replayed
\* leaves none, and neither does what is kept while an image is on its way.
NoGaps ==
  /\ Starts(stateHistory, lastFrame) /\ Gapless(stateHistory, lastFrame)
  /\ hasEverHadPoseEstimate => m_calibComplete
  /\ replay # <<>> => hasEverHadPoseEstimate
  /\ frame # 0 => frame >= lastFrame + FrameInterval
  /\ m_calibComplete /\ frame # 0 /\ pc # "threw" => Heeded(imuMeasurements, frame)
  /\ hasEverHadPoseEstimate /\ pc # "threw" => Heeded(replay, m_stateTime)

LEMMA BaseInvParts == BaseInv <=> Heard /\ NoGaps
BY DEF BaseInv, Heard, NoGaps, Starts, Gapless, Near

LEMMA GaplessPrefix ==
  ASSUME NEW h \in Seq(Snapshots), NEW image \in Nat, Gapless(h, image), Starts(h, image),
         NEW n \in 0..Len(h), NEW part, Len(part) = n, part # <<>> => n > 0,
         \A i \in 1..n : part[i] = h[i]
  PROVE  Gapless(part, image) /\ Starts(part, image)
<1>1. Len(h) \in Nat /\ (h = <<>> => Len(h) = 0)
  OBVIOUS
<1>2. ASSUME NEW i \in 1..(Len(part) - 1)
      PROVE  Near(part[i + 1].time, part[i].time, image)
  <2>1. i \in 1..(Len(h) - 1) /\ i \in 1..n /\ i + 1 \in 1..n
    BY <1>1
  <2> QED BY <2>1 DEF Gapless
<1>3. ASSUME part # <<>> PROVE part[1].time <= image + FrameInterval
  <2>1. 1 \in 1..n /\ h # <<>>
    BY <1>1, <1>3
  <2> QED BY <2>1 DEF Starts
<1> QED BY <1>2, <1>3 DEF Gapless, Starts

\* What has every later event has no wider gaps.
LEMMA WithinMore ==
  ASSUME NEW s \in Seq(Events), NEW s2 \in Seq(Events), NEW gap \in Nat,
         NEW from \in Nat, NEW from2 \in Nat, NEW until \in Nat, from <= from2,
         Within(gap, s, from, until), \A e : Has(s, e) /\ e.time > from2 => Has(s2, e)
  PROVE  Within(gap, s2, from2, until)
<1> SUFFICES ASSUME NEW t \in from2..(until - 1)
             PROVE  \E i \in DOMAIN s2 : t < s2[i].time /\ s2[i].time <= t + gap
  BY DEF Within
<1>1. t \in from..(until - 1) /\ t \in Nat /\ t >= from2
  OBVIOUS
<1>2. PICK i \in DOMAIN s : t < s[i].time /\ s[i].time <= t + gap
  BY <1>1 DEF Within
<1>3. s[i].time \in Nat
  <2>1. s[i] \in Events
    OBVIOUS
  <2> QED BY <2>1 DEF Events
<1>4. Has(s, s[i]) /\ s[i].time > from2
  BY <1>1, <1>2, <1>3 DEF Has
<1>5. Has(s2, s[i])
  BY <1>4
<1> QED BY <1>2, <1>5 DEF Has

\* One more event, not too long after the last one there was.
LEMMA WithinAppended ==
  ASSUME NEW s \in Seq(Events), NEW e \in Events, NEW gap \in Nat, NEW from \in Nat,
         NEW until \in Nat,
         e.time <= from + gap \/ (e.time <= until + gap /\ Within(gap, s, from, until))
  PROVE  Within(gap, Append(s, e), from, e.time)
<1>1. e.time \in Nat
  BY DEF Events
<1>2. \A x : Has(s, x) \/ x = e => Has(Append(s, e), x)
  BY HasAppended
<1> SUFFICES ASSUME NEW t \in from..(e.time - 1)
             PROVE  \E i \in DOMAIN Append(s, e) :
                      t < Append(s, e)[i].time /\ Append(s, e)[i].time <= t + gap
  BY DEF Within
<1>3. t \in Nat /\ t < e.time /\ from <= t
  BY <1>1
<1>4. CASE e.time <= t + gap
  BY <1>2, <1>3, <1>4 DEF Has
<1>5. CASE ~(e.time <= t + gap)
  <2>1. t < until /\ Within(gap, s, from, until)
    BY <1>1, <1>3, <1>5
  <2>2. t \in from..(until - 1)
    BY <1>3, <2>1
  <2>3. PICK i \in DOMAIN s : t < s[i].time /\ s[i].time <= t + gap
    BY <2>1, <2>2 DEF Within
  <2>4. Has(Append(s, e), s[i])
    BY <1>2 DEF Has
  <2> QED BY <2>3, <2>4 DEF Has
<1> QED BY <1>4, <1>5

LEMMA SnapshotsStill ==
  ASSUME Inv, Inv', NoGaps, stateHistory' = stateHistory, lastFrame <= lastFrame'
  PROVE  Starts(stateHistory', lastFrame') /\ Gapless(stateHistory', lastFrame')
<1>1. stateHistory \in Seq(Snapshots) /\ lastFrame \in Nat /\ lastFrame' \in Nat
  BY HistoriesTimed DEF Inv, TypeOK
<1> QED BY <1>1, GaplessLater DEF NoGaps

LEMMA ReplayLeavesNoGap ==
  ASSUME ImuPeriod + Backdate <= FrameInterval + 1,
         Inv, Inv', NoGaps, Replay, replay # <<>>
  PROVE  NoGaps'
<1>1. /\ ReplayOne /\ pc = "replay" /\ pc' = "replay"
      /\ UNCHANGED <<calibrationVars, imuMeasurements, hasPoseEstimate, everHadPose, lastFrame,
                     sent, frame>>
  BY DEF Replay, ReplayOne
<1>2. /\ m_stateTime' = Head(replay).time /\ replay' = Tail(replay)
      /\ stateHistory' = push_newest(stateHistory, Snapshot(m_stateTime', m_state'))
  BY <1>1, ReplayKeepsOrder DEF Inv, ReplayOne
<1>3. /\ replay \in Seq(Events) /\ stateHistory \in Seq(Snapshots) /\ m_stateTime \in Nat
      /\ m_state' \in States /\ m_stateTime' \in Nat /\ lastFrame \in Nat /\ sent.time \in Nat
  BY HistoriesTimed DEF Inv, TypeOK, BodyTypeOK, Events
<1>4. Head(replay) \in Events /\ Head(replay) = replay[1] /\ 1 \in DOMAIN replay
  BY <1>3, HeadAndTail
<1>5. Head(replay).time <= sent.time /\ m_stateTime <= Head(replay).time
  <2>1. Sent(Head(replay), sent) /\ m_stateTime <= Head(replay).time
    BY <1>4 DEF Inv, HistoryInv, Replaying, MeasurementsInOrder
  <2>2. Head(replay).time \in Nat
    BY <1>4 DEF Events
  <2> QED BY <1>3, <2>1, <2>2 DEF Sent, Before
<1>6. ASSUME NEW x, Has(replay, x) PROVE Head(replay).time <= x.time
  <2>1. PICK i \in DOMAIN replay : replay[i] = x
    BY <1>6 DEF Has
  <2>2. i = 1 \/ 1 < i
    BY <1>3
  <2>3. x \in Events
    BY <1>3, <2>1
  <2>4. CASE i = 1
    BY <1>2, <1>3, <1>4, <2>1, <2>4
  <2>5. CASE 1 < i
    <3>1. Before(Head(replay), x)
      BY <1>4, <2>1, <2>5 DEF Inv, HistoryInv, Replaying, MeasurementsInOrder
    <3> QED BY <1>4, <2>3, <3>1, BeforeIsAnOrder
  <2> QED BY <2>2, <2>4, <2>5
<1>7. hasEverHadPoseEstimate
  BY DEF NoGaps
<1>8. /\ FrameInterval + 1 \in Nat /\ Backdate \in Nat /\ Backdate <= FrameInterval + 1
      /\ Head(replay).time \in Nat
  BY <1>4, SystemAssumption DEF Events
<1>9. \/ sent.time <= m_stateTime + Backdate
       \/ Within(FrameInterval + 1, replay, m_stateTime, sent.time)
  BY <1>1, <1>7 DEF NoGaps, Heeded
<1>10. Head(replay).time <= m_stateTime + (FrameInterval + 1)
  <2>1. CASE sent.time <= m_stateTime + Backdate
    BY <1>8, <1>3, <1>5, <2>1
  <2>2. CASE Head(replay).time <= m_stateTime
    BY <1>8, <1>3, <2>2
  <2>3. CASE /\ Within(FrameInterval + 1, replay, m_stateTime, sent.time)
             /\ Head(replay).time > m_stateTime
    <3>1. m_stateTime \in m_stateTime..(sent.time - 1)
      BY <1>8, <1>3, <1>5, <2>3
    <3>2. PICK i \in DOMAIN replay : replay[i].time <= m_stateTime + (FrameInterval + 1)
      BY <2>3, <3>1 DEF Within
    <3>3. Head(replay).time <= replay[i].time
      BY <1>6 DEF Has
    <3>4. replay[i].time \in Nat
      <4>1. replay[i] \in Events
        BY <1>3
      <4> QED BY <4>1 DEF Events
    <3> QED BY <1>8, <1>3, <3>2, <3>3, <3>4
  <2> QED BY <1>9, <1>8, <1>3, <2>1, <2>2, <2>3
<1>11. Starts(stateHistory', lastFrame') /\ Gapless(stateHistory', lastFrame')
  <2>1. stateHistory # <<>> /\ stateHistory[Len(stateHistory)].time = m_stateTime
    BY <1>7 DEF Inv, HistoryInv, BodyInv, NewestIsCurrent, Snapshot
  <2>2. Snapshot(m_stateTime', m_state') \in Snapshots
        /\ Snapshot(m_stateTime', m_state').time = Head(replay).time
    BY <1>2, <1>3 DEF Snapshot, Snapshots
  <2>3. Near(Head(replay).time, stateHistory[Len(stateHistory)].time, lastFrame)
    BY <1>8, <1>3, <1>10, <2>1, SystemAssumption DEF Near
  <2> QED BY <1>1, <1>2, <1>3, <2>1, <2>2, <2>3, GaplessPushed DEF NoGaps, push_newest
<1>12. \/ sent.time <= m_stateTime' + Backdate
       \/ Within(FrameInterval + 1, replay', m_stateTime', sent.time)
  <2>1. CASE sent.time <= m_stateTime + Backdate
    BY <1>8, <1>2, <1>3, <1>5, <2>1
  <2>2. CASE Within(FrameInterval + 1, replay, m_stateTime, sent.time)
    <3>1. replay' \in Seq(Events)
      BY DEF Inv, TypeOK, BodyTypeOK
    <3>2. ASSUME NEW x, Has(replay, x), x.time > m_stateTime' PROVE Has(replay', x)
      <4>1. x # Head(replay)
        BY <1>8, <1>2, <3>2
      <4> QED BY <1>2, <1>3, <3>2, <4>1, HasHeadOrTail
    <3>3. m_stateTime <= m_stateTime'
      BY <1>2, <1>5
    <3> QED BY <1>8, <1>3, <2>2, <3>1, <3>2, <3>3, WithinMore
  <2> QED BY <1>9, <2>1, <2>2
<1>13. m_calibComplete' = m_calibComplete /\ hasEverHadPoseEstimate' = hasEverHadPoseEstimate
  BY <1>1 DEF calibrationVars, hasEverHadPoseEstimate
<1> QED BY <1>1, <1>7, <1>11, <1>12, <1>13 DEF NoGaps, Heeded

LEMMA PruneLeavesNoGap ==
  ASSUME Inv, Inv', NoGaps, Prune
  PROVE  NoGaps'
<1>1. /\ UNCHANGED <<calibrationVars, m_state, m_stateTime, hasPoseEstimate, everHadPose, m_last,
                     replay, appliedIMU, now, frame, lastFrame, sent>>
      /\ pruneHistory(lastFrame) /\ pc = "prune" /\ pc' = "idle"
  BY DEF Prune
<1>2. /\ stateHistory \in Seq(Snapshots) /\ stateHistory' \in Seq(Snapshots) /\ lastFrame \in Nat
      /\ sent.time \in Nat /\ frame \in Nat /\ imuMeasurements \in Seq(Events) /\ TypeOK
      /\ frame # 0 => frame > lastFrame
  <2>1. stateHistory' \in Seq(Snapshots)
    BY DEF Inv, TypeOK, BodyTypeOK, Snapshots
  <2> QED BY <2>1, HistoriesTimed DEF Inv, TypeOK, Events, HistoryInv
<1>3. PICK n \in 0..Len(stateHistory) :
        /\ Len(stateHistory') = Len(stateHistory) - n
        /\ \A i \in 1..(Len(stateHistory) - n) : stateHistory'[i] = stateHistory[n + i]
        /\ \A i \in 1..n : stateHistory[i].time < lastFrame
  BY <1>1, <1>2, KeptWereThere
<1>4. stateHistory' # <<>> => n < Len(stateHistory)
  <2>1. stateHistory' # <<>> => Len(stateHistory') > 0
    BY <1>2
  <2> QED BY <1>2, <1>3, <2>1
<1>5. Starts(stateHistory', lastFrame) /\ Gapless(stateHistory', lastFrame)
  BY <1>2, <1>3, <1>4, GaplessPruned DEF NoGaps
<1>6. \A x : x.time > lastFrame /\ Has(imuMeasurements, x) => Has(imuMeasurements', x)
  BY <1>1, <1>2, KeptWereThere
<1>7. m_calibComplete /\ frame # 0 => Heeded(imuMeasurements', frame)
  <2> SUFFICES ASSUME frame # 0, Within(FrameInterval + 1, imuMeasurements, frame, sent.time)
               PROVE  Within(FrameInterval + 1, imuMeasurements', frame, sent.time)
    BY <1>1 DEF NoGaps, Heeded
  <2>1. imuMeasurements' \in Seq(Events) /\ FrameInterval + 1 \in Nat
    BY SystemAssumption DEF Inv, TypeOK, BodyTypeOK
  <2>2. \A x : Has(imuMeasurements, x) /\ x.time > frame => Has(imuMeasurements', x)
    <3>1. ASSUME NEW x, Has(imuMeasurements, x), x.time > frame PROVE Has(imuMeasurements', x)
      <4>1. x \in Events
        BY <1>2, <3>1 DEF Has
      <4>2. x.time > lastFrame
        BY <1>2, <3>1, <4>1 DEF Events
      <4> QED BY <1>6, <3>1, <4>2
    <3> QED BY <3>1
  <2> QED BY <1>2, <2>1, <2>2, WithinMore
<1>8. m_calibComplete' = m_calibComplete /\ hasEverHadPoseEstimate' = hasEverHadPoseEstimate
  BY <1>1 DEF calibrationVars, hasEverHadPoseEstimate
<1> QED BY <1>1, <1>5, <1>7, <1>8 DEF NoGaps, Heeded

LEMMA ImuLeavesNoGap ==
  ASSUME RegularImu, ImuPeriod + Backdate <= FrameInterval + 1,
         Inv, Inv', Heard, NoGaps, NEW meas \in ImuMeasurements, NEW sign \in Signs,
         ImuMessage(meas, sign)
  PROVE  NoGaps'
<1>1. /\ sent' = meas /\ lastFrame' = lastFrame /\ frame' = frame /\ pc = "idle" /\ replay = <<>>
      /\ meas \in Events /\ meas.time \in Nat /\ sent.time \in Nat /\ lastFrame \in Nat
      /\ frame \in Nat /\ imuMeasurements \in Seq(Events) /\ m_stateTime \in Nat
      /\ stateHistory \in Seq(Snapshots)
  BY ImuAreEvents, HistoriesTimed DEF ImuMessage, Inv, TypeOK, BodyTypeOK, HistoryInv, Events
<1>2. /\ FrameInterval + 1 \in Nat /\ Backdate \in Nat /\ ImuPeriod \in Nat /\ ImuPeriod >= 1
      /\ ImuPeriod <= FrameInterval + 1
  BY SystemAssumption
<1>3. m_calibComplete => meas.time <= sent.time + ImuPeriod
  BY HeardCalibrated DEF Calibrated, ImuMessage, Follows
<1>4. CASE ~m_calibComplete
  <2>1. UNCHANGED <<m_stateTime, stateHistory, imuMeasurements, hasPoseEstimate, everHadPose,
                    replay, pc>>
    BY <1>4 DEF ImuMessage, HandleImu, bodyVars
  <2>2. ~m_calibComplete'
    <3>1. m_steadyVideoReports' = m_steadyVideoReports
      BY <1>4 DEF ImuMessage, HandleImu, calibrationHandleIMUData, calibrationVars
    <3> QED BY <1>4, <3>1 DEF Inv, CalibrationInv, finished
  <2>3. ~hasEverHadPoseEstimate /\ ~hasEverHadPoseEstimate'
    BY <1>4, <2>1 DEF NoGaps, hasEverHadPoseEstimate
  <2>4. Starts(stateHistory', lastFrame') /\ Gapless(stateHistory', lastFrame')
    BY <1>1, <2>1, SnapshotsStill
  <2> QED BY <1>1, <2>1, <2>2, <2>3, <2>4 DEF NoGaps
<1>5. CASE m_calibComplete /\ outOfOrder(meas.time)
  <2>1. UNCHANGED <<m_calibComplete, stateHistory, hasPoseEstimate, everHadPose, replay>>
        /\ pc' = "threw"
    BY <1>5 DEF ImuMessage, HandleImu, calibrationVars
  <2>2. Starts(stateHistory', lastFrame') /\ Gapless(stateHistory', lastFrame')
    BY <1>1, <2>1, SnapshotsStill
  <2>3. hasEverHadPoseEstimate' = hasEverHadPoseEstimate
    BY <2>1 DEF hasEverHadPoseEstimate
  <2> QED BY <1>1, <2>1, <2>2, <2>3 DEF NoGaps
<1>6. CASE m_calibComplete /\ ~outOfOrder(meas.time)
  <2>1. /\ imuMeasurements' = Append(imuMeasurements, meas) /\ replay' = replay
        /\ hasEverHadPoseEstimate' = hasEverHadPoseEstimate /\ pc' = pc
        /\ m_calibComplete' = m_calibComplete
    BY <1>6 DEF ImuMessage, HandleImu, incorporateNewMeasurementFromIMU, push_newest,
      hasEverHadPoseEstimate, calibrationVars
  <2>2. frame # 0 => Within(FrameInterval + 1, imuMeasurements', frame, meas.time)
    <3> SUFFICES ASSUME frame # 0
                 PROVE  Within(FrameInterval + 1, Append(imuMeasurements, meas), frame,
                               meas.time)
      BY <2>1
    <3>1. \/ sent.time <= frame + Backdate
          \/ Within(FrameInterval + 1, imuMeasurements, frame, sent.time)
      BY <1>1, <1>6 DEF NoGaps, Heeded
    <3>2. meas.time <= sent.time + (FrameInterval + 1)
      BY <1>2, <1>1, <1>3, <1>6
    <3>3. sent.time <= frame + Backdate => meas.time <= frame + (FrameInterval + 1)
      BY <1>2, <1>1, <1>3, <1>6
    <3> QED BY <1>2, <1>1, <3>1, <3>2, <3>3, WithinAppended
  <2>3. CASE ~hasEverHadPoseEstimate
    <3>1. stateHistory' = stateHistory
      BY <1>6, <2>3 DEF ImuMessage, HandleImu, incorporateNewMeasurementFromIMU
    <3>2. Starts(stateHistory', lastFrame') /\ Gapless(stateHistory', lastFrame')
      BY <1>1, <3>1, SnapshotsStill
    <3> QED BY <1>1, <2>1, <2>2, <2>3, <3>2 DEF NoGaps, Heeded
  <2>4. CASE hasEverHadPoseEstimate
    <3>1. sent.time <= m_stateTime + Backdate
      <4>1. ASSUME Within(FrameInterval + 1, replay, m_stateTime, sent.time),
                   ~(sent.time <= m_stateTime)
            PROVE  FALSE
        <5>1. m_stateTime \in m_stateTime..(sent.time - 1)
          BY <1>1, <4>1
        <5> QED BY <1>1, <4>1, <5>1 DEF Within
      <4>2. \/ sent.time <= m_stateTime + Backdate
            \/ Within(FrameInterval + 1, replay, m_stateTime, sent.time)
        BY <1>1, <2>4 DEF NoGaps, Heeded
      <4> QED BY <1>2, <1>1, <4>1, <4>2
    <3>2. meas.time <= m_stateTime + (FrameInterval + 1)
      BY <1>2, <1>1, <1>3, <1>6, <3>1
    <3>3. CASE /\ m_stateTime' = meas.time
               /\ stateHistory' =
                    push_newest(stateHistory, Snapshot(meas.time, Append(m_state, meas)))
      <4>1. stateHistory # <<>> /\ stateHistory[Len(stateHistory)].time = m_stateTime
        BY <2>4 DEF Inv, HistoryInv, BodyInv, NewestIsCurrent, Snapshot
      <4>2. Snapshot(meas.time, Append(m_state, meas)) \in Snapshots
            /\ Snapshot(meas.time, Append(m_state, meas)).time = meas.time
        BY <1>1 DEF Snapshot, Snapshots, States, Inv, TypeOK, BodyTypeOK
      <4>3. Near(meas.time, stateHistory[Len(stateHistory)].time, lastFrame)
        BY <1>1, <3>2, <4>1, SystemAssumption DEF Near
      <4>4. Starts(stateHistory', lastFrame) /\ Gapless(stateHistory', lastFrame)
        BY <1>1, <3>3, <4>1, <4>2, <4>3, GaplessPushed DEF NoGaps, push_newest
      <4>5. meas.time <= m_stateTime' + Backdate
        BY <1>2, <1>1, <3>3
      <4> QED BY <1>1, <1>6, <2>1, <2>2, <2>4, <4>4, <4>5 DEF NoGaps, Heeded
    <3>4. CASE /\ UNCHANGED <<m_state, m_stateTime, stateHistory>>
               /\ \E j \in DOMAIN m_state :
                    m_state[j].kind = "video" /\ m_state[j].time >= meas.time
      <4>1. PICK j \in DOMAIN m_state : m_state[j].kind = "video" /\ m_state[j].time >= meas.time
        BY <3>4
      <4>2. m_state[j].time <= m_stateTime
        BY <4>1 DEF Inv, HistoryInv, BodyInv, StateOf
      <4>3. m_state[j].time \in Nat
        <5>1. m_state[j] \in Events
          BY DEF Inv, TypeOK, BodyTypeOK, States
        <5> QED BY <5>1 DEF Events
      <4>4. meas.time <= m_stateTime' + Backdate
        BY <1>2, <1>1, <3>4, <4>1, <4>2, <4>3
      <4>5. Starts(stateHistory', lastFrame') /\ Gapless(stateHistory', lastFrame')
        BY <1>1, <3>4, SnapshotsStill
      <4> QED BY <1>1, <1>6, <2>1, <2>2, <2>4, <4>4, <4>5 DEF NoGaps, Heeded
    <3> QED BY <1>6, <2>4, <3>3, <3>4, AppliedOrSeen
  <2> QED BY <2>3, <2>4
<1> QED BY <1>4, <1>5, <1>6

LEMMA ImageLeavesNoGap ==
  ASSUME Inv, Inv', NoGaps, NEW outcome, updatePoseEstimates(outcome)
  PROVE  NoGaps'
<1>1. /\ pc = "idle" /\ frame # 0 /\ m_calibComplete /\ m_calibComplete' /\ frame' = 0
      /\ lastFrame' = frame /\ sent' = sent /\ replay = <<>> /\ pc' # "threw"
      /\ imuMeasurements' = imuMeasurements /\ everHadPose' = everHadPose
      /\ frame \in Nat /\ lastFrame \in Nat /\ frame > lastFrame /\ sent.time \in Nat
      /\ stateHistory \in Seq(Snapshots) /\ Timed(stateHistory) /\ imuMeasurements \in Seq(Events)
      /\ m_stateTime \in Nat
  BY HistoriesTimed DEF updatePoseEstimates, calibrationVars, Inv, HistoryInv, TypeOK, BodyTypeOK,
    Events
<1>2. CASE outcome = "pose"
  <2>1. replaceStateSnapshot(frame) /\ hasPoseEstimate'
    BY <1>2 DEF updatePoseEstimates
  <2>2. m_stateTime' = frame
    BY <2>1 DEF replaceStateSnapshot
  <2>3. Heeded(replay', frame)
    <3> SUFFICES ASSUME Within(FrameInterval + 1, imuMeasurements, frame, sent.time)
                 PROVE  Within(FrameInterval + 1, replay', frame, sent.time)
      BY <1>1 DEF NoGaps, Heeded
    <3>1. replay' \in Seq(Events) /\ FrameInterval + 1 \in Nat
      BY SystemAssumption DEF Inv, TypeOK, BodyTypeOK
    <3>2. ASSUME NEW x, Has(imuMeasurements, x), x.time > frame PROVE Has(replay', x)
      <4>1. PICK i \in DOMAIN imuMeasurements : imuMeasurements[i] = x
        BY <3>2 DEF Has
      <4> QED BY <1>1, <2>1, <3>2, <4>1, ImageReplays
    <3> QED BY <1>1, <3>1, <3>2, WithinMore
  <2>4. Starts(stateHistory', frame) /\ Gapless(stateHistory', frame)
    <3> DEFINE kept == withoutInvalidated(frame)
               new == Snapshot(frame, m_state')
    <3>1. Starts(stateHistory, frame) /\ Gapless(stateHistory, frame)
      BY <1>1, GaplessLater DEF NoGaps
    <3>2. PICK n \in 0..Len(stateHistory) :
            /\ kept \in Seq(Snapshots) /\ Len(kept) = n
            /\ \A i \in 1..n : kept[i] = stateHistory[i]
      <4>1. stateTime(frame) \in Nat
        BY <1>1, StateAtOrBefore DEF Inv, TypeOK
      <4>2. LET n == upper_bound(stateHistory, stateTime(frame)) - 1 IN
              /\ kept \in Seq(Snapshots) /\ n \in 0..Len(stateHistory) /\ Len(kept) = n
              /\ \A i \in 1..n : kept[i] = stateHistory[i]
        BY <1>1, <4>1, PopAfter DEF withoutInvalidated
      <4> QED BY <4>2
    <3>3. stateHistory' = Append(kept, new) \/ stateHistory' = kept
      BY <2>1 DEF replaceStateSnapshot, push_newest
    <3>4. new \in Snapshots /\ new.time = frame
      BY <1>1 DEF Snapshot, Snapshots, Inv, TypeOK, BodyTypeOK
    <3> HIDE DEF kept, new
    <3>5. kept # <<>> => n > 0
      BY <3>2
    <3>6. Starts(kept, frame) /\ Gapless(kept, frame)
      BY <1>1, <3>1, <3>2, <3>5, GaplessPrefix
    <3>7. new.time <= frame + FrameInterval /\ \A time : Near(new.time, time, frame)
      BY <1>1, <3>4, SystemAssumption DEF Near
    <3>8. Starts(Append(kept, new), frame) /\ Gapless(Append(kept, new), frame)
      BY <1>1, <3>2, <3>4, <3>6, <3>7, GaplessPushed
    <3> QED BY <3>3, <3>6, <3>8
  <2> QED BY <1>1, <2>1, <2>2, <2>3, <2>4 DEF NoGaps, Heeded, hasEverHadPoseEstimate
<1>3. CASE outcome # "pose"
  <2>1. UNCHANGED <<m_stateTime, stateHistory, replay>>
    BY <1>3 DEF updatePoseEstimates
  <2>2. hasEverHadPoseEstimate' => hasEverHadPoseEstimate
    <3>1. hasPoseEstimate' = IF outcome = "noLeds" THEN hasPoseEstimate ELSE outcome = "pose"
      BY DEF updatePoseEstimates
    <3>2. hasPoseEstimate' => hasPoseEstimate
      BY <1>3, <3>1
    <3> QED BY <1>1, <3>2 DEF hasEverHadPoseEstimate
  <2>3. Starts(stateHistory', lastFrame') /\ Gapless(stateHistory', lastFrame')
    BY <1>1, <2>1, SnapshotsStill
  <2> QED BY <1>1, <2>1, <2>2, <2>3 DEF NoGaps, Heeded
<1> QED BY <1>2, <1>3

LEMMA NoGapsNext ==
  ASSUME RegularImu, ImuPeriod + Backdate <= FrameInterval + 1
  PROVE  Inv /\ Inv' /\ Heard /\ NoGaps /\ [Next]_vars => NoGaps'
<1> SUFFICES ASSUME Inv, Inv', Heard, NoGaps, [Next]_vars PROVE NoGaps'
  OBVIOUS
<1>0. /\ frame \in Nat /\ lastFrame \in Nat /\ now \in Nat /\ sent.time \in Nat
      /\ frame # 0 => frame > lastFrame
  BY DEF Inv, TypeOK, HistoryInv, Events
<1>1. CASE UNCHANGED <<calibrationVars, bodyVars, frame, lastFrame, sent>>
           /\ (pc' = "threw" <=> pc = "threw")
  <2>1. Starts(stateHistory', lastFrame') /\ Gapless(stateHistory', lastFrame')
    BY <1>0, <1>1, SnapshotsStill DEF bodyVars
  <2> QED BY <1>1, <2>1 DEF NoGaps, Heeded, calibrationVars, bodyVars, hasEverHadPoseEstimate
<1>2. CASE Grab
  <2>1. UNCHANGED <<calibrationVars, bodyVars, lastFrame, sent, pc>> /\ frame' = now - Backdate
    BY <1>2 DEF Grab
  <2>2. Starts(stateHistory', lastFrame') /\ Gapless(stateHistory', lastFrame')
    BY <1>0, <2>1, SnapshotsStill DEF bodyVars
  <2>3. sent.time <= frame' + Backdate /\ frame' >= lastFrame + FrameInterval
    BY <1>0, <1>2, <2>1, SystemAssumption DEF Heard, Grab
  <2> QED BY <2>1, <2>2, <2>3
          DEF NoGaps, Heeded, calibrationVars, bodyVars, hasEverHadPoseEstimate
<1>3. CASE DropFrame
  <2>1. Starts(stateHistory', lastFrame') /\ Gapless(stateHistory', lastFrame')
    BY <1>0, <1>3, SnapshotsStill DEF bodyVars, DropFrame
  <2> QED BY <1>3, <2>1
          DEF DropFrame, NoGaps, Heeded, calibrationVars, bodyVars, hasEverHadPoseEstimate
<1>4. CASE Replay /\ replay # <<>>
  BY <1>4, ReplayLeavesNoGap
<1>5. CASE Prune
  BY <1>5, PruneLeavesNoGap
<1>6. ASSUME NEW meas \in ImuMeasurements, NEW sign \in Signs, ImuMessage(meas, sign)
      PROVE  NoGaps'
  BY <1>6, ImuLeavesNoGap
<1>7. ASSUME NEW meas, NEW sign, ImuOutOfOrder(meas, sign) PROVE NoGaps'
  <2>1. /\ UNCHANGED <<calibrationVars, stateHistory, hasPoseEstimate, everHadPose, replay,
                       lastFrame, frame>>
        /\ pc' = "threw"
    BY <1>7 DEF ImuOutOfOrder, HandleImu
  <2>2. Starts(stateHistory', lastFrame') /\ Gapless(stateHistory', lastFrame')
    BY <1>0, <2>1, SnapshotsStill
  <2> QED BY <2>1, <2>2 DEF NoGaps, calibrationVars, hasEverHadPoseEstimate
<1>8. ASSUME NEW pose, CalibrationFrame(pose) PROVE NoGaps'
  <2>1. UNCHANGED <<bodyVars, sent, pc>> /\ lastFrame' = frame /\ frame' = 0 /\ ~m_calibComplete
        /\ frame # 0
    BY <1>8 DEF CalibrationFrame
  <2>2. Starts(stateHistory', lastFrame') /\ Gapless(stateHistory', lastFrame')
    BY <1>0, <2>1, SnapshotsStill DEF bodyVars
  <2>3. ~hasEverHadPoseEstimate /\ ~hasEverHadPoseEstimate' /\ replay' = replay
    BY <2>1 DEF NoGaps, hasEverHadPoseEstimate, bodyVars
  <2> QED BY <2>1, <2>2, <2>3 DEF NoGaps
<1>9. ASSUME NEW outcome, updatePoseEstimates(outcome) PROVE NoGaps'
  BY <1>9, ImageLeavesNoGap
<1>10. Tick \/ UNCHANGED vars \/ (Replay /\ replay = <<>>)
         => /\ UNCHANGED <<calibrationVars, bodyVars, frame, lastFrame, sent>>
            /\ pc' = "threw" <=> pc = "threw"
  BY DEF Tick, vars, Replay
<1> QED BY <1>1, <1>2, <1>3, <1>4, <1>5, <1>6, <1>7, <1>8, <1>9, <1>10 DEF Next

LEMMA BaseInvInit == Init => Heard /\ NoGaps
<1> SUFFICES ASSUME Init PROVE Heard /\ NoGaps
  OBVIOUS
<1>1. /\ stateHistory = <<>> /\ replay = <<>> /\ ~hasPoseEstimate /\ ~everHadPose
      /\ ~m_calibComplete /\ ~m_imuBody /\ m_steadyVideoReports = 0
      /\ sent.time = 0 /\ now = 1 /\ frame = 0
  BY DEF Init, CalibrationInit, BodyInit
<1>2. Gapless(stateHistory, lastFrame) /\ Starts(stateHistory, lastFrame)
  <2>1. 1..(Len(<<>>) - 1) = {}
    OBVIOUS
  <2> QED BY <1>1, <2>1 DEF Gapless, Starts
<1> QED BY <1>1, <1>2 DEF Heard, NoGaps, hasEverHadPoseEstimate

LEMMA BaseWhenRegular ==
  ASSUME RegularImu, ImuPeriod + Backdate <= FrameInterval + 1
  PROVE  Spec => []BaseFound
<1>1. Inv /\ Heard /\ NoGaps => BaseFound
  BY BaseFoundIfStarts DEF BaseFound, NoGaps
<1>2. Inv /\ Inv' /\ Heard /\ NoGaps /\ [Next]_vars => Heard' /\ NoGaps'
  BY HeardNext, NoGapsNext
<1> QED BY <1>1, <1>2, InvInit, InvNext, BaseInvInit, PTL DEF Spec

\* Images that are not late are newer than every snapshot there is when they are
\* taken, and what comes in while one is processed goes behind those.
OnTime ==
  /\ lastFrame <= now /\ frame <= now
  /\ pc \in {"replay", "prune"} => frame = 0
  /\ frame # 0 /\ stateHistory # <<>> => stateHistory[1].time <= frame

LEMMA SnapshotsHeard ==
  ASSUME Inv, Heard, OnTime, stateHistory # <<>>
  PROVE  stateHistory[1].time <= now
<1>1. /\ stateHistory \in Seq(Snapshots) /\ now \in Nat /\ m_stateTime \in Nat
      /\ lastFrame \in Nat /\ sent.time \in Nat /\ m_state \in Seq(Events)
  BY HistoriesTimed DEF Inv, TypeOK, BodyTypeOK, States, Events
<1>2. 1 \in DOMAIN stateHistory
  BY <1>1
<1>3. stateHistory[1].time <= m_stateTime /\ stateHistory[1].time \in Nat
  BY <1>1, <1>2, NewestIsLast, HistoriesTimed DEF Inv, HistoryInv, TypeOK, Timed
<1>4. m_stateTime <= now
  <2>1. CASE m_state = <<>>
    BY <1>1, <2>1 DEF Inv, HistoryInv, BodyInv
  <2>2. CASE m_state # <<>>
    <3> DEFINE last == m_state[Len(m_state)]
    <3>1. Len(m_state) \in DOMAIN m_state
      BY <1>1, <2>2
    <3>2. last.time = m_stateTime
      BY <2>2 DEF Inv, HistoryInv, BodyInv
    <3>3. IF last.kind = "video" THEN last.time <= lastFrame ELSE Sent(last, sent)
      BY <3>1 DEF Inv, HistoryInv, BodyInv, StateOf
    <3> HIDE DEF last
    <3>4. last.time <= lastFrame \/ last.time <= sent.time
      BY <1>1, <3>2, <3>3 DEF Sent, Before
    <3> QED BY <1>1, <3>2, <3>4 DEF Heard, OnTime
  <2> QED BY <2>1, <2>2
<1> QED BY <1>1, <1>3, <1>4

LEMMA OnTimeNext ==
  ASSUME Backdate = 0
  PROVE  Inv /\ Inv' /\ Heard /\ OnTime /\ [Next]_vars => OnTime'
<1> SUFFICES ASSUME Inv, Inv', Heard, OnTime, [Next]_vars PROVE OnTime'
  OBVIOUS
<1>0. now \in Nat /\ frame \in Nat /\ lastFrame \in Nat /\ now' \in Nat
  BY DEF Inv, TypeOK
<1>1. CASE Tick \/ UNCHANGED vars
  BY <1>0, <1>1 DEF OnTime, Tick, vars, bodyVars
<1>2. CASE Grab
  <2>1. /\ frame' = now /\ now' = now /\ pc = "idle" /\ pc' = pc /\ lastFrame' = lastFrame
        /\ stateHistory' = stateHistory
    BY <1>0, <1>2 DEF Grab, bodyVars
  <2> QED BY <1>0, <2>1, SnapshotsHeard DEF OnTime
<1>3. CASE DropFrame
  BY <1>0, <1>3 DEF OnTime, DropFrame, bodyVars
<1>4. CASE Replay \/ Prune
  BY <1>4 DEF OnTime, Replay, Prune
<1>5. ASSUME NEW meas \in ImuMeasurements, NEW sign \in Signs, ImuMessage(meas, sign)
      PROVE  OnTime'
  <2>1. /\ now' = now /\ lastFrame' = lastFrame /\ frame' = frame /\ pc = "idle"
        /\ pc' \in {"idle", "threw"}
    BY <1>5 DEF ImuMessage, HandleImu, incorporateNewMeasurementFromIMU, bodyVars
  <2>2. stateHistory' # <<>> => stateHistory # <<>> /\ stateHistory'[1] = stateHistory[1]
    <3>1. CASE stateHistory' = stateHistory
      BY <3>1
    <3>2. CASE stateHistory' # stateHistory
      <4>1. m_calibComplete /\ ~outOfOrder(meas.time) /\ hasEverHadPoseEstimate
        BY <1>5, <3>2 DEF ImuMessage, HandleImu, incorporateNewMeasurementFromIMU, bodyVars
      <4>2. stateHistory # <<>>
        BY <4>1 DEF Inv, HistoryInv
      <4>3. stateHistory' = Append(stateHistory, Snapshot(meas.time, Append(m_state, meas)))
        BY <1>5, <3>2, <4>1, AppliedOrSeen DEF push_newest
      <4>4. stateHistory \in Seq(Snapshots)
        BY HistoriesTimed DEF Inv, TypeOK
      <4> QED BY <4>2, <4>3, <4>4
    <3> QED BY <3>1, <3>2
  <2> QED BY <2>1, <2>2 DEF OnTime
<1>6. ASSUME NEW meas, NEW sign, ImuOutOfOrder(meas, sign) PROVE OnTime'
  BY <1>6 DEF OnTime, ImuOutOfOrder, HandleImu
<1>7. ASSUME NEW pose, CalibrationFrame(pose) PROVE OnTime'
  BY <1>0, <1>7 DEF OnTime, CalibrationFrame, bodyVars
<1>8. ASSUME NEW outcome, updatePoseEstimates(outcome) PROVE OnTime'
  BY <1>0, <1>8 DEF OnTime, updatePoseEstimates
<1> QED BY <1>1, <1>2, <1>3, <1>4, <1>5, <1>6, <1>7, <1>8 DEF Next

LEMMA BaseWhenOnTime ==
  ASSUME Backdate = 0
  PROVE  Spec => []BaseFound
<1>1. Inv /\ OnTime => BaseFound
  <2> SUFFICES ASSUME Inv, OnTime, frame # 0, stateHistory # <<>> PROVE validState(frame)
    BY DEF BaseFound
  <2>1. stateHistory[1].time <= frame
    BY DEF OnTime
  <2> QED BY <2>1, BaseFoundIfOldEnough
<1>2. Init => OnTime
  BY DEF Init, OnTime
<1>3. Inv /\ Inv' /\ Heard /\ OnTime /\ [Next]_vars => Heard' /\ OnTime'
  BY HeardNext, OnTimeNext
<1> QED BY <1>1, <1>2, <1>3, InvInit, InvNext, BaseInvInit, PTL DEF Spec

\* Images that are not late; or a regular IMU whose period, with the delay of the
\* images, is within the time between two images.
FastEnough == Backdate = 0 \/ (RegularImu /\ ImuPeriod + Backdate <= FrameInterval + 1)

\* Then every image finds a snapshot to start from: pruning (TrackedBody.cpp,
\* pruneHistory) never removes the last one usable.
THEOREM AlwaysABase == FastEnough => (Spec => []BaseFound)
BY BaseWhenRegular, BaseWhenOnTime DEF FastEnough

\* Hence there, no measurement that was applied is lost by rolling back.
COROLLARY NothingForgottenWhenRegular == FastEnough => (Spec => []NoneForgotten)
<1> SUFFICES ASSUME FastEnough PROVE Spec => []NoneForgotten
  OBVIOUS
<1>1. Spec => []BaseFound
  BY AlwaysABase
<1> QED BY <1>1, NothingForgotten, PTL

-----------------------------------------------------------------------------
(***************************************************************************)
(* The snapshots are prefixes of the state, and hence rolling back and     *)
(* replaying puts an image in its place                                    *)
(***************************************************************************)
\* One more event applied and a snapshot taken of that.
LEMMA SnapshotTaken ==
  ASSUME NEW state \in Seq(Events), NEW history \in Seq(Snapshots), NEW e \in Events,
         NEW skipped \in Nat, Len(state) = skipped + Len(history),
         \A i \in DOMAIN history : AsOf(history[i], state, skipped + i)
  PROVE  LET state2 == Append(state, e)
             history2 == push_newest(history, Snapshot(e.time, state2))
         IN
         /\ Len(state2) - Len(history2) = skipped
         /\ \A i \in DOMAIN history2 : AsOf(history2[i], state2, skipped + i)
<1> DEFINE state2 == Append(state, e)
           history2 == push_newest(history, Snapshot(e.time, state2))
<1>1. /\ state2 \in Seq(Events) /\ Len(state) \in Nat /\ Len(state2) = Len(state) + 1
      /\ \A j \in 1..Len(state) : state2[j] = state[j]
      /\ state2[Len(state) + 1] = e
  BY Appended
<1>2. Snapshot(e.time, state2) \in Snapshots
  BY <1>1 DEF Snapshot, Snapshots, States, Events
<1>3. /\ Len(history) \in Nat /\ DOMAIN history = 1..Len(history)
      /\ Len(history2) = Len(history) + 1 /\ DOMAIN history2 = 1..(Len(history) + 1)
      /\ \A i \in 1..Len(history) : history2[i] = history[i]
      /\ history2[Len(history) + 1] = Snapshot(e.time, state2)
  BY <1>2, Appended DEF push_newest
<1> HIDE DEF state2, history2
<1>4. Len(state2) - Len(history2) = skipped
  BY <1>1, <1>3
<1>5. ASSUME NEW i \in 1..Len(history) PROVE AsOf(history2[i], state2, skipped + i)
  <2>1. AsOf(history[i], state, skipped + i) /\ history2[i] = history[i]
    BY <1>3
  <2>2. skipped + i \in 1..Len(state) /\ \A j \in 1..(skipped + i) : j \in 1..Len(state)
    BY <1>1, <1>3
  <2> QED BY <1>1, <2>1, <2>2 DEF AsOf
<1>6. AsOf(history2[Len(history) + 1], state2, skipped + (Len(history) + 1))
  <2>1. skipped + (Len(history) + 1) = Len(state2)
    BY <1>1, <1>3
  <2>2. state2[skipped + (Len(history) + 1)] = e
    BY <1>1, <2>1
  <2>3. history2[Len(history) + 1].state = state2 /\ history2[Len(history) + 1].time = e.time
    <3>1. history2[Len(history) + 1] = Snapshot(e.time, state2)
      BY ONLY <1>3
    <3>2. Snapshot(e.time, state2).state = state2 /\ Snapshot(e.time, state2).time = e.time
      BY ONLY DEF Snapshot
    <3> QED BY ONLY <3>1, <3>2
  <2> DEFINE k == skipped + (Len(history) + 1)
  <2> HIDE DEF k
  <2>4. AsOf(history2[Len(history) + 1], state2, k)
    BY <2>1, <2>2, <2>3 DEF AsOf, k
  <2> QED BY <2>4 DEF k
<1>7. \A i \in DOMAIN history2 : i \in 1..Len(history) \/ i = Len(history) + 1
  BY <1>3
<1> QED BY <1>4, <1>5, <1>6, <1>7 DEF state2, history2

\* What an image is applied to is the state as it was, up to what is not newer.
LEMMA GoneBackTo ==
  ASSUME Inv, PrefixInv, frame # 0, pc = "idle", validState(frame) \/ stateHistory = <<>>
  PROVE  \E n \in 0..Len(m_state) :
           /\ stateAt(frame) \in Seq(Events) /\ Len(stateAt(frame)) = n
           /\ \A j \in 1..n : stateAt(frame)[j] = m_state[j]
           /\ \A j \in DOMAIN m_state : j <= n <=> m_state[j].time <= frame
           /\ validState(frame) => n = Skipped + base(frame)
<1>1. /\ BodyTypeOK /\ m_state \in Seq(Events) /\ stateHistory \in Seq(Snapshots)
      /\ Timed(stateHistory) /\ frame \in Nat
      /\ Len(m_state) \in Nat /\ DOMAIN m_state = 1..Len(m_state)
      /\ Len(stateHistory) \in Nat /\ DOMAIN stateHistory = 1..Len(stateHistory)
  BY HistoriesTimed DEF Inv, TypeOK, BodyTypeOK, States
<1>2. CASE stateHistory = <<>>
  <2>1. m_state = <<>>
    BY <1>2 DEF Inv, HistoryInv, BodyInv
  <2>2. ~validState(frame) /\ stateAt(frame) = <<>>
    <3>1. Len(stateHistory) = 0 /\ ~\E b : b \in 1..Len(stateHistory)
      BY <1>2
    <3> QED BY <1>1, <3>1, StateAtOrBefore
  <2>3. <<>> \in Seq(Events) /\ Len(<<>>) = 0 /\ DOMAIN m_state = {} /\ 0 \in 0..Len(m_state)
        /\ \A j \in 1..0 : stateAt(frame)[j] = m_state[j]
    BY <1>1, <2>1
  <2> QED BY <2>1, <2>2, <2>3
<1>3. CASE validState(frame)
  <2> DEFINE b == base(frame)  n == Skipped + b
  <2>1. /\ b \in 1..Len(stateHistory) /\ b + 1 = upper_bound(stateHistory, frame)
        /\ stateTime(frame) = stateHistory[b].time /\ stateAt(frame) = stateHistory[b].state
        /\ stateTime(frame) \in Nat /\ stateTime(frame) <= frame /\ stateAt(frame) \in Seq(Events)
    BY <1>1, <1>3, StateAtOrBefore DEF States
  <2>2. Skipped \in Nat /\ Len(m_state) = Skipped + Len(stateHistory)
    BY <1>1 DEF PrefixInv, Skipped
  <2>3. b < Len(stateHistory) =>
          b + 1 \in DOMAIN stateHistory /\ stateHistory[b + 1].time > frame
    <3>1. b + 1 <= Len(stateHistory) => stateHistory[b + 1].time > frame
      BY <1>1, <2>1, UpperBound
    <3> HIDE DEF b
    <3> QED BY <1>1, <2>1, <3>1
  <2> HIDE DEF b
  <2>4. n \in 1..Len(m_state) /\ n \in Nat
    BY <1>1, <2>1, <2>2
  <2>5. AsOf(stateHistory[b], m_state, n)
    BY <1>1, <2>1 DEF PrefixInv
  <2>6. n < Len(m_state) => m_state[n + 1].time > frame
    <3>1. n < Len(m_state) => b + 1 \in DOMAIN stateHistory /\ stateHistory[b + 1].time > frame
      BY <1>1, <2>1, <2>2, <2>3
    <3>2. b + 1 \in DOMAIN stateHistory => stateHistory[b + 1].time = m_state[Skipped + (b + 1)].time
      BY DEF PrefixInv, AsOf
    <3>3. Skipped + (b + 1) = n + 1
      BY <2>1, <2>2
    <3> QED BY <3>1, <3>2, <3>3
  <2> HIDE DEF n
  <2>7. m_state[n].time <= frame
    BY <2>1, <2>5 DEF AsOf
  <2>8. \A j \in DOMAIN m_state : m_state[j].time \in Nat
    <3>1. \A j \in DOMAIN m_state : m_state[j] \in Events
      BY <1>1
    <3> QED BY <3>1 DEF Events
  <2>9. \A i, j \in DOMAIN m_state : i < j => m_state[i].time <= m_state[j].time
    BY DEF Inv, HistoryInv, BodyInv, StateOf, Ordered
  <2>10. ASSUME NEW j \in DOMAIN m_state PROVE j <= n <=> m_state[j].time <= frame
    <3>1. CASE j <= n
      <4>1. j = n \/ j < n
        BY <1>1, <2>4, <3>1
      <4>2. m_state[j].time <= m_state[n].time
        BY <1>1, <2>4, <2>8, <2>9, <4>1
      <4> QED BY <1>1, <2>4, <2>7, <2>8, <3>1, <4>2
    <3>2. CASE ~(j <= n)
      <4>1. n < Len(m_state) /\ n + 1 \in DOMAIN m_state /\ (j = n + 1 \/ n + 1 < j)
        BY <1>1, <2>4, <3>2
      <4>2. m_state[n + 1].time <= m_state[j].time
        BY <2>8, <2>9, <4>1
      <4> QED BY <1>1, <2>6, <2>8, <3>2, <4>1, <4>2
    <3> QED BY <3>1, <3>2
  <2>11. Len(stateAt(frame)) = n /\ \A j \in 1..n : stateAt(frame)[j] = m_state[j]
    BY <2>1, <2>5 DEF AsOf
  <2>12. n \in 0..Len(m_state) /\ n = Skipped + base(frame)
    BY <2>4 DEF n, b
  <2> QED BY <2>1, <2>10, <2>11, <2>12
<1> QED BY <1>2, <1>3

LEMMA ApplyKeepsPrefix ==
  ASSUME Inv, PrefixInv, NEW meas \in Events, m_state' = Append(m_state, meas),
         stateHistory' = push_newest(stateHistory, Snapshot(meas.time, Append(m_state, meas))),
         appliedIMU' = appliedIMU \cup {meas}
  PROVE  PrefixInv'
<1>1. /\ m_state \in Seq(Events) /\ stateHistory \in Seq(Snapshots)
      /\ Len(m_state) \in Nat /\ Len(stateHistory) \in Nat
  BY HistoriesTimed DEF Inv, TypeOK, BodyTypeOK, States
<1>2. /\ Skipped \in Nat /\ Len(m_state) = Skipped + Len(stateHistory)
      /\ \A i \in DOMAIN stateHistory : AsOf(stateHistory[i], m_state, Skipped + i)
  BY <1>1 DEF PrefixInv, Skipped
<1>3. /\ Len(m_state') - Len(stateHistory') = Skipped
      /\ \A i \in DOMAIN stateHistory' : AsOf(stateHistory'[i], m_state', Skipped + i)
  <2> DEFINE skipped == Skipped
  <2> HIDE DEF skipped
  <2>1. /\ skipped \in Nat /\ Len(m_state) = skipped + Len(stateHistory)
        /\ \A i \in DOMAIN stateHistory : AsOf(stateHistory[i], m_state, skipped + i)
    BY <1>2 DEF skipped
  <2>2. /\ Len(m_state') - Len(stateHistory') = skipped
        /\ \A i \in DOMAIN stateHistory' : AsOf(stateHistory'[i], m_state', skipped + i)
    BY <1>1, <2>1, SnapshotTaken
  <2> QED BY <2>2 DEF skipped
<1>4. ASSUME NEW i \in DOMAIN m_state', m_state'[i].kind # "video" PROVE m_state'[i] \in appliedIMU'
  <2>1. i \in 1..(Len(m_state) + 1) /\ DOMAIN m_state = 1..Len(m_state)
    BY <1>1, Appended
  <2>2. CASE i \in 1..Len(m_state)
    <3>1. m_state'[i] = m_state[i] /\ i \in DOMAIN m_state
      BY <1>1, <2>1, <2>2, Appended
    <3> QED BY <1>4, <3>1 DEF PrefixInv
  <2>3. CASE i = Len(m_state) + 1
    BY <1>1, <2>3, Appended
  <2> QED BY <1>1, <2>1, <2>2, <2>3
<1> QED BY <1>2, <1>3, <1>4 DEF PrefixInv, Skipped

LEMMA ImageKeepsPrefix ==
  ASSUME Inv, PrefixInv, frame # 0, pc = "idle", validState(frame) \/ stateHistory = <<>>,
         replaceStateSnapshot(frame), appliedIMU' = appliedIMU
  PROVE  PrefixInv'
<1> DEFINE image == [kind |-> "video", time |-> frame]
           kept == withoutInvalidated(frame)
<1>1. /\ m_state \in Seq(Events) /\ stateHistory \in Seq(Snapshots) /\ BodyTypeOK
      /\ Timed(stateHistory) /\ Len(m_state) \in Nat /\ Len(stateHistory) \in Nat
      /\ DOMAIN stateHistory = 1..Len(stateHistory)
      /\ frame \in Nat /\ image \in Events /\ image.kind = "video" /\ image.time = frame
  BY HistoriesTimed DEF Inv, TypeOK, BodyTypeOK, States, Events, Kinds
<1>2. PICK n \in 0..Len(m_state) :
        /\ stateAt(frame) \in Seq(Events) /\ Len(stateAt(frame)) = n
        /\ \A j \in 1..n : stateAt(frame)[j] = m_state[j]
        /\ validState(frame) => n = Skipped + base(frame)
  BY GoneBackTo
<1>3. /\ Skipped \in Nat /\ Len(m_state) = Skipped + Len(stateHistory)
      /\ \A i \in DOMAIN stateHistory : AsOf(stateHistory[i], m_state, Skipped + i)
  BY <1>1 DEF PrefixInv, Skipped
<1>4. \E skipped \in Nat :
        /\ n = skipped + Len(kept) /\ kept \in Seq(Snapshots)
        /\ \A i \in DOMAIN kept : AsOf(kept[i], stateAt(frame), skipped + i)
        /\ m_state' = Append(stateAt(frame), image)
        /\ stateHistory' = push_newest(kept, Snapshot(frame, Append(stateAt(frame), image)))
  <2>1. CASE validState(frame)
    <3>1. /\ base(frame) \in 1..Len(stateHistory)
          /\ kept \in Seq(Snapshots) /\ Len(kept) = base(frame)
          /\ \A i \in 1..base(frame) : kept[i] = stateHistory[i]
          /\ m_state' = Append(stateAt(frame), image)
          /\ stateHistory' = push_newest(kept, Snapshot(frame, Append(stateAt(frame), image)))
      BY <2>1, RolledBack
    <3> HIDE DEF kept, image
    <3>2. ASSUME NEW i \in DOMAIN kept PROVE AsOf(kept[i], stateAt(frame), Skipped + i)
      <4>1. i \in 1..base(frame) /\ i \in DOMAIN stateHistory
        BY <1>1, <3>1
      <4>2. AsOf(stateHistory[i], m_state, Skipped + i) /\ kept[i] = stateHistory[i]
        BY <1>3, <3>1, <4>1
      <4>3. Skipped + i \in 1..n /\ \A j \in 1..(Skipped + i) : j \in 1..n
        BY <1>1, <1>2, <1>3, <2>1, <3>1, <4>1
      <4> QED BY <1>2, <4>2, <4>3 DEF AsOf
    <3>3. n = Skipped + Len(kept)
      BY <1>2, <2>1, <3>1
    <3> QED BY <1>3, <3>1, <3>2, <3>3
  <2>2. CASE ~validState(frame) /\ stateHistory = <<>>
    <3>1. stateTime(frame) \in Nat /\ stateAt(frame) = <<>>
      BY <1>1, <2>2, StateAtOrBefore
    <3>2. kept \in Seq(Snapshots) /\ Len(kept) = 0
      <4>1. kept \in Seq(Snapshots) /\ Len(kept) \in 0..Len(stateHistory)
        <5> DEFINE t == stateTime(frame)  l == upper_bound(stateHistory, t) - 1
        <5>1. t \in Nat /\ kept = pop_after(stateHistory, t)
          BY <3>1 DEF withoutInvalidated
        <5> HIDE DEF kept, t
        <5>2. kept \in Seq(Snapshots) /\ l \in 0..Len(stateHistory) /\ Len(kept) = l
          BY <1>1, <5>1, PopAfter
        <5> QED BY <5>2
      <4>2. Len(stateHistory) = 0
        BY <2>2
      <4> HIDE DEF kept
      <4> QED BY <4>1, <4>2
    <3>3. kept = <<>> /\ DOMAIN kept = {}
      <4> HIDE DEF kept
      <4> QED BY <3>2
    <3>4. is_valid_to_push_newest(kept, frame)
      BY <3>3 DEF is_valid_to_push_newest
    <3>5. /\ m_state' = Append(stateAt(frame), image)
          /\ stateHistory' = push_newest(kept, Snapshot(frame, Append(stateAt(frame), image)))
      BY <3>4 DEF replaceStateSnapshot
    <3>6. n = 0 + Len(kept) /\ 0 \in Nat
      <4>1. Len(stateAt(frame)) = 0
        BY <3>1
      <4> QED BY <1>2, <3>2, <4>1
    <3> HIDE DEF kept
    <3> QED BY <3>2, <3>3, <3>5, <3>6
  <2> QED BY <2>1, <2>2
<1>5. PICK skipped \in Nat :
        /\ n = skipped + Len(kept) /\ kept \in Seq(Snapshots)
        /\ \A i \in DOMAIN kept : AsOf(kept[i], stateAt(frame), skipped + i)
        /\ m_state' = Append(stateAt(frame), image)
        /\ stateHistory' = push_newest(kept, Snapshot(frame, Append(stateAt(frame), image)))
  BY <1>4
<1>6. /\ Len(m_state') - Len(stateHistory') = skipped
      /\ \A i \in DOMAIN stateHistory' : AsOf(stateHistory'[i], m_state', skipped + i)
  <2>1. stateHistory' = push_newest(kept, Snapshot(image.time, m_state'))
    BY <1>1, <1>5
  <2>2. Len(stateAt(frame)) = skipped + Len(kept)
    BY <1>2, <1>5
  <2> DEFINE state == stateAt(frame)
  <2> HIDE DEF kept, image, state
  <2>3. /\ state \in Seq(Events) /\ Len(state) = skipped + Len(kept)
        /\ \A i \in DOMAIN kept : AsOf(kept[i], state, skipped + i)
        /\ m_state' = Append(state, image)
    BY <1>2, <1>5, <2>2 DEF state
  <2>4. stateHistory' = push_newest(kept, Snapshot(image.time, Append(state, image)))
    BY <2>1, <2>3
  <2> DEFINE state2 == Append(state, image)
             history2 == push_newest(kept, Snapshot(image.time, state2))
  <2>5. /\ Len(state2) - Len(history2) = skipped
        /\ \A i \in DOMAIN history2 : AsOf(history2[i], state2, skipped + i)
    BY <1>1, <1>5, <2>3, SnapshotTaken
  <2>6. m_state' = state2 /\ stateHistory' = history2
    BY <2>3, <2>4
  <2> HIDE DEF state2, history2
  <2> QED BY <2>5, <2>6
<1>7. ASSUME NEW i \in DOMAIN m_state', m_state'[i].kind # "video" PROVE m_state'[i] \in appliedIMU'
  <2> HIDE DEF image
  <2>1. /\ i \in 1..(n + 1) /\ m_state'[n + 1] = image /\ DOMAIN m_state = 1..Len(m_state)
        /\ \A j \in 1..n : m_state'[j] = stateAt(frame)[j]
    BY <1>1, <1>2, <1>5, Appended
  <2>2. i \in 1..n /\ i \in DOMAIN m_state
    BY <1>1, <1>7, <2>1
  <2>3. m_state'[i] = m_state[i]
    BY <1>2, <2>1, <2>2
  <2> QED BY <1>7, <2>2, <2>3 DEF PrefixInv
<1> QED BY <1>6, <1>7 DEF PrefixInv, Skipped

LEMMA PrefixNext == Inv /\ Inv' /\ PrefixInv /\ BaseFound /\ [Next]_vars => PrefixInv'
<1> SUFFICES ASSUME Inv, Inv', PrefixInv, BaseFound, [Next]_vars PROVE PrefixInv'
  OBVIOUS
<1>0. TypeOK /\ replay \in Seq(Events)
  BY DEF Inv, TypeOK, BodyTypeOK
<1>1. ASSUME UNCHANGED <<m_state, stateHistory, appliedIMU>> PROVE PrefixInv'
  BY <1>1 DEF PrefixInv, Skipped
<1>2. CASE Tick \/ Grab \/ DropFrame \/ UNCHANGED vars
  BY <1>1, <1>2 DEF Tick, Grab, DropFrame, vars, bodyVars
<1>3. CASE Replay
  <2>1. CASE replay = <<>>
    BY <1>1, <1>3, <2>1 DEF Replay, bodyVars
  <2>2. CASE replay # <<>>
    <3>1. ReplayOne /\ UNCHANGED <<lastFrame, sent, frame>>
      BY <1>3, <2>2 DEF Replay
    <3>2. /\ m_state' = Append(m_state, Head(replay)) /\ m_stateTime' = Head(replay).time
          /\ stateHistory' = push_newest(stateHistory, Snapshot(m_stateTime', m_state'))
          /\ appliedIMU' = appliedIMU \cup {Head(replay)}
      BY <2>2, <3>1, ReplayKeepsOrder DEF Inv
    <3>3. Head(replay) \in Events
      BY <1>0, <2>2, HeadAndTail
    <3>4. stateHistory' =
            push_newest(stateHistory, Snapshot(Head(replay).time, Append(m_state, Head(replay))))
      BY <3>2
    <3> QED BY <3>2, <3>3, <3>4, ApplyKeepsPrefix
  <2> QED BY <2>1, <2>2
<1>4. CASE Prune
  <2>1. UNCHANGED <<m_state, appliedIMU>> /\ pruneHistory(lastFrame)
    BY <1>4 DEF Prune
  <2>2. PICK n \in 0..Len(stateHistory) :
          /\ Len(stateHistory') = Len(stateHistory) - n
          /\ DOMAIN stateHistory' = 1..(Len(stateHistory) - n)
          /\ \A i \in 1..(Len(stateHistory) - n) : stateHistory'[i] = stateHistory[n + i]
    BY <1>0, <2>1, KeptWereThere
  <2>3. /\ Len(stateHistory) \in Nat /\ DOMAIN stateHistory = 1..Len(stateHistory)
        /\ Len(m_state) \in Nat
    BY <1>0, HistoriesTimed DEF TypeOK, BodyTypeOK, States
  <2>4. Skipped' = Skipped + n /\ Skipped \in Nat
    BY <2>1, <2>2, <2>3 DEF Skipped, PrefixInv
  <2>5. ASSUME NEW i \in DOMAIN stateHistory' PROVE AsOf(stateHistory'[i], m_state', Skipped' + i)
    <3>1. n + i \in DOMAIN stateHistory /\ stateHistory'[i] = stateHistory[n + i]
      BY <2>2, <2>3
    <3>2. Skipped' + i = Skipped + (n + i)
      BY <2>2, <2>3, <2>4
    <3>3. AsOf(stateHistory[n + i], m_state, Skipped + (n + i))
      BY <3>1 DEF PrefixInv
    <3> QED BY <2>1, <3>1, <3>2, <3>3
  <2>6. Skipped' >= 0
    BY <2>2, <2>4
  <2>7. \A i \in DOMAIN m_state' : m_state'[i].kind # "video" => m_state'[i] \in appliedIMU'
    BY <2>1 DEF PrefixInv
  <2> QED BY <2>5, <2>6, <2>7 DEF PrefixInv
<1>5. ASSUME NEW meas \in ImuMeasurements, NEW sign \in Signs, ImuMessage(meas, sign)
      PROVE  PrefixInv'
  <2>1. CASE ~m_calibComplete \/ outOfOrder(meas.time) \/ ~hasEverHadPoseEstimate
    BY <1>1, <1>5, <2>1
    DEF ImuMessage, HandleImu, bodyVars, incorporateNewMeasurementFromIMU
  <2>2. CASE m_calibComplete /\ ~outOfOrder(meas.time) /\ hasEverHadPoseEstimate
    <3>1. meas \in Events
      BY ImuAreEvents
    <3> QED BY <1>1, <1>5, <2>2, <3>1, AppliedOrSeen, ApplyKeepsPrefix
  <2> QED BY <2>1, <2>2
<1>6. ASSUME NEW meas \in ImuMeasurements, NEW sign \in Signs, ImuOutOfOrder(meas, sign)
      PROVE  PrefixInv'
  BY <1>1, <1>6 DEF ImuOutOfOrder, HandleImu
<1>7. ASSUME NEW pose \in {"none", "still", "moving"}, CalibrationFrame(pose) PROVE PrefixInv'
  BY <1>1, <1>7 DEF CalibrationFrame, bodyVars
<1>8. ASSUME NEW outcome \in {"noLeds", "noPose", "pose"}, updatePoseEstimates(outcome)
      PROVE  PrefixInv'
  <2>1. CASE outcome = "pose"
    <3>1. pc = "idle" /\ frame # 0 /\ appliedIMU' = appliedIMU /\ replaceStateSnapshot(frame)
      BY <1>8, <2>1 DEF updatePoseEstimates
    <3>2. validState(frame) \/ stateHistory = <<>>
      BY <3>1 DEF BaseFound
    <3> QED BY <3>1, <3>2, ImageKeepsPrefix
  <2>2. CASE outcome # "pose"
    BY <1>1, <1>8, <2>2 DEF updatePoseEstimates
  <2> QED BY <2>1, <2>2
<1> QED BY <1>2, <1>3, <1>4, <1>5, <1>6, <1>7, <1>8 DEF Next

\* What is replayed first goes to the end of the state.
LEMMA MovedOver ==
  ASSUME NEW T, NEW s \in Seq(T), NEW q \in Seq(T), q # <<>>
  PROVE  Append(s, Head(q)) \o Tail(q) = s \o q
<1> DEFINE longer == Append(s, Head(q))  rest == Tail(q)
<1>1. /\ Head(q) = q[1] /\ Head(q) \in T /\ rest \in Seq(T)
      /\ Len(q) \in Nat /\ Len(q) >= 1 /\ Len(rest) = Len(q) - 1
      /\ \A i \in 1..(Len(q) - 1) : rest[i] = q[i + 1]
  <2>1. Len(q) \in Nat /\ Len(q) # 0
    OBVIOUS
  <2>2. DOMAIN Tail(q) = 1..(Len(q) - 1)
    BY <2>1, HeadAndTail
  <2> QED BY <2>1, <2>2, HeadAndTail
<1>2. /\ longer \in Seq(T) /\ Len(s) \in Nat /\ Len(longer) = Len(s) + 1
      /\ \A i \in 1..Len(s) : longer[i] = s[i]
      /\ longer[Len(s) + 1] = q[1]
  BY <1>1, Appended
<1> HIDE DEF longer, rest
<1>3. /\ longer \o rest \in Seq(T) /\ Len(longer \o rest) = Len(s) + Len(q)
      /\ \A i \in 1..(Len(s) + Len(q)) :
           (longer \o rest)[i] = IF i <= Len(s) + 1 THEN longer[i] ELSE rest[i - (Len(s) + 1)]
  <2>1. Len(longer) + Len(rest) = Len(s) + Len(q)
    BY <1>1, <1>2
  <2>2. /\ longer \o rest \in Seq(T) /\ Len(longer \o rest) = Len(longer) + Len(rest)
        /\ \A i \in 1..(Len(longer) + Len(rest)) :
             (longer \o rest)[i] = IF i <= Len(longer) THEN longer[i] ELSE rest[i - Len(longer)]
    BY <1>1, <1>2, ConcatProperties
  <2> QED BY <1>2, <2>1, <2>2
<1>4. /\ s \o q \in Seq(T) /\ Len(s \o q) = Len(s) + Len(q)
      /\ \A i \in 1..(Len(s) + Len(q)) :
           (s \o q)[i] = IF i <= Len(s) THEN s[i] ELSE q[i - Len(s)]
  BY ConcatProperties
<1>5. ASSUME NEW i \in 1..(Len(s) + Len(q)) PROVE (longer \o rest)[i] = (s \o q)[i]
  <2>1. CASE i <= Len(s)
    <3>1. i \in 1..Len(s) /\ i <= Len(s) + 1
      BY <1>2, <2>1
    <3> QED BY <1>2, <1>3, <1>4, <2>1, <3>1
  <2>2. CASE i = Len(s) + 1
    <3>1. ~(i <= Len(s)) /\ i <= Len(s) + 1 /\ i - Len(s) = 1
      BY <1>2, <2>2
    <3>2. (longer \o rest)[i] = longer[i] /\ (s \o q)[i] = q[i - Len(s)]
      BY <1>3, <1>4, <3>1
    <3> QED BY <1>2, <2>2, <3>1, <3>2
  <2>3. CASE i > Len(s) + 1
    <3>1. /\ ~(i <= Len(s)) /\ ~(i <= Len(s) + 1)
          /\ i - (Len(s) + 1) \in 1..(Len(q) - 1) /\ (i - (Len(s) + 1)) + 1 = i - Len(s)
      BY <1>1, <1>2, <2>3
    <3>2. (longer \o rest)[i] = rest[i - (Len(s) + 1)] /\ (s \o q)[i] = q[i - Len(s)]
      BY <1>3, <1>4, <3>1
    <3>3. rest[i - (Len(s) + 1)] = q[(i - (Len(s) + 1)) + 1]
      BY <1>1, <3>1
    <3> QED BY <3>1, <3>2, <3>3
  <2> QED BY <1>1, <1>2, <2>1, <2>2, <2>3
<1>6. Len(longer \o rest) = Len(s \o q) /\ \A i \in 1..Len(longer \o rest) :
        (longer \o rest)[i] = (s \o q)[i]
  BY <1>3, <1>4, <1>5
<1>7. longer \o rest = s \o q
  BY <1>3, <1>4, <1>6, SeqEqual
<1> QED BY <1>7 DEF longer, rest

LEMMA Behind ==
  ASSUME NEW T, NEW s \in Seq(T), NEW t \in Seq(T), NEW n \in Nat, n = Len(s) + 1
  PROVE  SubSeq(s \o t, n, Len(s \o t)) = t
<1> DEFINE st == s \o t
<1>1. /\ st \in Seq(T) /\ Len(st) = Len(s) + Len(t) /\ Len(s) \in Nat /\ Len(t) \in Nat
      /\ \A i \in 1..(Len(s) + Len(t)) : st[i] = IF i <= Len(s) THEN s[i] ELSE t[i - Len(s)]
  BY ConcatProperties
<1> HIDE DEF st
<1>2. n \in 1..(Len(st) + 1) /\ Len(st) \in (n - 1)..Len(st)
  BY <1>1
<1>3. /\ SubSeq(st, n, Len(st)) \in Seq(T)
      /\ Len(SubSeq(st, n, Len(st))) = Len(st) - n + 1
      /\ \A i \in 1..(Len(st) - n + 1) : SubSeq(st, n, Len(st))[i] = st[n + i - 1]
  BY <1>1, <1>2, Slice
<1>4. Len(st) - n + 1 = Len(t)
  BY <1>1
<1>5. ASSUME NEW i \in 1..Len(t) PROVE SubSeq(st, n, Len(st))[i] = t[i]
  <2>1. n + i - 1 \in 1..(Len(s) + Len(t)) /\ ~(n + i - 1 <= Len(s)) /\ (n + i - 1) - Len(s) = i
    BY <1>1
  <2>2. st[n + i - 1] = t[(n + i - 1) - Len(s)]
    BY <1>1, <2>1
  <2> QED BY <1>3, <1>4, <2>1, <2>2
<1>6. SubSeq(st, n, Len(st)) = t
  BY <1>3, <1>4, <1>5, SeqEqual
<1> QED BY <1>6 DEF st

\* The elements of one sequence and another.
LEMMA InEither ==
  ASSUME NEW T, NEW s \in Seq(T), NEW t \in Seq(T), NEW x
  PROVE  x \in Body!Elements(s \o t) <=> Has(s, x) \/ Has(t, x)
<1>1. /\ s \o t \in Seq(T) /\ Len(s \o t) = Len(s) + Len(t) /\ Len(s) \in Nat /\ Len(t) \in Nat
      /\ \A i \in 1..(Len(s) + Len(t)) : (s \o t)[i] = IF i <= Len(s) THEN s[i] ELSE t[i - Len(s)]
  BY ConcatProperties
<1>2. DOMAIN s = 1..Len(s) /\ DOMAIN t = 1..Len(t) /\ DOMAIN (s \o t) = 1..(Len(s) + Len(t))
  BY <1>1
<1>3. ASSUME NEW i \in DOMAIN (s \o t) PROVE Has(s, (s \o t)[i]) \/ Has(t, (s \o t)[i])
  <2>1. CASE i <= Len(s)
    <3>1. i \in DOMAIN s /\ (s \o t)[i] = s[i]
      BY <1>1, <1>2, <2>1
    <3> QED BY <3>1 DEF Has
  <2>2. CASE ~(i <= Len(s))
    <3>1. i - Len(s) \in DOMAIN t /\ (s \o t)[i] = t[i - Len(s)]
      BY <1>1, <1>2, <2>2
    <3> QED BY <3>1 DEF Has
  <2> QED BY <2>1, <2>2
<1>4. ASSUME NEW i \in DOMAIN s PROVE \E k \in DOMAIN (s \o t) : (s \o t)[k] = s[i]
  <2>1. i \in DOMAIN (s \o t) /\ i <= Len(s) /\ i \in 1..(Len(s) + Len(t))
    BY <1>1, <1>2
  <2>2. (s \o t)[i] = s[i]
    BY <1>1, <2>1
  <2> QED BY <2>1, <2>2
<1>5. ASSUME NEW i \in DOMAIN t PROVE \E k \in DOMAIN (s \o t) : (s \o t)[k] = t[i]
  <2>1. Len(s) + i \in DOMAIN (s \o t) /\ ~(Len(s) + i <= Len(s)) /\ (Len(s) + i) - Len(s) = i
        /\ Len(s) + i \in 1..(Len(s) + Len(t))
    BY <1>1, <1>2
  <2>2. (s \o t)[Len(s) + i] = t[(Len(s) + i) - Len(s)]
    BY <1>1, <2>1
  <2> QED BY <2>1, <2>2
<1> DEFINE st == s \o t
<1>6. x \in Body!Elements(st) <=> Has(st, x)
  BY DEF Has, Body!Elements
<1>7. Has(st, x) => Has(s, x) \/ Has(t, x)
  BY <1>3 DEF Has
<1>8. Has(s, x) \/ Has(t, x) => Has(st, x)
  BY <1>4, <1>5 DEF Has
<1> QED BY <1>6, <1>7, <1>8

LEMMA FusionStarts == Init => Body!Start
<1> SUFFICES ASSUME Init PROVE Body!Start
  OBVIOUS
<1>1. m_state = <<>> /\ replay = <<>> /\ imuMeasurements = <<>> /\ lastFrame = 0
  BY DEF Init, BodyInit
<1>2. <<>> \o <<>> = <<>>
  OBVIOUS
<1>3. {imuMeasurements[i] : i \in DOMAIN imuMeasurements} = {}
  BY <1>1
<1> QED BY <1>1, <1>2, <1>3 DEF Body!Start

\* A measurement that comes in.
LEMMA MessageMeasures ==
  ASSUME Inv, Inv', NEW meas \in ImuMeasurements, NEW sign \in Signs, ImuMessage(meas, sign),
         m_calibComplete, ~outOfOrder(meas.time)
  PROVE  Body!Promise
<1>1. /\ replay = <<>> /\ replay' = <<>> /\ lastFrame' = lastFrame /\ meas \in Events
      /\ meas.kind # "video" /\ m_state \in Seq(Events) /\ m_state' \in Seq(Events)
      /\ imuMeasurements \in Seq(Events) /\ m_stateTime \in Nat /\ meas.time \in Nat
  BY FollowsIsBefore
  DEF Inv, TypeOK, BodyTypeOK, States, HistoryInv, ImuMessage, HandleImu,
      incorporateNewMeasurementFromIMU, Events
<1>2. m_state \o replay = m_state /\ m_state' \o replay' = m_state'
  BY <1>1, ConcatEmptySeq
<1>3. imuMeasurements' = Append(imuMeasurements, meas)
  BY DEF ImuMessage, HandleImu, incorporateNewMeasurementFromIMU, push_newest
<1> DEFINE old == {imuMeasurements[i] : i \in DOMAIN imuMeasurements}
           new == {imuMeasurements'[i] : i \in DOMAIN imuMeasurements'}
<1>4. new = old \cup {meas}
  <2>1. /\ Len(imuMeasurements) \in Nat /\ DOMAIN imuMeasurements = 1..Len(imuMeasurements)
        /\ DOMAIN imuMeasurements' = 1..(Len(imuMeasurements) + 1)
        /\ \A i \in 1..Len(imuMeasurements) : imuMeasurements'[i] = imuMeasurements[i]
        /\ imuMeasurements'[Len(imuMeasurements) + 1] = meas
    BY <1>1, <1>3, Appended
  <2>2. \A i \in 1..(Len(imuMeasurements) + 1) :
          i \in 1..Len(imuMeasurements) \/ i = Len(imuMeasurements) + 1
    BY <2>1
  <2>3. Len(imuMeasurements) + 1 \in 1..(Len(imuMeasurements) + 1)
        /\ \A i \in 1..Len(imuMeasurements) : i \in 1..(Len(imuMeasurements) + 1)
    BY <2>1
  <2> QED BY <2>1, <2>2, <2>3
<1>5. \/ m_state' = m_state
      \/ m_state' = Append(m_state, meas) /\ \A i \in DOMAIN m_state : m_state[i].time <= meas.time
  <2>1. CASE ~hasEverHadPoseEstimate
    BY <2>1 DEF ImuMessage, HandleImu, incorporateNewMeasurementFromIMU
  <2>2. CASE hasEverHadPoseEstimate /\ worthApplying(meas.time)
    <3>1. m_state' = Append(m_state, meas)
      BY <2>2 DEF ImuMessage, HandleImu, incorporateNewMeasurementFromIMU, applyIMUMeasurement
    <3>2. m_stateTime <= meas.time
      BY <1>1, <2>2, NewestIsLast DEF Inv, HistoryInv
    <3>3. ASSUME NEW i \in DOMAIN m_state PROVE m_state[i].time <= meas.time
      <4>1. m_state[i] \in Events
        BY <1>1
      <4>2. m_state[i].time \in Nat /\ m_state[i].time <= m_stateTime
        BY <4>1 DEF Events, Inv, HistoryInv, BodyInv, StateOf
      <4> QED BY <1>1, <3>2, <4>2
    <3> QED BY <3>1, <3>3
  <2>3. CASE hasEverHadPoseEstimate /\ ~worthApplying(meas.time)
    BY <2>3 DEF ImuMessage, HandleImu, incorporateNewMeasurementFromIMU, applyIMUMeasurement
  <2> QED BY <2>1, <2>2, <2>3
<1> HIDE DEF old, new
<1>6. Body!Measure(meas)
  BY <1>1, <1>2, <1>4, <1>5 DEF Body!Measure, old, new
<1>7. meas \in new
  BY <1>4
<1> QED BY <1>1, <1>6, <1>7 DEF Body!Promise, new

\* An image with a pose, and what is to be replayed behind it.
LEMMA ImageInserted ==
  ASSUME Inv, Inv', KeptInv', PrefixInv, frame # 0, pc = "idle",
         validState(frame) \/ stateHistory = <<>>, replaceStateSnapshot(frame),
         lastFrame' = frame, sent' = sent, UNCHANGED <<imuMeasurements, appliedIMU>>
  PROVE  Body!Promise
<1> DEFINE image == [kind |-> "video", time |-> frame]
           state == stateAt(frame)
           kept == {imuMeasurements[i] : i \in DOMAIN imuMeasurements}
<1>1. /\ m_state \in Seq(Events) /\ m_state' \in Seq(Events) /\ replay' \in Seq(Events)
      /\ imuMeasurements \in Seq(Events) /\ replay = <<>>
      /\ frame \in Nat /\ lastFrame \in Nat /\ frame > lastFrame
      /\ image \in Events /\ image.kind = "video" /\ image.time = frame
      /\ Len(m_state) \in Nat /\ DOMAIN m_state = 1..Len(m_state)
  BY DEF Inv, TypeOK, BodyTypeOK, HistoryInv, States, Events, Kinds
<1>2. PICK n \in 0..Len(m_state) :
        /\ state \in Seq(Events) /\ Len(state) = n
        /\ \A j \in 1..n : state[j] = m_state[j]
        /\ \A j \in DOMAIN m_state : j <= n <=> m_state[j].time <= frame
  BY GoneBackTo
<1>3. m_state' = Append(state, image)
  BY DEF replaceStateSnapshot
<1> HIDE DEF state, image
<1>4. state = SubSeq(m_state, 1, n)
  <2>1. 1 \in 1..(Len(m_state) + 1) /\ n \in (1 - 1)..Len(m_state) /\ n - 1 + 1 = n
    BY <1>1, <1>2
  <2>2. /\ SubSeq(m_state, 1, n) \in Seq(Events) /\ Len(SubSeq(m_state, 1, n)) = n - 1 + 1
        /\ \A i \in 1..(n - 1 + 1) : SubSeq(m_state, 1, n)[i] = m_state[1 + i - 1]
    BY <1>1, <2>1, Slice
  <2>3. \A i \in 1..n : 1 + i - 1 = i
    OBVIOUS
  <2>4. \A i \in 1..Len(state) : state[i] = SubSeq(m_state, 1, n)[i]
    BY <1>2, <2>1, <2>2, <2>3
  <2> QED BY <1>2, <2>1, <2>2, <2>4, SeqEqual
<1>5. Len(m_state') = n + 1 /\ n + 2 \in Nat /\ n + 2 = Len(m_state') + 1
  <2>1. Len(m_state') = n + 1
    BY <1>1, <1>2, <1>3, Appended
  <2> QED BY <2>1
<1>6. m_state \o replay = m_state
  BY <1>1, ConcatEmptySeq
<1> DEFINE estimate == m_state' \o replay'
           again == SubSeq(estimate, n + 2, Len(estimate))
<1>7. again = replay'
  BY <1>1, <1>5, Behind
<1>8. MeasurementsInOrder(replay', sent') /\ \A j \in DOMAIN replay' : Has(imuMeasurements, replay'[j])
  BY DEF Inv, HistoryInv, Replaying
<1>9. \A j \in DOMAIN replay' : replay'[j].time > frame
  BY <1>1, ReplaceKeepsOrder DEF Inv
<1>10. \A i \in DOMAIN imuMeasurements :
         imuMeasurements[i].time > frame => Has(replay', imuMeasurements[i])
  BY ImageReplays
<1>11. Body!Elements(replay') = {meas \in kept : meas.time > frame}
  <2>1. ASSUME NEW j \in DOMAIN replay' PROVE replay'[j] \in kept /\ replay'[j].time > frame
    BY <1>8, <1>9 DEF Has
  <2>2. ASSUME NEW meas \in kept, meas.time > frame PROVE meas \in Body!Elements(replay')
    <3>1. PICK i \in DOMAIN imuMeasurements : imuMeasurements[i] = meas
      OBVIOUS
    <3>2. Has(replay', meas)
      BY <1>10, <2>2, <3>1
    <3> QED BY <3>2 DEF Has, Body!Elements
  <2>3. ASSUME NEW meas \in Body!Elements(replay') PROVE meas \in kept /\ meas.time > frame
    <3>1. PICK j \in DOMAIN replay' : replay'[j] = meas
      BY DEF Body!Elements
    <3> QED BY <2>1, <3>1
  <2> QED BY <2>2, <2>3
<1>12. \A i, j \in DOMAIN replay' : i < j => Body!Sooner(replay'[i], replay'[j])
  BY <1>8 DEF MeasurementsInOrder, Before, Body!Sooner
<1>13. Body!Elements(m_state \o replay) \subseteq Body!Elements(estimate)
  <2> SUFFICES ASSUME NEW e \in Body!Elements(m_state \o replay)
               PROVE  e \in Body!Elements(estimate)
    OBVIOUS
  <2>1. PICK i \in DOMAIN m_state : m_state[i] = e
    BY <1>6 DEF Body!Elements
  <2>2. Has(m_state', e) \/ Has(replay', e)
    <3>1. CASE e.kind = "video"
      <4>1. e \in Events /\ e.time \in Nat /\ e.time <= lastFrame
        <5>1. e \in Events
          BY <1>1, <2>1
        <5>2. e.time <= lastFrame
          BY <2>1, <3>1 DEF Inv, HistoryInv, BodyInv, StateOf
        <5> QED BY <5>1, <5>2 DEF Events
      <4>2. i <= n /\ i \in 1..n
        BY <1>1, <1>2, <2>1, <4>1
      <4>3. i \in DOMAIN m_state' /\ m_state'[i] = e
        BY <1>1, <1>2, <1>3, <2>1, <4>2, Appended
      <4> QED BY <4>3 DEF Has
    <3>2. CASE e.kind # "video"
      <4>1. e \in appliedIMU'
        BY <2>1, <3>2 DEF PrefixInv
      <4> QED BY <4>1 DEF KeptInv
    <3> QED BY <3>1, <3>2
  <2> QED BY <1>1, <2>2, InEither
<1>14. estimate = Append(SubSeq(m_state, 1, n), image) \o again
  BY <1>3, <1>4, <1>7
<1>15. {imuMeasurements'[i] : i \in DOMAIN imuMeasurements'} = kept
  OBVIOUS
<1> HIDE DEF estimate, again, kept
<1>16. Body!Insert(image)
  BY <1>1, <1>2, <1>6, <1>7, <1>11, <1>12, <1>13, <1>14, <1>15
  DEF Body!Insert, estimate, again, kept
<1>17. Body!Insert([kind |-> "video", time |-> lastFrame'])
  BY <1>16 DEF image
<1> QED BY <1>17 DEF Body!Promise

LEMMA PruneForgets ==
  ASSUME Inv, Prune
  PROVE  Body!Forget
<1> DEFINE old == {imuMeasurements[i] : i \in DOMAIN imuMeasurements}
           new == {imuMeasurements'[i] : i \in DOMAIN imuMeasurements'}
<1>1. TypeOK /\ pruneHistory(lastFrame) /\ UNCHANGED <<m_state, replay, lastFrame>>
  BY DEF Inv, Prune
<1>2. new \subseteq old
  BY <1>1, KeptWereThere
<1>3. ASSUME NEW meas \in old \ new PROVE meas.time <= lastFrame
  <2>1. Has(imuMeasurements, meas) /\ ~Has(imuMeasurements', meas)
    BY DEF Has
  <2>2. ~(meas.time > lastFrame)
    BY <1>1, <2>1, KeptWereThere
  <2>3. meas.time \in Nat /\ lastFrame \in Nat
    BY <1>1, <2>1, HistoriesTimed DEF Has, Timed, TypeOK
  <2> QED BY <2>2, <2>3
<1> HIDE DEF old, new
<1> QED BY <1>1, <1>2, <1>3 DEF Body!Forget, old, new

LEMMA FusionNext ==
  ASSUME Inv, Inv', KeptInv', PrefixInv, BaseFound, [Next]_vars
  PROVE  [Body!Promise]_(Body!fusionVars)
<1>0. /\ m_state \in Seq(Events) /\ replay \in Seq(Events)
      /\ lastFrame \in Nat /\ frame \in Nat /\ (frame # 0 => frame > lastFrame)
  BY DEF Inv, TypeOK, BodyTypeOK, HistoryInv, States
<1>1. ASSUME UNCHANGED <<m_state, replay, imuMeasurements, lastFrame>>
      PROVE  UNCHANGED Body!fusionVars
  BY <1>1 DEF Body!fusionVars
<1>2. ASSUME UNCHANGED <<m_state, replay, imuMeasurements>>, frame # 0, lastFrame' = frame
      PROVE  Body!Promise
  <2>1. Body!Look(lastFrame')
    BY <1>0, <1>2 DEF Body!Look
  <2> QED BY <2>1 DEF Body!Promise
<1>3. CASE Tick \/ Grab \/ DropFrame \/ UNCHANGED vars
  BY <1>1, <1>3 DEF Tick, Grab, DropFrame, vars, bodyVars
<1>4. CASE Replay
  <2>1. CASE replay = <<>>
    BY <1>1, <1>4, <2>1 DEF Replay, bodyVars
  <2>2. CASE replay # <<>>
    <3>1. ReplayOne /\ UNCHANGED <<lastFrame, sent, frame, imuMeasurements>>
      BY <1>4, <2>2 DEF Replay, ReplayOne
    <3>2. m_state' = Append(m_state, Head(replay)) /\ replay' = Tail(replay)
      BY <2>2, <3>1, ReplayKeepsOrder DEF Inv, ReplayOne
    <3>3. m_state' \o replay' = m_state \o replay
      BY <1>0, <2>2, <3>2, MovedOver
    <3> QED BY <3>1, <3>3 DEF Body!fusionVars
  <2> QED BY <2>1, <2>2
<1>5. CASE Prune
  BY <1>5, PruneForgets DEF Body!Promise
<1>6. ASSUME NEW meas \in ImuMeasurements, NEW sign \in Signs, ImuMessage(meas, sign)
      PROVE  [Body!Promise]_(Body!fusionVars)
  <2>1. CASE ~m_calibComplete \/ outOfOrder(meas.time)
    BY <1>1, <1>6, <2>1 DEF ImuMessage, HandleImu, bodyVars
  <2>2. CASE m_calibComplete /\ ~outOfOrder(meas.time)
    BY <1>6, <2>2, MessageMeasures
  <2> QED BY <2>1, <2>2
<1>7. ASSUME NEW meas \in ImuMeasurements, NEW sign \in Signs, ImuOutOfOrder(meas, sign)
      PROVE  UNCHANGED Body!fusionVars
  BY <1>1, <1>7 DEF ImuOutOfOrder, HandleImu
<1>8. ASSUME NEW pose \in {"none", "still", "moving"}, CalibrationFrame(pose)
      PROVE  Body!Promise
  BY <1>2, <1>8 DEF CalibrationFrame, bodyVars
<1>9. ASSUME NEW outcome \in {"noLeds", "noPose", "pose"}, updatePoseEstimates(outcome)
      PROVE  Body!Promise
  <2>1. CASE outcome = "pose"
    <3>1. /\ pc = "idle" /\ frame # 0 /\ lastFrame' = frame /\ sent' = sent
          /\ UNCHANGED <<imuMeasurements, appliedIMU>> /\ replaceStateSnapshot(frame)
      BY <1>9, <2>1 DEF updatePoseEstimates
    <3>2. validState(frame) \/ stateHistory = <<>>
      BY <3>1 DEF BaseFound
    <3> QED BY <3>1, <3>2, ImageInserted
  <2>2. CASE outcome # "pose"
    BY <1>2, <1>9, <2>2 DEF updatePoseEstimates
  <2> QED BY <2>1, <2>2
<1> QED BY <1>3, <1>4, <1>5, <1>6, <1>7, <1>8, <1>9 DEF Next

\* As long as every image finds a snapshot to start from, what rolling back and
\* replaying leaves (replaceStateSnapshot) is what there would be had the image
\* come when it was taken, with every measurement kept that is newer behind it.
THEOREM FusionImplemented == Spec /\ []BaseFound => ImplementsFusion
<1>1. Init => KeptInv /\ PrefixInv
  <2> SUFFICES ASSUME Init PROVE KeptInv /\ PrefixInv
    OBVIOUS
  <2>1. m_state = <<>> /\ stateHistory = <<>> /\ appliedIMU = {}
    BY DEF Init, BodyInit
  <2> QED BY <2>1 DEF KeptInv, PrefixInv, Skipped
<1>2. Inv /\ Inv' /\ KeptInv' /\ PrefixInv /\ BaseFound /\ [Next]_vars
        => [Body!Promise]_(Body!fusionVars)
  BY FusionNext
<1> QED BY <1>1, <1>2, FusionStarts, InvInit, InvNext, KeptNext, PrefixNext, PTL
        DEF Spec, ImplementsFusion, Body!Fusion

\* Hence so it is where every image finds a snapshot to start from.
COROLLARY FusionImplementedWhenRegular == FastEnough => (Spec => ImplementsFusion)
<1> SUFFICES ASSUME FastEnough PROVE Spec => ImplementsFusion
  OBVIOUS
<1>1. Spec => []BaseFound
  BY AlwaysABase
<1> QED BY <1>1, FusionImplemented, PTL
=============================================================================
