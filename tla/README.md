# Verification of the unified video-inertial tracker

TLA+ models of the tracker in `src/src/unifiedvideoinertial` and of what it
stands on, TLC configurations that check them on small instances, and TLAPS
proofs of what matters most for every size.

The program tracks a headset by the infrared beacons on it, which blink a code
each, and by the gyroscope in it. A camera delivers images with a delay of tens
of milliseconds; IMU messages come every few milliseconds. A Kalman filter fuses
both: an image that comes in late is applied at its own time and the IMU
measurements after it are applied again.

## Inventory

| Component | State it keeps | Operations | What is hard | What makes it correct |
|---|---|---|---|---|
| Plugin object, `org_osvr_unifiedvideoinertial.cpp` | tracker thread, reporting vector, "loop started" | construct, first update, update, IMU callbacks, destroy | joins a thread that may wait for something else | destruction returns as long as grabs do; at most one more frame |
| Tracker thread, `TrackerThread.cpp` | run flag, completion flag, result slots, IMU queue, bodies to report | `threadAction`, `doFrame`, `submitIMUReport`, `signalImageProcessingComplete`, `triggerStop`, `updateReportingVector` | a handshake that is partly without locks, a condition variable, exceptions in the middle of a frame | one thread at a time at the slots; no completion missed; no starvation; no stale result |
| Image processing thread, `ImageProcessingThread.cpp` | next operation, frame | `signalDoFrame`, `signalExit`, `doFrame` | exceptions on a thread that catches none | answers each order once |
| Report marshalling, `ThreadsafeBodyReporting.cpp` | queue of states, transform, process model | `updateState`, `getReport`, `setTrackerToRoomTransform` | producer and consumer at once, a full queue, plain members read by the other thread | the newest state is reported, reports go forward, in room space from the first frame reported on |
| Tracking system, `TrackingSystem.cpp` | bodies, calibrator, bodies updated | `updateBodiesFromVideoData`, `updatePoseEstimates`, IMU dispatch | who sees what before calibration is complete | see bodies |
| Tracked body, `TrackedBody.cpp`, `TrackedBodyIMU.cpp` | state, history of states, history of IMU measurements | apply IMU, roll back, replay, prune | measurements out of order in time, pruning too much or too little | nothing lost, repeated or out of order; a state to start from for every image |
| History container, `HistoryContainer.h` | time-ordered deque | push, pop before and after, find at or before | equal times | as above |
| Room calibration, `RoomCalibration.cpp` | filters, last poses, samples, yaw | process IMU, process video, complete | the user moves; `q` and `-q` | only poses of a head at rest, all of one sign, are averaged |
| Target tracking, `TrackedBodyTarget.cpp`, `PoseEstimator_*.cpp` | mode, counters, pose flag | `updatePoseEstimateFromLeds`, health evaluation, resets | six modes, three estimators, two sets of counters | no filter without a pose; blindness bounded; recovery |
| State and filter, `PoseState.h`, `FlexibleKalman*.h`, `ApplyIMUToState.cpp` | rotation in two places, velocities | predict, correct, refuse a correction, externalize, reset | a correction refused in the middle; which copy of the state a reset touches | what is reported is all of the rotation; a reset leaves nothing behind |
| LEDs, `LED.cpp`, `HDKLedIdentifier.cpp`, `AssignMeasurementsToLeds.h` | the blobs followed, their brightness and ID | match, add measurement, identify, refute | greedy matching with blobs given back, codes read across gaps | no LED taken for another beacon; matching complete |
| Setup, `BeaconSetupData.cpp`, `HDKData.cpp`, `MakeHDKTrackingSystem.h`, `ConfigurationParser.h` | target data, then target, identifier, IMU or camera pose | clean and validate, disable, add target, add IMU | five vectors of lengths of their own, patterns of several lengths, beacons disabled by ID | what validates can be built; the HDK gets the beacons it has, each with a code of its own |
| Time values, `TimeValueC.cpp` | - | normalize, sum, difference, compare | two fields, two signs | arithmetic is exact |
| UVC source, `UVCImageSource.cpp` | queue of pictures, time of the last grab | callback, `grab`, `retrieveColor`, destroy | the callback clears a queue that the client has already looked at | pictures in order, none twice |
| DirectShow source, `DirectShowCameraLib/*`, `DirectShowImageSource.cpp` | sample lent, two events, graph, region, buffer | open in stages, `SampleCB`, wait, read, release, shut down | a rendezvous of a driver's thread and a reader, both of which time out | memory of the driver is read only while it is lent; the callback returns |
| Blob extraction, RANSAC's solver, debug display, applications | - | - | numerics, drawing | not modelled, see below |

Interaction: the host calls the plugin object on its main thread. It owns the
tracker thread, which owns the image processing thread and is the only one to
touch the tracking system. The main thread gives the tracker thread IMU messages
through a queue and takes reports through one queue per body. The tracker thread
grabs from the image source, the image processing thread retrieves. Inside the
tracking system everything is sequential: a body is given IMU messages and, per
image, its target's blobs. Setup is over before the threads start.

## Modules

| Module | Models | Notes |
|---|---|---|
| `ImageProcessingThread` | the worker thread | orders, frame, publication, exceptions |
| `TrackerThread` | the tracker thread | EXTENDS the worker; program counter `tpc`, one action per step between two points where another thread may come in |
| `UnifiedTracker` | plugin object, and the composition of the three threads | actions of the host: first update, IMU messages, stop, join |
| `FrameExchange` | what the two threads promise each other | abstract; refined by `UnifiedTracker` |
| `BodyReporting` | one body's queue of states and its reports | producer `ppc`, consumer `rpc`; positions and velocities are numbers |
| `HistoryContainer` | the deque of the histories, as operators on sequences | |
| `RoomCalibration` | the calibrator | a pose is a sign, at rest or not |
| `TrackedBody` | state, histories, rollback, replay, pruning | a state is the sequence of measurements applied to it |
| `TrackingSystem` | composition of the last three with camera and IMU | a clock; images are `Backdate` ticks old when grabbed and `FrameInterval` apart, IMU messages at most `ImuPeriod` |
| `DelayedFusion` | what a body promises: an image goes to the place of its time | abstract; refined by `TrackingSystem` |
| `TargetTracking` | modes of a target, health, counters | an image is the numbers of beacons in it that fit or do not |
| `TargetFilter` | the body's state under those modes | EXTENDS `TargetTracking` and conjoins its steps, so it refines it by construction |
| `Led` | LED and identifier | operators |
| `LedAssignment` | matching of LEDs and blobs, image by image | the scene is external: sources on a line, calm or rough |
| `TimeValue` | time arithmetic | operators, proved only |
| `ImageSource` | what `ImageSource.h` promises a client | abstract; refined by `ImageSources` |
| `ImageClient` | the client's life, and the camera that takes pictures | pictures are numbered, their count is the clock |
| `UvcImageSource` | the source over libuvc | `frames_` under its mutex |
| `MediaSampleExchange` | sample grabber callback and exchange | streaming thread `cbpc` |
| `DirectShowCamera` | camera server and its image source | EXTENDS the exchange; reader `spc` |
| `ImageSources` | composition of client and cameras, OpenCV's too | |
| `BeaconSetup` | target data, its cleaning, identifier, target | the code's loops one vector at a time |
| `HDKSetup` | the data of the HDK | every pattern as in the source |
| `Setup` | composition with the plugin's configuration | |
| `MCUnifiedTracker`, `MCBodyReporting`, `MCLedAssignment`, `MCSetup` | values of constants | |
| `*_proofs` | theorems | |

Correspondence. Variables have the names of the members they model where there
is one (`m_run`, `m_timeConsumingImageStepComplete`, `imuMeasurements`,
`distanceHeap_`, `frames_`); variables for a position in the code are `tpc`,
`ipc`, `mpc`, `rpc`, `ppc`, `cbpc`, `spc`, `pc`; history variables, which no
action reads, are marked so where they are declared. Actions and helpers have the
name of the function they model, or of the part of it. What runs under one lock,
or touches nothing shared, is one step. `PROJECT.json` lists the lines of every
definition.

## Runs

| Run | Shows |
|---|---|
| `threads` | whatever the camera returns, whichever call throws, whenever the host stops: the slots and the flag have one thread at a time (`ExclusiveHandover`), no result serves a later frame (`NoStaleResult`), the thread does not sleep over a completion (`CompletionNotMissed`), stops after the current frame, and every changed body is reported by the end of a frame that brings an image; destruction returns unless the thread is for ever in the camera's grab (`StopReturns`), frames finish however many messages come, and as long as usable frames come, messages are taken and a room once calibrated reaches the reports (`RoomReachesReports`); the threads implement `FrameExchange` |
| `imu_wakeup` (violated) | the notification for an IMU message may come between the check for messages and the sleep: the thread sleeps over a message |
| `stop_before_update` (violated) | destroyed before the first `update()`, the object waits for ever |
| `reporting` | with IMU messages reported unbuffered, as by default: the newest state the queue took is kept; a call that returns has reported nothing older than what was queued before it (`CallDelivers`); reports go forward; the pose is that of the body at the reported time; from the first state handed out at the end of a frame on, every report has the room transform, once and in one piece (`RoomFromFirstFrame`) |
| `room_transform` (violated) | by default, states of IMU messages are reported before the room transform is set: in camera space, but flagged valid |
| `tracking_system` | calibration averages only samples of a head at rest, on one side; measurements are applied in order, once, and none that came since the last image is missing; there is a state for every image; rolling back and replaying implements `DelayedFusion` |
| `pruned_base` (violated) | with images two ticks old, pruning may remove the state the next image starts from |
| `target` | no Kalman mode without a pose; blindness is bounded; awaiting beacons only when blind; a target seen well again comes back to the Kalman filter |
| `reset_velocity` (violated) | a hard reset stops the body's own state, but the image is estimated on a copy that replaces it: the angular velocity survives the reset |
| `leds` | after each image LEDs and blobs correspond, none near each other were passed over for a pair farther apart, and identification rests on a full pattern of measurements since the last refutation; in calm scenes identification is right and in time |
| `camera` | whichever camera, whatever fails: a sample is read only while the callback that lent it has not returned (`SampleHeld`), is consumed before the next is offered, however the time-outs of the two sides fall; the UVC queue has the latest pictures without a gap; every camera keeps the contract of `ImageSource`, each picture later than the one before; the callback, told to shut down, returns |
| `setup` | validation reports exactly the errors there are; data that validates without one can be built into a target with an identifier; the HDK, in each configuration, gets the beacons it has; each beacon's code, read from any phase, is recognized as that beacon and no other |

Each violated run checks what a comment or a doc says; the counterexample is
described with the line in `PROJECT.json` under `findings`.

### Bounds and why they suffice

- Threads: two bodies, one with an IMU, and a queue of two. The bodies differ only in
  having an IMU or not; a queue of two is empty, in between and full; nothing
  compares more than two messages.
- Reporting: a queue of two, four updates, a clock of three ticks: it overflows
  twice while the consumer is anywhere in `getReport`. The transform turns and
  shifts, so that twice, half or never applied differ. States come by both paths
  (`BufferImu = FALSE`); the other setting has only one of them.
- Tracking system: clock up to 6, two samples required (15 in the code), images
  one tick late. That is room for calibration, a first pose, and images with and
  without a pose with messages before, at and after their time. Also run and
  passed, but too long to keep: one sample required, 2.6 million states; `BaseInv` for
  an `ImuPeriod`, `Backdate` and `FrameInterval` of 2, 1, 2 and of 1, 2, 2; `BaseFound` for
  any IMU and images that are not late, a clock up to 5, 656000 states.
- Target: limits 3, 2, 1 and 1 stand for 150, 10, 25 and 3 (not in that order of
  size: the code's blindness limit of the evaluator is above the filter's, as
  here); 0, 1 or 3 LEDs are none, a lone one, and more than each threshold.
- State and filter: 0 or 3 LEDs, two snapshots between images: an image may start
  from the oldest, from a later one or from none.
- LEDs: patterns of three bits (16 in the code), two enabled and one not, which
  are all the rotation classes with both levels; two sources at a time, beacons
  or another light; blobs of diameter 2 to 4. Two LEDs and two blobs are enough
  for a pair to take away either half of another pair.
- Camera: five pictures and a queue of three (100 in the code): it overflows
  and fills again; a sample lent, dropped pictures, and one more offer after a
  time-out. Firmware 0 (not to be found out), 5, 6, 7 and 8 are each side of both limits.
- Setup: own data are two beacons with each vector of length 0 to 2 and
  patterns of two lengths, disabled and with a bad letter; the HDK has its real
  40 patterns and every combination of the options read, the initial beacon
  error by default, zero and negative.

### Fairness

- Tracker thread, notification and join: weak. A thread that can go on does. The
  tracker thread is an exception at the camera: nothing is assumed of a grab, for
  `UVCImageSource::grab` (`UVCImageSource.cpp:195`) waits without a time-out.
  `StopReturns` therefore excepts a thread that is there for ever, and `ImuTaken` and
  `RoomReachesReports` are about cameras that give usable frames again and again.
  `FramesFinish` starts behind the grab.
- Image processing thread: strong, for it takes the mutex that the tracker
  thread, too, takes again and again; it is not for ever passed over.
- Nothing is assumed of the host in the threads' run: it need not send messages,
  nor update, nor stop.
- None in `reporting`. The loop of `getReport` (`ThreadsafeBodyReporting.cpp:95`) ends
  when it finds the queue empty, and no fairness makes the producer pause for that,
  so that a state is delivered at all cannot be promised; `CallDelivers` says what
  holds of every call that does return.
- `target`: images keep coming of a target that is seen well. Weak fairness of
  just any image would allow bad ones only.
- `camera`: the streaming thread and the thread that reads, weakly. Every wait of
  theirs has a time-out, so neither relies on the other. Not the camera: it may stop.

Deadlock is not checked in `tracking_system`, where the clock ends, in `camera`,
where the client closes its source or the pictures end, and in `setup`, which is
done at some time.

### Assumptions on the environment

- `RegularImu`: the IMU sends a message at least every `ImuPeriod` and none is lost.
  Without it, with late images, `BaseFound` fails in the way of `pruned_base`. Images
  that are not late (`Backdate = 0`) do without it.
- `RootsAssumption`: the initial beacon error is counted in a unit of which its tenth,
  which a calibration file leaves, is a whole number.
- `Backdate`: images are given a time before they were grabbed
  (`cameraMicrosecondsOffset`, -27000 by default). `FrameInterval` is the least time
  between two of them; 1 leaves it open. What matters is whether `ImuPeriod + Backdate
  <= FrameInterval + 1`. TLC finds `BaseFound` violated as soon as either summand is one
  more (2, 1, 1 and 1, 2, 1), as in `pruned_base`. The default offset of 27 ms is beyond
  it with images every 10 ms: messages of those 27 ms went to the calibrator, and an
  image without a pose right after the first with one leaves the next without a base.
- One body with one target and one IMU, as `Assumptions.h` has it.
- The data race on the room transform of `BodyReporting` is a read of any mix
  of old and new. With `BufferImu = FALSE`, the plugin's default
  (`continuousReporting`), the race is there: states of IMU messages are queued before and while the
  transform is set. `TRUE` has fewer behaviours, for then all states
  come by the path that sets it first.
- The sleep in `~directx_camera_server` is long enough or not: `DsReleaseAll`
  may come before the callback has returned.

## Proofs

Proved by TLAPS for every value of the constants that satisfies the named
assumptions:

- `UnifiedTracker_proofs`: `TypeCorrect`, `Handover`, `FreshResults`,
  `NoMissedCompletion`, `PromptStop`, `CaughtUp`, and
  `ExchangeRefined`, the safety part of the refinement of `FrameExchange`. All rest
  on `IInv` of `UnifiedTracker`. None of the properties is inductive: that the
  slots are the tracker thread's alone needs that in the wait the worker is busy
  or the flag is up and never both (`HandoverInv`); that no completion is missed
  needs that a sleeper is in the wait (`WaitInv`); that a body is not forgotten
  needs to know, at each stage of a frame, which set has noted it (`ReportInv`).
- `BodyReporting_proofs`: `TypeCorrect`, `QueueInOrder`, `NewestIsKept`,
  `ForwardReports`, `ReadsToTheEnd`, `CallsDeliver`, `RoomFromThen`, `RoomWhenBuffered`,
  `PoseOfItsTime`. Versions in queue, consumer
  and report are in increasing order (`InOrder`), which needs that what the
  consumer holds was produced (`ValuesProduced`). Of a call, that what was queued before it
  has been read by the time it computes (`AskedIsRead`). The transform needs that it is
  set and stays, and is not being written, once a set of bodies was reported (`RoomInPlace`); a
  report made before that is of an older state. `RoomWhenBuffered` is the other side of the
  run `room_transform`: with IMU messages buffered every report is in room space.
- `TargetFilter_proofs`: of the modes (`TargetTracking`) `TypeCorrect`,
  `PoseInKalmanModes`, `NonFiniteIsReset`, `BlindnessBounded`, `AwaitsWhenBlind`. The
  two counters of images without beacons, which are reset at different places, are
  related (`CountsAgree`): in the filter's modes the filter's never exceeds the
  evaluator's. `PoseInKalmanModes` shows the branch "lost tracking somehow" of
  `updatePoseEstimateFromLeds` to be dead. `MAX_PROBATION_FRAMES >= 1` is needed.
  `SeenWellRecovers` is what `RecoversWhenSeenWell` comes down to once the liveness is
  taken off it (`RecoversInTwo`): of a target seen well, one image leads from every mode
  to the Kalman filter, the next one keeps it there, and nothing resets it in between.
  `TargetFilter` conjoins the steps of the modes, so what is proved of them holds there
  (`PoseWithState`). Of the state `RotationIsWhole`:
  what the quaternion, of which alone reports are made, lacks of the rotation is due
  to a refused correction and to nothing else, in every mode and every order of images
  and messages. The invariant says it of the state and of all snapshots, for an image
  starts from one.
- `LedAssignment_proofs`: `TypeCorrect` and all five properties of the run `leds`, from
  one inductive invariant (`Inductive`). Its parts: blobs, LEDs and the assignments
  between them count right (`CountInv`); of an LED and a blob within reach, one is
  taken by something at least as close (`ClosestInv`), which gives `ClosestMatched`; an
  LED is where a blob of the image before or of this one is, and no two of one image
  share it but those of a wiped one (`FollowInv`), which gives `EachFollowed`; the
  brightnesses an LED remembers are of blobs it was moved to (`EvidenceInv`), which gives
  `WholePattern`; and in calm scenes these are of one source (`CalmInv`), which gives
  `NeverAnother` and `SeenIsRecognized`. The assumptions on constants are those of
  the modules: the sources of a calm scene are farther apart than a blob may move
  (`SceneAssumption`), a code has both levels, and no bits, read from any starting
  point, match two enabled beacons (`CodeAssumption`); `HdkRecognized` (below) establishes
  that of the HDK's patterns.
- `Setup_proofs`: all four properties of the run `setup`. `ExactReport` and
  `CleanBuilds` are for target data of any number of beacons. The invariant (`CleanInv`)
  says what the loops of `cleanAndValidate` have left of the data and what the report
  says of the beacons looked at so far: the cleaning changes nothing that is checked
  later. `HdkSetUp` and `HdkRecognized` are of the HDK, in every configuration: both sets of
  beacons, the options in any combination, calibration files of any length, any initial
  error. The data that `makeHDKTrackingSystem` gives is followed through every vector that it resizes,
  appends to and overwrites (`HdkDataGiven`), and through the cleaning (`HdkInv`).
  `HdkRecognized` does not compare each pattern with every other at each phase. A
  pattern is the set of its lit places, of which turning it keeps three things: their
  number, three or five for all that are used, so that a misjudged
  brightness matches none; the gaps between three of them, up to rotation, as one number
  (`code`, `CodesDiffer`); and the distances that occur between five of them (`FivesTold`).
- `ImageSources_proofs`: `TypeCorrect`, `ReadWhileHeld`, `ConsumedFirst`, `QueueWithoutGap`,
  and `ContractIsKept`, the refinement of `ImageSource` by all three cameras. The
  invariant (`SourcesInv`) has two halves: where the sample is, by the positions of
  the two threads and the two events (`Rendezvous`), which gives the first two; and
  that a picture on its way is later than the one retrieved, at each place it passes
  (`InOrderDs`, `InOrderUvc`, `InOrderCv`), which gives the contract. That the
  assertions of the exchange never fire where the contract forbids it needs the
  life of the camera (`CameraLife`).
- `TrackingSystem_proofs`: all seven properties of that run, `NewestIsCurrent`
  and `TypeOK`. It starts
  with what the searches and the removals of a history return (`PopAfter`,
  `PopBefore`, `RangeNewer`).
  Calibration (`StillWhenCalibrated`, `OneSide`): the last `m_steadyVideoReports`
  poses were still (`CalibrationInv`).
  Order (`NewestCurrent`, `InOrder`): the state and every snapshot are made of events
  up to their time, in the order in which the IMU sent them, no image later than the
  last; what is to be replayed follows what is in the state (`HistoryInv`).
  Completeness (`NothingLeftOut`): a measurement kept is in the state, to be
  replayed, or not newer than an image in the state (`ReplayInv`).
  These need nothing of the IMU or the camera, only that the IMU's timestamps do not go
  back; those that do make the thread end.
  `NothingForgotten`: nothing applied is lost *if* every image finds a snapshot to
  start from (`[]BaseFound`). A measurement that a snapshot lacks is not older than
  the next snapshot, hence newer than the image, hence still kept and replayed
  (`KeptInv`). The run `pruned_base` shows that the condition is needed.
  `AlwaysABase` and `NothingForgottenWhenRegular` discharge it in two cases
  (`FastEnough`). For a regular IMU whose period with the delay of the images is within
  the time between two images
  (`RegularImu`, `ImuPeriod + Backdate <= FrameInterval + 1`), no two snapshots after the
  last image are farther apart than that, so pruning up to the last image leaves one
  not later than the next (`BaseInv`). Messages up to calibration are not kept, which
  is a gap of at most the delay and a period; hence the sum. For images that are not
  late (`Backdate = 0`) the IMU may do as it likes: whatever there is when one is taken is
  not newer, and what comes while it is processed goes behind that (`OnTime`).
  `FusionImplemented` and `FusionImplementedWhenRegular`: under the same condition the
  whole refines `DelayedFusion`, where an image is simply put in the place of its time.
  The estimate there is the state with what is still to be replayed, so that a
  replay is a stutter. The steps need that the snapshots are the last prefixes of the state,
  one for each event (`PrefixInv`): the snapshot gone back to then has just what is
  not newer than the image.
- `TimeValue_proofs`: `NormalizeKeepsTime`, `NoOverflow`, `SumIsExact`,
  `DifferenceIsExact`, `CmpOrdersTime`, `DurationIsExact`. No induction: arithmetic
  by cases, on a second of any number of microseconds greater than one.

Only model-checked: liveness (out of the prover's reach), that is `StopReturns`,
`FramesFinish`, `ImuTaken`, `RoomReachesReports`, `RecoversWhenSeenWell`, `CallbackReturns`, and of
`ImplementsExchange` the fairness. Every invariant and every action property of the passing
runs is a theorem.

## Where the code and its comments disagree, without a run

Threads and reports:

- A tracker thread that catches an exception leaves for good, and the host is not told.
- A retrieve that fails throws on the image processing thread, which catches
  nothing: the process ends (`RetrieveOutcomes`).
- The linear velocity of a report goes through the whole room transform, its translation
  too (`ThreadsafeBodyReporting.cpp:79`): a body at rest is reported to move, flagged
  valid. The model has it so (`reportOf`); no property is about it.
- In a camera failure loop nothing takes IMU messages, and those that come when the
  queue is full are dropped.
- `triggerStop` makes the thread "exit after the current frame" (`TrackerThread.h:96-97`); with a
  UVC camera that stopped, there is no end to the current frame and the destructor hangs.
- A report of a body at rest has the time of its data and a predicted one the
  present, so timestamps may go back although states do not.
- A full report queue drops the new state, not the oldest.
- A body changed by IMU messages during a frame that comes back empty is not reported
  until it changes again.

Bodies and calibration:

- Until the first pose the IMU history is not pruned.
- The "consecutive" samples of the calibration are not restarted by images
  without a pose.
- The filter's `finishCorrection` ignores its parameter `cancelIfNotFinite`
  (`FlexibleKalmanCorrect.h:102-122`); a correction refused leaves a prediction
  without `postCorrect`, which `FlexibleKalmanFilter.h:54-57` asks for.
- A hard reset that finds no pose zeroes the velocities of `m_state` but not of
  the newest snapshot, which the next image starts from.
- `getStateCorrection` (`TrackedBodyTarget.cpp:642`) rotates by the present state, not by
  the one the estimate was made from; and the beacons are moved by minus
  `m_beaconOffset` while the position is corrected by plus that and
  `m_targetToBody`. Both are zero by default.

Targets and LEDs:

- With soft resets a target awaiting its beacons reports the estimate of an
  earlier image.
- `AssignMeasurementsToLeds.h:49` says no bad ID escapes; the comparison is
  `id > numBeacons` on a zero-based ID, so the ID equal to the number does. It needs
  a target with more patterns than beacons (`BeaconSetupData.cpp` reports that and
  goes on).
- A blob given back there is taken by another LED or a new one, while the LED wiped
  keeps it as its position: two LEDs on one blob for an image. `BlobsFollowed`
  allows just that case.
- `ConfigParams.h:131` says a blob may move so many times its *previous* diameter;
  `getDistanceThresholdSquared` takes the new one.
- `LED.h:60` requires successive images of `addMeasurement`; nobody knows of a
  dropped one. In the rough scenes of `LedAssignment` a beacon is then taken for
  another; of the HDK's patterns, 2848 of 10336 windows with one image missing read
  as another beacon's.
- `PoseEstimator_RANSAC.cpp` collects the inliers' beacons by the index of the
  inlier and not by the index the inlier stands for.
- A target no blob of which was matched is not asked (`TrackingSystem.cpp`), so its
  counters of images without beacons stand still.
- A lone beacon, once two were seen, is skipped in every image
  (`PoseEstimator_SCAATKalman.cpp:165`).
- The displayed debug beacons are 34 of up to 40.

Setup:

- An initial beacon error of 0 "effectively turns off beacon autocalibration"
  (`ConfigParams.h`), but validation reports an error for each beacon that is not
  fixed. `makeHDKTrackingSystem` does not look at the report (`HdkAsBuilt` states both).
- The back panel's measurement error is read from the configuration, twice, and used nowhere.
- Data all of whose patterns are disabled validates; the identifier then asks for the
  least brightness of an empty list.
- A disabled beacon in the tails keeps its invalid pattern.
- `manualBeaconOffset` is "in m", the recommended value `0, 0, -75`.

Image sources:

- "Sample should be consumed before the next one produced!"
  (`MediaSampleExchange.cpp:51`) holds (`ConsumedBeforeNext`); but the assertion on
  the other side (76-78), that the sample is there when the producer starts to wait,
  fails in normal use, when the consumer was quicker. Builds with assertions end there.
- `SampleCB` asserts that it is not being shut down, which it may be.
- A grab from UVC waits for ever when the camera stops; `ImageSource.h:50` has it
  return when "failure occurs". The callback may clear the queue between grab and
  retrieve, which then throws; the picture may be newer than the time of the grab.
- "In case we fail, clear these" (`directx_camera_server.cpp:755`): the region stays
  set after a failure. A region of one column counts as no image, and its minimum is
  not checked against the sensor.
- `BindToObject` may fail and leave the pointer it should have set null, which is
  then used.
- The first grab of `FakeImageSource` gives the second file.

## Not modelled, and why

About half of the repository's lines are vendored or generated (`variant.hpp`,
`optional.hpp`, `newuoa.h`, `FlexKalman.h`, Eigen-based headers) or numerics on
matrices and pixels; none of that has states a model checker could tell apart.
In particular:

- Blob extraction and undistortion, the linear algebra of the filter library,
  the solver of RANSAC and the measurement models: the modules choose among the results
  that the control logic tells apart.
- The debug display only reads. `FakeImageSource` is a list of files, the DK2
  source is device I/O, `CVImageSource` forwards to OpenCV (its contract is in
  `ImageSources`).
- Putting together the DirectShow filter graph is one step per stage that may fail; the
  calls of COM it consists of keep no state of this program.
- Command-line applications and tests use the same library offline.
- Build files, vendored and generated code are not the tracker.

The share of the lines under a definition is small for that reason, and is not
made larger by naming lines that a definition does not translate.

## Plan

1. The extra camera report and the debug data of the tracker thread; beacon
   autocalibration and its reset in the target.
2. A scene with dropped images for the patterns of the HDK in `LedAssignment`.
