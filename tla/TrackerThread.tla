---------------------------- MODULE TrackerThread ----------------------------
(***************************************************************************)
(* The tracker thread (TrackerThread.cpp): it waits to be permitted to     *)
(* start, launches the image processing thread, then does one frame after  *)
(* the other, handling IMU messages while the worker is busy with the      *)
(* image, until its run flag is down or an exception ends the loop.        *)
(*                                                                         *)
(* What the tracking system computes is abstracted to what the thread      *)
(* relies on: which bodies changed, whether the room is calibrated, and    *)
(* whether the call threw.                                                 *)
(***************************************************************************)
EXTENDS ImageProcessingThread, Naturals, Sequences, FiniteSets

CONSTANTS
  Bodies,        \* the tracked bodies
  ImuBodies,     \* those with an IMU
  QueueCapacity, \* IMU_MESSAGE_QUEUE_SIZE - 1: messages m_imuMessages holds
  MayThrow       \* may processing a message or a frame throw?

ASSUME TrackerAssumption ==
  /\ ImuBodies \subseteq Bodies
  /\ QueueCapacity \in Nat \ {0}
  /\ MayThrow \in BOOLEAN

VARIABLES
  tpc,             \* where the tracker thread is
  m_startupSignal, \* has the promise been fulfilled?
  m_run,           \* the run flag
  m_bufferImu,     \* a setting: wait before reporting on just IMU messages?
  m_imuMessages,   \* the IMU messages, each abstracted to its body
  imuIndices,      \* doFrame's local: bodies with IMU data, not yet reported
  sortedBodyIds,   \* doFrame's local: bodies to report at the end of the frame
  numMessages,     \* doFrame's local: messages still to take in the last loop
  calibrated,      \* TrackingSystem::haveCameraPose()
  m_setCameraPose, \* have the room transforms been handed to the reports?
  stale            \* history: bodies changed in this frame, not copied to the reports since

frameVars   == <<imuIndices, sortedBodyIds, numMessages>>
reportVars  == <<calibrated, m_setCameraPose, stale>>
trackerVars == <<tpc, m_startupSignal, m_run, m_imuMessages, frameVars, reportVars>>

TrackerPC == {"startup", "camera", "clear", "launch", "wait", "imu", "image", "size",
              "drain", "runFlag", "caught", "exit", "join", "done"}

TrackerTypeOK ==
  /\ ImageTypeOK
  /\ tpc \in TrackerPC
  /\ m_startupSignal \in BOOLEAN /\ m_run \in BOOLEAN /\ m_bufferImu \in BOOLEAN
  /\ m_imuMessages \in Seq(ImuBodies) /\ Len(m_imuMessages) <= QueueCapacity
  /\ imuIndices \subseteq Bodies /\ sortedBodyIds \subseteq Bodies
  /\ numMessages \in 0..QueueCapacity
  /\ calibrated \in BOOLEAN /\ m_setCameraPose \in BOOLEAN
  /\ stale \subseteq Bodies

TrackerInit ==
  /\ ImageInit
  /\ tpc = "startup"
  /\ m_startupSignal = FALSE /\ m_run = TRUE /\ m_bufferImu \in BOOLEAN
  /\ m_imuMessages = <<>>
  /\ imuIndices = {} /\ sortedBodyIds = {} /\ numMessages = 0
  /\ calibrated = FALSE /\ m_setCameraPose = FALSE
  /\ stale = {}

-----------------------------------------------------------------------------
(***************************************************************************)
(* The two updateReportingVector overloads.  The one for a set first hands *)
(* out the room transforms, and reports nothing until there is a camera    *)
(* pose; the one for a single body does neither.                           *)
(***************************************************************************)
transformsWithReports(ids) == calibrated' /\ ids # {}   \* mutant
transformsKnown(ids) == calibrated'

updateReportingVector(changed, ids) ==
  /\ m_setCameraPose' = (m_setCameraPose \/ transformsKnown(ids))
  /\ stale' = IF calibrated' THEN changed \ ids ELSE changed

updateReportingVectorSingle(changed, id) ==
  /\ UNCHANGED m_setCameraPose
  /\ stale' = changed \ {id}

(***************************************************************************)
(* processIMUMessage: without a calibrated room the message only feeds the *)
(* calibration, which it may complete; with one it changes its body.       *)
(***************************************************************************)
afterImu(id) == IF calibrated THEN stale \cup {id} ELSE stale
calibrationMayFinish == calibrated' \in {calibrated, TRUE}

-----------------------------------------------------------------------------
\* threadAction: blocked on the startup promise, then the reports get their
\* process models and the worker is launched in its waiting state.
StartWork ==
  /\ tpc = "startup" /\ m_startupSignal
  /\ ipc' = "loop"
  /\ tpc' = "camera"
  /\ UNCHANGED <<m_startupSignal, m_run, m_imuMessages, frameVars, reportVars,
                 next_, exiting_, frame_, data, resultVars,
                 m_timeConsumingImageStepComplete, waiter, processDead>>

\* doFrame: the camera is not OK or the grab fails; give up on this frame.
CameraFails ==
  /\ tpc = "camera"
  /\ tpc' = "runFlag"
  /\ UNCHANGED <<m_startupSignal, m_run, m_imuMessages, frameVars, reportVars, imageVars>>

Grab ==
  /\ tpc = "camera"
  /\ tpc' = "clear"
  /\ UNCHANGED <<m_startupSignal, m_run, m_imuMessages, frameVars, reportVars, imageVars>>

(***************************************************************************)
(* launchTimeConsumingImageStep: the flag is cleared without the mutex,    *)
(* then the worker gets its order.                                         *)
(***************************************************************************)
ClearFlag ==
  /\ tpc = "clear"
  /\ m_timeConsumingImageStepComplete' = FALSE
  /\ tpc' = "launch"
  /\ UNCHANGED <<m_startupSignal, m_run, m_imuMessages, frameVars, reportVars,
                 next_, workerVars, resultVars, waiter, processDead>>

LaunchImageStep ==
  /\ tpc = "launch"
  /\ signalDoFrame
  /\ tpc' = "wait"
  /\ UNCHANGED <<m_startupSignal, m_run, m_imuMessages, frameVars, reportVars,
                 workerVars, resultVars, m_timeConsumingImageStepComplete, waiter,
                 processDead>>

(***************************************************************************)
(* The wait: the predicate is evaluated with m_messageMutex held.  If it   *)
(* holds the thread goes on, to the image first and to one message         *)
(* otherwise; if not, it joins the waiters and releases the mutex in one   *)
(* atomic step, a step later than it read the queue.                       *)
(***************************************************************************)
imageDoneOrMessage == m_timeConsumingImageStepComplete \/ m_imuMessages # <<>>   \* mutant
imageDoneAndQuiet  == m_timeConsumingImageStepComplete /\ m_imuMessages = <<>>    \* mutant
finishedImage == m_timeConsumingImageStepComplete

somethingToDo == m_timeConsumingImageStepComplete \/ m_imuMessages # <<>>

StopWaiting ==
  /\ tpc = "wait" /\ waiter = "awake"
  /\ somethingToDo
  /\ tpc' = IF finishedImage THEN "image" ELSE "imu"
  /\ UNCHANGED <<m_startupSignal, m_run, m_imuMessages, frameVars, reportVars, imageVars>>

CommitToSleep ==
  /\ tpc = "wait" /\ waiter = "awake"
  /\ ~ somethingToDo
  /\ waiter' = "committed"
  /\ UNCHANGED <<trackerVars, next_, workerVars, resultVars,
                 m_timeConsumingImageStepComplete, processDead>>

Sleep ==
  /\ waiter = "committed"
  /\ waiter' = "asleep"
  /\ UNCHANGED <<trackerVars, next_, workerVars, resultVars,
                 m_timeConsumingImageStepComplete, processDead>>

\* A condition variable may also wake up on its own.
SpuriousWakeup ==
  /\ waiter = "asleep"
  /\ waiter' = "awake"
  /\ UNCHANGED <<trackerVars, next_, workerVars, resultVars,
                 m_timeConsumingImageStepComplete, processDead>>

(***************************************************************************)
(* One IMU message while the worker has the image.  Buffering, its body is *)
(* noted and a report on all those noted goes out when the override clock  *)
(* says so; not buffering, that body is reported at once.                  *)
(***************************************************************************)
ImuBuffered(sendNow) ==
  LET id == Head(m_imuMessages)
      noted == imuIndices \cup {id}
  IN
  /\ tpc = "imu" /\ m_bufferImu
  /\ m_imuMessages' = Tail(m_imuMessages)
  /\ calibrationMayFinish
  /\ IF sendNow
     THEN /\ updateReportingVector(afterImu(id), noted)
          /\ imuIndices' = {}
     ELSE /\ stale' = afterImu(id)
          /\ imuIndices' = noted
          /\ UNCHANGED m_setCameraPose
  /\ tpc' = "wait"
  /\ UNCHANGED <<m_startupSignal, m_run, sortedBodyIds, numMessages, imageVars>>

ImuImmediate ==
  LET id == Head(m_imuMessages) IN
  /\ tpc = "imu" /\ ~ m_bufferImu
  /\ m_imuMessages' = Tail(m_imuMessages)
  /\ calibrationMayFinish
  /\ updateReportingVectorSingle(afterImu(id), id)
  /\ tpc' = "wait"
  /\ UNCHANGED <<m_startupSignal, m_run, frameVars, imageVars>>

ImuThrows ==
  /\ tpc \in {"imu", "drain"} /\ MayThrow
  /\ m_imuMessages # <<>> /\ (tpc = "drain" => numMessages > 0)
  /\ m_imuMessages' = Tail(m_imuMessages)
  /\ tpc' = "caught"
  /\ UNCHANGED <<m_startupSignal, m_run, frameVars, reportVars, imageVars>>

(***************************************************************************)
(* The image step is complete.  Null frames, or no result, end the frame   *)
(* at once, and with it the local imuIndices: a body that only an IMU      *)
(* message changed is then not reported.  Otherwise the result goes to the *)
(* tracking system, which returns the bodies it updated (none before the   *)
(* room is calibrated).                                                    *)
(***************************************************************************)
ImageMissing ==
  /\ tpc = "image"
  /\ m_frame = "null" \/ m_imageData = "null"
  /\ imuIndices' = {} /\ stale' = {}
  /\ tpc' = "runFlag"
  /\ UNCHANGED <<m_startupSignal, m_run, m_imuMessages, sortedBodyIds, numMessages,
                 calibrated, m_setCameraPose, imageVars>>

resultKept  == UNCHANGED m_imageData   \* mutant
resultTaken == m_imageData' = "null"

mergedWithoutImu(updated) == updated   \* mutant
mergedWithImu(updated) == updated \cup imuIndices

updateBodiesFromVideoData(updated) ==
  /\ tpc = "image"
  /\ m_frame # "null" /\ m_imageData # "null"
  /\ updated # {} => calibrated
  /\ calibrationMayFinish
  /\ stale' = stale \cup updated
  /\ sortedBodyIds' = mergedWithImu(updated)
  /\ imuIndices' = {}
  /\ resultTaken
  /\ tpc' = "size"
  /\ UNCHANGED <<m_startupSignal, m_run, m_imuMessages, numMessages, m_setCameraPose,
                 next_, workerVars, m_frame,
                 m_timeConsumingImageStepComplete, waiter, processDead>>

VideoThrows ==
  /\ tpc = "image" /\ MayThrow
  /\ m_frame # "null" /\ m_imageData # "null"
  /\ resultTaken
  /\ tpc' = "caught"
  /\ UNCHANGED <<m_startupSignal, m_run, m_imuMessages, frameVars, reportVars,
                 next_, workerVars, m_frame, m_timeConsumingImageStepComplete,
                 waiter, processDead>>

sizeGuessNone == 0   \* mutant
sizeGuess == Len(m_imuMessages)

\* The last loop takes as many messages as are queued now, no more.
SizeGuess ==
  /\ tpc = "size"
  /\ numMessages' = sizeGuess
  /\ tpc' = "drain"
  /\ UNCHANGED <<m_startupSignal, m_run, m_imuMessages, imuIndices, sortedBodyIds,
                 reportVars, imageVars>>

DrainOne ==
  LET id == Head(m_imuMessages) IN
  /\ tpc = "drain" /\ numMessages > 0 /\ m_imuMessages # <<>>
  /\ m_imuMessages' = Tail(m_imuMessages)
  /\ numMessages' = numMessages - 1
  /\ calibrationMayFinish
  /\ stale' = afterImu(id)
  /\ sortedBodyIds' = sortedBodyIds \cup {id}
  /\ UNCHANGED <<tpc, m_startupSignal, m_run, imuIndices, m_setCameraPose,
                 imageVars>>

ReportFrame ==
  /\ tpc = "drain" /\ (numMessages = 0 \/ m_imuMessages = <<>>)
  /\ UNCHANGED calibrated
  /\ updateReportingVector(stale, sortedBodyIds)
  /\ sortedBodyIds' = {} /\ numMessages' = 0
  /\ tpc' = "runFlag"
  /\ UNCHANGED <<m_startupSignal, m_run, m_imuMessages, imuIndices, imageVars>>

-----------------------------------------------------------------------------
keepGoingWhileBusy == m_run \/ m_imuMessages # <<>>   \* mutant
keepGoing == m_run

\* threadAction between frames: copy the run flag under m_runMutex.
CheckRunFlag ==
  /\ tpc = "runFlag"
  /\ tpc' = IF keepGoing THEN "camera" ELSE "exit"
  /\ UNCHANGED <<m_startupSignal, m_run, m_imuMessages, frameVars, reportVars, imageVars>>

\* The catch clause: doFrame's locals are gone, the run flag goes down.
CatchException ==
  /\ tpc = "caught"
  /\ m_run' = FALSE
  /\ imuIndices' = {} /\ sortedBodyIds' = {} /\ numMessages' = 0
  /\ tpc' = "exit"
  /\ UNCHANGED <<m_startupSignal, m_imuMessages, reportVars, imageVars>>

TellWorkerToExit ==
  /\ tpc = "exit"
  /\ IF exiting_ THEN UNCHANGED next_ ELSE signalExit
  /\ tpc' = "join"
  /\ UNCHANGED <<m_startupSignal, m_run, m_imuMessages, frameVars, reportVars,
                 workerVars, resultVars, m_timeConsumingImageStepComplete,
                 waiter, processDead>>

JoinWorker ==
  /\ tpc = "join" /\ ipc = "done"
  /\ tpc' = "done"
  /\ UNCHANGED <<m_startupSignal, m_run, m_imuMessages, frameVars, reportVars, imageVars>>

\* The tracker thread's own steps; waking up by itself is not one of them.
TrackerNext ==
  \/ StartWork \/ CameraFails \/ Grab \/ ClearFlag \/ LaunchImageStep
  \/ StopWaiting \/ CommitToSleep \/ Sleep
  \/ \E sendNow \in BOOLEAN : ImuBuffered(sendNow)
  \/ ImuImmediate \/ ImuThrows
  \/ ImageMissing \/ VideoThrows
  \/ \E updated \in SUBSET Bodies : updateBodiesFromVideoData(updated)
  \/ SizeGuess \/ DrainOne \/ ReportFrame
  \/ CheckRunFlag \/ CatchException \/ TellWorkerToExit \/ JoinWorker
=============================================================================
