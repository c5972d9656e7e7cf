--------------------------- MODULE UnifiedTracker ---------------------------
(***************************************************************************)
(* The plugin object (org_osvr_unifiedvideoinertial.cpp) and the threads   *)
(* it owns.  The host's main thread constructs it, which spawns the        *)
(* tracker thread; its first update() permits that thread to start; the    *)
(* IMU callbacks submit messages; its destructor stops and joins the       *)
(* thread.                                                                 *)
(***************************************************************************)
EXTENDS TrackerThread

CONSTANT StopBeforeUpdate
  \* May the host destroy the object before it ever called update()?

ASSUME HostAssumption == StopBeforeUpdate \in BOOLEAN

VARIABLES
  mpc,             \* main thread: "idle", "notify" (a message is queued, its
                   \* notification is to follow), "joining" or "destroyed"
  framesAfterStop  \* history: frames launched after triggerStop, up to 2

vars == <<imageVars, trackerVars, mpc, framesAfterStop, m_bufferImu>>

TypeOK ==
  /\ TrackerTypeOK
  /\ mpc \in {"idle", "notify", "joining", "destroyed"}
  /\ framesAfterStop \in 0..2

Init ==
  /\ TrackerInit
  /\ mpc = "idle"
  /\ framesAfterStop = 0

-----------------------------------------------------------------------------
\* update(), the first time: permitStart.
FirstUpdate ==
  /\ mpc = "idle" /\ ~ m_startupSignal
  /\ m_startupSignal' = TRUE
  /\ UNCHANGED <<tpc, m_run, m_imuMessages, frameVars, reportVars, imageVars,
                 mpc, framesAfterStop>>

queueHasRoom == Len(m_imuMessages) < QueueCapacity

(***************************************************************************)
(* submitIMUReport, from an IMU callback: write to the queue or give up    *)
(* when it is full, then notify_one without m_messageMutex.                *)
(***************************************************************************)
SubmitImu(body) ==
  /\ mpc = "idle"
  /\ queueHasRoom
  /\ m_imuMessages' = Append(m_imuMessages, body)
  /\ mpc' = "notify"
  /\ UNCHANGED <<tpc, m_startupSignal, m_run, frameVars, reportVars, imageVars,
                 framesAfterStop>>

NotifyImu ==
  /\ mpc = "notify"
  /\ notifyTracker
  /\ mpc' = "idle"
  /\ UNCHANGED <<trackerVars, next_, workerVars, resultVars,
                 m_timeConsumingImageStepComplete, processDead, framesAfterStop>>

\* The destructor: triggerStop, then join the thread and destroy its object.
triggerStop ==
  /\ mpc = "idle"
  /\ m_startupSignal \/ StopBeforeUpdate
  /\ m_run' = FALSE
  /\ mpc' = "joining"
  /\ UNCHANGED <<tpc, m_startupSignal, m_imuMessages, frameVars, reportVars, imageVars,
                 framesAfterStop>>

JoinTracker ==
  /\ mpc = "joining" /\ tpc = "done"
  /\ mpc' = "destroyed"
  /\ UNCHANGED <<trackerVars, imageVars, framesAfterStop>>

MainNext ==
  \/ FirstUpdate
  \/ \E body \in ImuBodies : SubmitImu(body)
  \/ NotifyImu \/ triggerStop \/ JoinTracker

-----------------------------------------------------------------------------
\* History: count the frames launched once the stop has been asked for.
CountFrame ==
  framesAfterStop' = IF tpc = "launch" /\ mpc = "joining" /\ framesAfterStop < 2
                     THEN framesAfterStop + 1 ELSE framesAfterStop

TrackerStep == ~ processDead /\ TrackerNext /\ CountFrame /\ UNCHANGED <<mpc, m_bufferImu>>
WorkerStep  == /\ ~ processDead /\ ImageNext
               /\ UNCHANGED <<trackerVars, mpc, framesAfterStop, m_bufferImu>>
MainStep    == ~ processDead /\ MainNext /\ UNCHANGED m_bufferImu
Wakeup      == ~ processDead /\ SpuriousWakeup /\ UNCHANGED <<mpc, framesAfterStop, m_bufferImu>>

\* The object is destroyed, or the process has been terminated.
Over == (mpc = "destroyed" \/ processDead) /\ UNCHANGED vars

Next == TrackerStep \/ WorkerStep \/ MainStep \/ Wakeup \/ Over

Spec == Init /\ [][Next]_vars

(***************************************************************************)
(* The threads are scheduled; the main thread finishes a call it is in.    *)
(* What the host or the camera does is up to them: grab() need not return, *)
(* for the one of UVC waits without a time-out.                            *)
(* The worker waits for m_messageMutex only while the tracker thread goes  *)
(* from its predicate to sleep; strong fairness says that a waiter woken   *)
(* over and over does not keep it from the mutex for ever.                 *)
(***************************************************************************)
Fairness ==
  /\ WF_vars(TrackerStep /\ tpc # "camera")
  /\ SF_vars(WorkerStep)
  /\ WF_vars(~ processDead /\ NotifyImu /\ UNCHANGED m_bufferImu)
  /\ WF_vars(~ processDead /\ JoinTracker /\ UNCHANGED m_bufferImu)

FairSpec == Spec /\ Fairness

-----------------------------------------------------------------------------
(***************************************************************************)
(* Safety                                                                  *)
(***************************************************************************)

\* The worker owns the result slots and the unlocked completion flag from the
\* order it is given to the flag it raises.
workerBusy == next_ = "DoFrame" \/ ipc \in {"retrieve", "process", "publish", "flag"}

\* The result slots and the flag are accessed by one thread at a time: while
\* the tracker thread clears the flag without the mutex ("our thread would be
\* the only one reading or writing this flag"), gives the order, or uses the
\* frame and the result, the worker is neither ordered to write them nor
\* writing them.
ExclusiveHandover ==
  tpc \in {"camera", "clear", "launch", "image", "size", "drain", "runFlag"} => ~ workerBusy

\* No result is used for a later frame: when a frame is started, the result of
\* an earlier one has been taken, or there was none.
NoStaleResult == tpc \in {"camera", "clear", "launch"} => m_imageData = "null"

\* The completion of an image is never missed: the tracker thread sleeps with
\* the flag up only while the worker has yet to notify it.
CompletionNotMissed ==
  m_timeConsumingImageStepComplete /\ waiter # "awake" => ipc = "notify" /\ waiter = "asleep"

\* The destructor asks the thread "to exit after the current frame": at most
\* one frame is launched after triggerStop.
StopsAfterCurrentFrame == framesAfterStop <= 1

\* In a calibrated room a frame that brings an image ends with every body
\* reported that changed in the course of it.
ReportsCaughtUp == tpc = "camera" => stale = {}

-----------------------------------------------------------------------------
(***************************************************************************)
(* The inductive invariant behind the safety properties.                   *)
(***************************************************************************)

\* The tracker thread leaves its wait for a message only if there is one, and
\* nobody else takes messages.
QueueInv == tpc = "imu" => m_imuMessages # <<>>

\* Outside the wait the worker is idle; in the wait either it is busy or the
\* flag is up, never both.
HandoverInv ==
  /\ tpc = "startup" <=> ipc = "none"
  /\ tpc = "startup" => next_ = "Waiting"
  /\ next_ = "DoFrame" => ipc \in {"loop", "notify"}
  /\ next_ = "Exit" => tpc \in {"join", "done"}
  /\ ipc = "done" => next_ = "Exit"
  /\ tpc \in {"camera", "clear", "launch", "image", "size", "drain", "runFlag"} => ~ workerBusy
  /\ tpc = "launch" => ~ m_timeConsumingImageStepComplete
  /\ tpc \in {"wait", "imu"} => (workerBusy <=> ~ m_timeConsumingImageStepComplete)

\* A sleeper is in the wait, and sleeps over the flag only until the worker's
\* notification.
WaitInv ==
  /\ waiter # "awake" => tpc = "wait"
  /\ CompletionNotMissed

\* A result comes with a frame and is gone when the next frame starts.
ResultInv ==
  /\ data = "blobs" => ipc = "publish" /\ frame_ = "image"
  /\ ipc = "process" => frame_ = "image"
  /\ m_imageData = "blobs" => m_frame = "image"
  /\ tpc \in {"startup", "camera", "clear", "launch", "size", "drain", "runFlag"} =>
       m_imageData = "null"

\* After the stop the flag is down, and one frame later it will be seen.
StopInv ==
  /\ mpc \in {"idle", "notify"} => framesAfterStop = 0
  /\ mpc \in {"joining", "destroyed"} => ~ m_run
  /\ framesAfterStop <= 1
  /\ framesAfterStop = 1 => tpc \notin {"startup", "camera", "clear", "launch"}

\* The bodies that changed are noted for a later report, in the set of the
\* stage the frame is in.
ReportInv ==
  /\ ~ calibrated => stale = {}
  /\ tpc \in {"wait", "imu", "image"} => stale \subseteq imuIndices
  /\ tpc \in {"size", "drain"} => stale \subseteq sortedBodyIds
  /\ tpc \in {"startup", "camera", "clear", "launch", "runFlag"} => stale = {}

IInv == TypeOK /\ QueueInv /\ HandoverInv /\ WaitInv /\ ResultInv /\ StopInv /\ ReportInv

-----------------------------------------------------------------------------
(***************************************************************************)
(* Liveness                                                                *)
(***************************************************************************)

\* The destructor returns, unless the process is terminated under it or the
\* thread it joins is for ever in the camera's grab.
StopReturns ==
  (mpc = "joining") ~> (mpc = "destroyed" \/ processDead \/ [](tpc = "camera"))

\* However many IMU messages arrive, a frame that was launched is finished and
\* the thread comes back to its run flag (or dies): messages do not starve
\* the camera.
FramesFinish == (tpc = "launch") ~> (tpc \in {"runFlag", "caught"} \/ processDead)

\* As long as the camera keeps giving usable frames, IMU messages keep being
\* taken: the queue is empty, or gets shorter, again and again.
ImuTaken ==
  []<>(tpc = "size") =>
    \/ []<>(m_imuMessages = <<>>)
    \/ []<><<Len(m_imuMessages') < Len(m_imuMessages)>>_vars

\* As long as the camera keeps giving usable frames, a calibrated room reaches
\* the reports: the time in which bodies changed by IMU messages are reported by
\* default without the room transform comes to an end.
RoomReachesReports == []<>(tpc = "size") => (calibrated ~> m_setCameraPose)

-----------------------------------------------------------------------------
(***************************************************************************)
(* What the comments say and the code does not do                          *)
(***************************************************************************)

\* The tracker thread waits "for something to do (completion of image, IMU
\* reports)": it does not sleep over a queued IMU message, unless the
\* notification for it is still to come.
ImuNotMissed == waiter = "asleep" /\ m_imuMessages # <<>> => mpc = "notify"

-----------------------------------------------------------------------------
(***************************************************************************)
(* The two threads implement the abstract exchange of frames.  A result is *)
(* delivered when the worker raises the flag, and taken when the tracker   *)
(* thread leaves its wait for the image.                                   *)
(***************************************************************************)
hungUp == tpc \in {"caught", "exit", "join", "done"} \/ processDead

exchangePhase ==
  IF hungUp THEN "idle"
  ELSE IF workerBusy THEN "requested"
  ELSE IF m_timeConsumingImageStepComplete /\ tpc \in {"wait", "imu"} THEN "delivered"
  ELSE "idle"

Exchange == INSTANCE FrameExchange WITH phase <- exchangePhase, closed <- hungUp

ImplementsExchange == Exchange!Spec
=============================================================================
