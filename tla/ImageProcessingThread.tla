----------------------- MODULE ImageProcessingThread -----------------------
(***************************************************************************)
(* The worker thread that retrieves a camera frame and extracts its blobs  *)
(* (ImageProcessingThread.cpp).  The tracker thread tells it what to do    *)
(* through next_ (signalDoFrame, signalExit); it answers by filling the    *)
(* result slots of the TrackerThread object and raising its completion     *)
(* flag (TrackerThread::signalImageProcessingComplete).                    *)
(*                                                                         *)
(* This module declares the state of the worker and the slots it fills;    *)
(* TrackerThread extends it with the thread at the other end.              *)
(***************************************************************************)

CONSTANT RetrieveOutcomes
  \* What ImageSource::retrieve may do: "image" a frame; "null" empty
  \* matrices (only a source that overrides retrieve can do that); "throw" an
  \* exception (an empty frame in the default retrieve's cvtColor, an empty
  \* frame queue in the UVC source).

ASSUME OutcomesAssumption == RetrieveOutcomes \subseteq {"image", "null", "throw"}

VARIABLES
  next_,          \* NextOp: what the worker is to do next, under stateMutex_
  exiting_,       \* the worker has taken the Exit order
  ipc,            \* where the worker is; "none": not launched yet
  frame_,         \* the worker's frame: "null" or "image"
  data,           \* its local result: "null" or "blobs"
  m_frame,        \* TrackerThread's frame slot
  m_imageData,    \* TrackerThread's result slot
  m_timeConsumingImageStepComplete,  \* the completion flag, under m_messageMutex
  waiter,         \* the tracker thread and m_messageCondVar: "awake";
                  \* "committed": predicate found false, mutex still held;
                  \* "asleep": waiting, mutex released
  processDead     \* std::terminate has ended the process

workerVars == <<ipc, frame_, data, exiting_>>
resultVars == <<m_frame, m_imageData>>
imageVars  == <<next_, workerVars, resultVars, m_timeConsumingImageStepComplete,
                waiter, processDead>>

NextOp  == {"Waiting", "DoFrame", "Exit"}
Blobs   == {"null", "blobs"}
Frames  == {"null", "image"}
WorkerPC == {"none", "loop", "retrieve", "process", "publish", "flag", "notify", "done"}

ImageTypeOK ==
  /\ next_ \in NextOp
  /\ exiting_ \in BOOLEAN
  /\ ipc \in WorkerPC
  /\ frame_ \in Frames /\ m_frame \in Frames
  /\ data \in Blobs /\ m_imageData \in Blobs
  /\ m_timeConsumingImageStepComplete \in BOOLEAN
  /\ waiter \in {"awake", "committed", "asleep"}
  /\ processDead \in BOOLEAN

ImageInit ==
  /\ next_ = "Waiting"
  /\ exiting_ = FALSE
  /\ ipc = "none"
  /\ frame_ = "null" /\ m_frame = "null"
  /\ data = "null" /\ m_imageData = "null"
  /\ m_timeConsumingImageStepComplete = FALSE
  /\ waiter = "awake"
  /\ processDead = FALSE

-----------------------------------------------------------------------------
(***************************************************************************)
(* The two orders, called by the tracker thread.  next_ is written and     *)
(* read under stateMutex_ and the worker waits with a predicate on it, so  *)
(* the notification that follows needs no step of its own.                 *)
(***************************************************************************)
signalDoFrame == next_' = "DoFrame"

signalExitForgotten == UNCHANGED next_   \* mutant
signalExit == next_' = "Exit"

\* notify_one on m_messageCondVar: it wakes the tracker thread only if that
\* thread is already waiting; otherwise it is forgotten.
notifyTracker == waiter' = IF waiter = "asleep" THEN "awake" ELSE waiter

-----------------------------------------------------------------------------
(***************************************************************************)
(* threadAction: wait for an order; take Exit for good, or reset next_ and *)
(* do one frame.                                                           *)
(***************************************************************************)
TakeExit ==
  /\ ipc = "loop" /\ next_ = "Exit"
  /\ exiting_' = TRUE
  /\ ipc' = "done"
  /\ UNCHANGED <<next_, frame_, data, resultVars,
                 m_timeConsumingImageStepComplete, waiter, processDead>>

TakeFrame ==
  /\ ipc = "loop" /\ next_ = "DoFrame"
  /\ next_' = "Waiting"
  /\ ipc' = "retrieve"
  /\ data' = "null"
  /\ UNCHANGED <<exiting_, frame_, resultVars,
                 m_timeConsumingImageStepComplete, waiter, processDead>>

(***************************************************************************)
(* doFrame: retrieve the frame, process it, and whatever happened publish  *)
(* (the scope guard).  Nothing catches an exception on this thread: it     *)
(* leaves the std::thread's function and ends the process.                 *)
(***************************************************************************)
Retrieve(outcome) ==
  /\ ipc = "retrieve" /\ outcome \in {"image", "null"}
  /\ frame_' = outcome
  /\ ipc' = IF outcome = "image" THEN "process" ELSE "publish"
  /\ UNCHANGED <<next_, exiting_, data, resultVars,
                 m_timeConsumingImageStepComplete, waiter, processDead>>

RetrieveThrows(outcome) ==
  /\ ipc = "retrieve" /\ outcome = "throw"
  /\ processDead' = TRUE
  /\ UNCHANGED <<next_, workerVars, resultVars,
                 m_timeConsumingImageStepComplete, waiter>>

performInitialImageProcessing ==
  /\ ipc = "process"
  /\ data' = "blobs"
  /\ ipc' = "publish"
  /\ UNCHANGED <<next_, exiting_, frame_, resultVars,
                 m_timeConsumingImageStepComplete, waiter, processDead>>

(***************************************************************************)
(* TrackerThread::signalImageProcessingComplete, run by the worker: the    *)
(* slots without a lock, the flag under m_messageMutex, then notify_one.   *)
(***************************************************************************)
PublishResult ==
  /\ ipc = "publish"
  /\ m_imageData' = data
  /\ data' = "null"
  /\ m_frame' = frame_
  /\ ipc' = "flag"
  /\ UNCHANGED <<next_, exiting_, frame_,
                 m_timeConsumingImageStepComplete, waiter, processDead>>

messageMutexIgnored == TRUE   \* mutant
messageMutexFree == waiter # "committed"

RaiseFlag ==
  /\ ipc = "flag"
  /\ messageMutexFree
  /\ m_timeConsumingImageStepComplete' = TRUE
  /\ ipc' = "notify"
  /\ UNCHANGED <<next_, exiting_, frame_, data, resultVars, waiter, processDead>>

NotifyComplete ==
  /\ ipc = "notify"
  /\ notifyTracker
  /\ ipc' = "loop"
  /\ UNCHANGED <<next_, exiting_, frame_, data, resultVars,
                 m_timeConsumingImageStepComplete, processDead>>

ImageNext ==
  \/ TakeExit
  \/ TakeFrame
  \/ \E outcome \in RetrieveOutcomes : Retrieve(outcome) \/ RetrieveThrows(outcome)
  \/ performInitialImageProcessing
  \/ PublishResult
  \/ RaiseFlag
  \/ NotifyComplete
=============================================================================
