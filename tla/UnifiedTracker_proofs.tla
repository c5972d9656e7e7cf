------------------------ MODULE UnifiedTracker_proofs ------------------------
(***************************************************************************)
(* Proofs about UnifiedTracker, for any sets of bodies, any queue capacity *)
(* and any choice of what the camera and the host may do: the invariants   *)
(* the runs check on a small instance, and the refinement of FrameExchange *)
(* (its safety part).  All of them rest on IInv, which is inductive.       *)
(*                                                                         *)
(* Each lemma about a step takes one thread's steps at a time, with one    *)
(* case per action.                                                        *)
(***************************************************************************)
EXTENDS UnifiedTracker, TLAPS

\* Once there is a camera pose there is one for good.
LEMMA CalibrationGrows ==
  ASSUME TypeOK, calibrationMayFinish
  PROVE  calibrated' \in BOOLEAN /\ (calibrated => calibrated')
BY DEF calibrationMayFinish, TypeOK, TrackerTypeOK

-----------------------------------------------------------------------------
(***************************************************************************)
(* Type correctness, together with the non-emptiness of the queue when a   *)
(* message is about to be taken from it.                                   *)
(***************************************************************************)

\* Steps of the tracker thread.
LEMMA TypeTracker ==
  ASSUME TypeOK, QueueInv, TrackerStep
  PROVE  TypeOK' /\ QueueInv'
<1> USE TrackerAssumption DEF TrackerStep, CountFrame, QueueInv, TypeOK,
       TrackerTypeOK, ImageTypeOK, NextOp, Blobs, Frames, WorkerPC, TrackerPC,
       imageVars, trackerVars, workerVars, resultVars, frameVars, reportVars
<1>1. CASE StartWork
  BY <1>1 DEF StartWork
<1>2. CASE CameraFails
  BY <1>2 DEF CameraFails
<1>3. CASE Grab
  BY <1>3 DEF Grab
<1>4. CASE ClearFlag
  <2>1. m_timeConsumingImageStepComplete' \in BOOLEAN
    BY <1>4 DEF ClearFlag
  <2> QED BY <1>4, <2>1 DEF ClearFlag
<1>5. CASE LaunchImageStep
  BY <1>5 DEF LaunchImageStep, signalDoFrame
<1>6. CASE StopWaiting
  BY <1>6 DEF StopWaiting, somethingToDo, finishedImage
<1>7. CASE CommitToSleep
  BY <1>7 DEF CommitToSleep, somethingToDo
<1>8. CASE Sleep
  BY <1>8 DEF Sleep
<1>9. ASSUME NEW sendNow \in BOOLEAN, ImuBuffered(sendNow) PROVE TypeOK' /\ QueueInv'
  <2>1. calibrated' \in BOOLEAN /\ (calibrated => calibrated')
    BY <1>9, CalibrationGrows DEF ImuBuffered
  <2> QED BY <1>9, <2>1 DEF ImuBuffered, updateReportingVector, transformsKnown, afterImu
<1>10. CASE ImuImmediate
  <2>1. calibrated' \in BOOLEAN /\ (calibrated => calibrated')
    BY <1>10, CalibrationGrows DEF ImuImmediate
  <2> QED BY <1>10, <2>1 DEF ImuImmediate, updateReportingVectorSingle, afterImu
<1>11. CASE ImuThrows
  BY <1>11 DEF ImuThrows
<1>12. CASE ImageMissing
  BY <1>12 DEF ImageMissing
<1>13. CASE VideoThrows
  BY <1>13 DEF VideoThrows, resultTaken
<1>14. ASSUME NEW updated \in SUBSET Bodies, updateBodiesFromVideoData(updated) PROVE TypeOK' /\ QueueInv'
  <2>1. calibrated' \in BOOLEAN /\ (calibrated => calibrated')
    BY <1>14, CalibrationGrows DEF updateBodiesFromVideoData
  <2> QED BY <1>14, <2>1 DEF updateBodiesFromVideoData, resultTaken, mergedWithImu
<1>15. CASE SizeGuess
  BY <1>15 DEF SizeGuess, sizeGuess
<1>16. CASE DrainOne
  <2>1. calibrated' \in BOOLEAN /\ (calibrated => calibrated')
    BY <1>16, CalibrationGrows DEF DrainOne
  <2> QED BY <1>16, <2>1 DEF DrainOne, afterImu
<1>17. CASE ReportFrame
  BY <1>17 DEF ReportFrame, updateReportingVector, transformsKnown
<1>18. CASE CheckRunFlag
  BY <1>18 DEF CheckRunFlag, keepGoing
<1>19. CASE CatchException
  <2>1. m_run' \in BOOLEAN
    BY <1>19 DEF CatchException
  <2> QED BY <1>19, <2>1 DEF CatchException
<1>20. CASE TellWorkerToExit
  BY <1>20 DEF TellWorkerToExit, signalExit
<1>21. CASE JoinWorker
  BY <1>21 DEF JoinWorker
<1> QED BY <1>1, <1>2, <1>3, <1>4, <1>5, <1>6, <1>7, <1>8, <1>9, <1>10, <1>11, <1>12,
    <1>13, <1>14, <1>15, <1>16, <1>17, <1>18, <1>19, <1>20, <1>21 DEF TrackerNext

\* Steps of the image processing thread.
LEMMA TypeWorker ==
  ASSUME TypeOK, QueueInv, WorkerStep
  PROVE  TypeOK' /\ QueueInv'
<1> USE OutcomesAssumption DEF WorkerStep, QueueInv, TypeOK, TrackerTypeOK,
       ImageTypeOK, NextOp, Blobs, Frames, WorkerPC, TrackerPC, imageVars,
       trackerVars, workerVars, resultVars, frameVars, reportVars
<1>1. CASE TakeExit
  BY <1>1 DEF TakeExit
<1>2. CASE TakeFrame
  BY <1>2 DEF TakeFrame
<1>3. ASSUME NEW outcome \in RetrieveOutcomes, Retrieve(outcome) PROVE TypeOK' /\ QueueInv'
  BY <1>3 DEF Retrieve
<1>4. ASSUME NEW outcome \in RetrieveOutcomes, RetrieveThrows(outcome) PROVE TypeOK' /\ QueueInv'
  BY <1>4 DEF RetrieveThrows
<1>5. CASE performInitialImageProcessing
  BY <1>5 DEF performInitialImageProcessing
<1>6. CASE PublishResult
  BY <1>6 DEF PublishResult
<1>7. CASE RaiseFlag
  BY <1>7 DEF RaiseFlag, messageMutexFree
<1>8. CASE NotifyComplete
  BY <1>8 DEF NotifyComplete, notifyTracker
<1> QED BY <1>1, <1>2, <1>3, <1>4, <1>5, <1>6, <1>7, <1>8 DEF ImageNext

\* Steps of the main thread.
LEMMA TypeMain ==
  ASSUME TypeOK, QueueInv, MainStep
  PROVE  TypeOK' /\ QueueInv'
<1> USE TrackerAssumption DEF MainStep, QueueInv, TypeOK, TrackerTypeOK, ImageTypeOK,
       NextOp, Blobs, Frames, WorkerPC, TrackerPC, imageVars, trackerVars, workerVars,
       resultVars, frameVars, reportVars
<1>1. CASE FirstUpdate
  BY <1>1 DEF FirstUpdate
<1>2. ASSUME NEW body \in ImuBodies, SubmitImu(body) PROVE TypeOK' /\ QueueInv'
  BY <1>2 DEF SubmitImu, queueHasRoom
<1>3. CASE NotifyImu
  BY <1>3 DEF NotifyImu, notifyTracker
<1>4. CASE triggerStop
  <2>1. m_run' \in BOOLEAN
    BY <1>4 DEF triggerStop
  <2> QED BY <1>4, <2>1 DEF triggerStop
<1>5. CASE JoinTracker
  BY <1>5 DEF JoinTracker
<1> QED BY <1>1, <1>2, <1>3, <1>4, <1>5 DEF MainNext

-----------------------------------------------------------------------------
(***************************************************************************)
(* The inductive invariant.                                                *)
(***************************************************************************)

\* Steps of the tracker thread.
LEMMA InvTracker ==
  ASSUME IInv, TypeOK', QueueInv', TrackerStep
  PROVE  IInv'
<1> USE TrackerAssumption DEF TrackerStep, CountFrame, IInv, QueueInv, HandoverInv,
       workerBusy, WaitInv, CompletionNotMissed, ResultInv, StopInv, ReportInv,
       TypeOK, TrackerTypeOK, ImageTypeOK, NextOp, Blobs, Frames,
       WorkerPC, TrackerPC, imageVars, trackerVars, workerVars, resultVars, frameVars,
       reportVars
<1>1. CASE StartWork
  BY <1>1 DEF StartWork
<1>2. CASE CameraFails
  BY <1>2 DEF CameraFails
<1>3. CASE Grab
  BY <1>3 DEF Grab
<1>4. CASE ClearFlag
  BY <1>4 DEF ClearFlag
<1>5. CASE LaunchImageStep
  BY <1>5 DEF LaunchImageStep, signalDoFrame
<1>6. CASE StopWaiting
  BY <1>6 DEF StopWaiting, somethingToDo, finishedImage
<1>7. CASE CommitToSleep
  BY <1>7 DEF CommitToSleep, somethingToDo
<1>8. CASE Sleep
  BY <1>8 DEF Sleep
<1>9. ASSUME NEW sendNow \in BOOLEAN, ImuBuffered(sendNow) PROVE IInv'
  <2>1. calibrated' \in BOOLEAN /\ (calibrated => calibrated')
    BY <1>9, CalibrationGrows DEF ImuBuffered
  <2> QED BY <1>9, <2>1 DEF ImuBuffered, updateReportingVector, transformsKnown, afterImu
<1>10. CASE ImuImmediate
  <2>1. calibrated' \in BOOLEAN /\ (calibrated => calibrated')
    BY <1>10, CalibrationGrows DEF ImuImmediate
  <2> QED BY <1>10, <2>1 DEF ImuImmediate, updateReportingVectorSingle, afterImu
<1>11. CASE ImuThrows
  BY <1>11 DEF ImuThrows
<1>12. CASE ImageMissing
  BY <1>12 DEF ImageMissing
<1>13. CASE VideoThrows
  BY <1>13 DEF VideoThrows, resultTaken
<1>14. ASSUME NEW updated \in SUBSET Bodies, updateBodiesFromVideoData(updated) PROVE IInv'
  <2>1. calibrated' \in BOOLEAN /\ (calibrated => calibrated')
    BY <1>14, CalibrationGrows DEF updateBodiesFromVideoData
  <2> QED BY <1>14, <2>1 DEF updateBodiesFromVideoData, resultTaken, mergedWithImu
<1>15. CASE SizeGuess
  BY <1>15 DEF SizeGuess, sizeGuess
<1>16. CASE DrainOne
  <2>1. calibrated' \in BOOLEAN /\ (calibrated => calibrated')
    BY <1>16, CalibrationGrows DEF DrainOne
  <2> QED BY <1>16, <2>1 DEF DrainOne, afterImu
<1>17. CASE ReportFrame
  BY <1>17 DEF ReportFrame, updateReportingVector, transformsKnown
<1>18. CASE CheckRunFlag
  BY <1>18 DEF CheckRunFlag, keepGoing
<1>19. CASE CatchException
  BY <1>19 DEF CatchException
<1>20. CASE TellWorkerToExit
  BY <1>20 DEF TellWorkerToExit, signalExit
<1>21. CASE JoinWorker
  BY <1>21 DEF JoinWorker
<1> QED BY <1>1, <1>2, <1>3, <1>4, <1>5, <1>6, <1>7, <1>8, <1>9, <1>10, <1>11, <1>12,
    <1>13, <1>14, <1>15, <1>16, <1>17, <1>18, <1>19, <1>20, <1>21 DEF TrackerNext

\* Steps of the image processing thread.
LEMMA InvWorker ==
  ASSUME IInv, TypeOK', QueueInv', WorkerStep
  PROVE  IInv'
<1> USE OutcomesAssumption DEF WorkerStep, IInv, QueueInv, HandoverInv, workerBusy,
       WaitInv, CompletionNotMissed, ResultInv, StopInv, ReportInv,
       TypeOK, TrackerTypeOK, ImageTypeOK, NextOp, Blobs, Frames,
       WorkerPC, TrackerPC, imageVars, trackerVars, workerVars, resultVars, frameVars,
       reportVars
<1>1. CASE TakeExit
  BY <1>1 DEF TakeExit
<1>2. CASE TakeFrame
  BY <1>2 DEF TakeFrame
<1>3. ASSUME NEW outcome \in RetrieveOutcomes, Retrieve(outcome) PROVE IInv'
  BY <1>3 DEF Retrieve
<1>4. ASSUME NEW outcome \in RetrieveOutcomes, RetrieveThrows(outcome) PROVE IInv'
  BY <1>4 DEF RetrieveThrows
<1>5. CASE performInitialImageProcessing
  BY <1>5 DEF performInitialImageProcessing
<1>6. CASE PublishResult
  BY <1>6 DEF PublishResult
<1>7. CASE RaiseFlag
  BY <1>7 DEF RaiseFlag, messageMutexFree
<1>8. CASE NotifyComplete
  BY <1>8 DEF NotifyComplete, notifyTracker
<1> QED BY <1>1, <1>2, <1>3, <1>4, <1>5, <1>6, <1>7, <1>8 DEF ImageNext

\* Steps of the main thread.
LEMMA InvMain ==
  ASSUME IInv, TypeOK', QueueInv', MainStep
  PROVE  IInv'
<1> USE DEF MainStep, IInv, QueueInv, HandoverInv, workerBusy, WaitInv,
       CompletionNotMissed, ResultInv, StopInv, ReportInv, TypeOK,
       TrackerTypeOK, ImageTypeOK, NextOp, Blobs, Frames, WorkerPC, TrackerPC,
       imageVars, trackerVars, workerVars, resultVars, frameVars, reportVars
<1>1. CASE FirstUpdate
  BY <1>1 DEF FirstUpdate
<1>2. ASSUME NEW body \in ImuBodies, SubmitImu(body) PROVE IInv'
  BY <1>2 DEF SubmitImu, queueHasRoom
<1>3. CASE NotifyImu
  BY <1>3 DEF NotifyImu, notifyTracker
<1>4. CASE triggerStop
  BY <1>4 DEF triggerStop
<1>5. CASE JoinTracker
  BY <1>5 DEF JoinTracker
<1> QED BY <1>1, <1>2, <1>3, <1>4, <1>5 DEF MainNext

LEMMA InvInit == Init => IInv
<1> SUFFICES ASSUME Init PROVE IInv
  OBVIOUS
<1> USE DEF Init, TrackerInit, ImageInit
<1>1. ImageTypeOK
  <2>1. /\ exiting_ \in BOOLEAN /\ processDead \in BOOLEAN
        /\ m_timeConsumingImageStepComplete \in BOOLEAN
    OBVIOUS
  <2> QED BY <2>1 DEF ImageTypeOK, NextOp, Blobs, Frames, WorkerPC
<1>2. TypeOK
  <2>1. /\ m_startupSignal \in BOOLEAN /\ m_run \in BOOLEAN
        /\ calibrated \in BOOLEAN /\ m_setCameraPose \in BOOLEAN
    OBVIOUS
  <2>2. m_imuMessages \in Seq(ImuBodies) /\ Len(m_imuMessages) <= QueueCapacity
    BY TrackerAssumption
  <2> QED BY <1>1, <2>1, <2>2, TrackerAssumption DEF TypeOK, TrackerTypeOK, TrackerPC
<1> QED
  BY <1>2 DEF IInv, QueueInv, HandoverInv, workerBusy, WaitInv, CompletionNotMissed,
              ResultInv, StopInv, ReportInv

LEMMA InvNext == IInv /\ [Next]_vars => IInv'
<1> SUFFICES ASSUME IInv, [Next]_vars PROVE IInv'
  OBVIOUS
<1>1. CASE TrackerStep
  BY <1>1, TypeTracker, InvTracker DEF IInv
<1>2. CASE WorkerStep
  BY <1>2, TypeWorker, InvWorker DEF IInv
<1>3. CASE MainStep
  BY <1>3, TypeMain, InvMain DEF IInv
<1>4. CASE Wakeup
  BY <1>4 DEF Wakeup, SpuriousWakeup, IInv, QueueInv, HandoverInv, workerBusy, WaitInv, CompletionNotMissed, ResultInv, StopInv, ReportInv, TypeOK, TrackerTypeOK, ImageTypeOK, NextOp, Blobs, Frames, WorkerPC, TrackerPC, imageVars, trackerVars, workerVars, resultVars, frameVars, reportVars
<1>5. CASE UNCHANGED vars
  BY <1>5 DEF vars, IInv, QueueInv, HandoverInv, workerBusy, WaitInv, CompletionNotMissed, ResultInv, StopInv, ReportInv, TypeOK, TrackerTypeOK, ImageTypeOK, NextOp, Blobs, Frames, WorkerPC, TrackerPC, imageVars, trackerVars, workerVars, resultVars, frameVars, reportVars
<1> QED BY <1>1, <1>2, <1>3, <1>4, <1>5 DEF Next, Over

LEMMA Invariance == Spec => []IInv
BY InvInit, InvNext, PTL DEF Spec

-----------------------------------------------------------------------------
(***************************************************************************)
(* The invariants.                                                         *)
(***************************************************************************)

\* Every variable of the plugin and its two threads keeps its type; in
\* particular the IMU queue never holds more than its capacity.
THEOREM TypeCorrect == Spec => []TypeOK
BY Invariance, PTL DEF IInv

\* The result slots and the unlocked completion flag are never accessed by the
\* tracker thread while the worker is ordered to write them or writing them.
THEOREM Handover == Spec => []ExclusiveHandover
<1>1. IInv => ExclusiveHandover
  BY DEF IInv, HandoverInv, ExclusiveHandover
<1> QED BY <1>1, Invariance, PTL

\* The result of a frame is never used for a later one.
THEOREM FreshResults == Spec => []NoStaleResult
<1>1. IInv => NoStaleResult
  BY DEF IInv, ResultInv, NoStaleResult
<1> QED BY <1>1, Invariance, PTL

\* The tracker thread never sleeps through the completion of an image.
THEOREM NoMissedCompletion == Spec => []CompletionNotMissed
<1>1. IInv => CompletionNotMissed
  BY DEF IInv, WaitInv
<1> QED BY <1>1, Invariance, PTL

\* At most one frame is launched after triggerStop.
THEOREM PromptStop == Spec => []StopsAfterCurrentFrame
<1>1. IInv => StopsAfterCurrentFrame
  BY DEF IInv, StopInv, StopsAfterCurrentFrame
<1> QED BY <1>1, Invariance, PTL

\* A frame that brought an image leaves no body unreported that changed in the
\* course of it.
THEOREM CaughtUp == Spec => []ReportsCaughtUp
<1>1. IInv => ReportsCaughtUp
  BY DEF IInv, ReportInv, ReportsCaughtUp
<1> QED BY <1>1, Invariance, PTL

-----------------------------------------------------------------------------
(***************************************************************************)
(* Refinement: every step of the three threads is a step of the exchange   *)
(* of frames, or changes nothing that it knows of.                         *)
(***************************************************************************)

\* Steps of the tracker thread.
LEMMA ExchangeTracker ==
  ASSUME IInv, TrackerStep
  PROVE  [Exchange!Next]_Exchange!vars
<1> USE DEF TrackerStep, CountFrame, Exchange!Next, Exchange!vars, Exchange!Request,
       Exchange!Deliver, Exchange!Take, Exchange!Close, exchangePhase, hungUp,
       workerBusy, IInv, HandoverInv, QueueInv, ImageTypeOK, TrackerTypeOK, TypeOK,
       NextOp, WorkerPC, TrackerPC, imageVars, trackerVars, workerVars, resultVars,
       frameVars, reportVars
<1>1. CASE StartWork
  BY <1>1 DEF StartWork
<1>2. CASE CameraFails
  BY <1>2 DEF CameraFails
<1>3. CASE Grab
  BY <1>3 DEF Grab
<1>4. CASE ClearFlag
  BY <1>4 DEF ClearFlag
<1>5. CASE LaunchImageStep
  BY <1>5 DEF LaunchImageStep, signalDoFrame
<1>6. CASE StopWaiting
  BY <1>6 DEF StopWaiting, somethingToDo, finishedImage
<1>7. CASE CommitToSleep
  BY <1>7 DEF CommitToSleep, somethingToDo
<1>8. CASE Sleep
  BY <1>8 DEF Sleep
<1>9. ASSUME NEW sendNow \in BOOLEAN, ImuBuffered(sendNow) PROVE [Exchange!Next]_Exchange!vars
  BY <1>9 DEF ImuBuffered, updateReportingVector, transformsKnown, afterImu
<1>10. CASE ImuImmediate
  BY <1>10 DEF ImuImmediate, updateReportingVectorSingle, afterImu
<1>11. CASE ImuThrows
  BY <1>11 DEF ImuThrows
<1>12. CASE ImageMissing
  BY <1>12 DEF ImageMissing
<1>13. CASE VideoThrows
  BY <1>13 DEF VideoThrows, resultTaken
<1>14. ASSUME NEW updated \in SUBSET Bodies, updateBodiesFromVideoData(updated) PROVE [Exchange!Next]_Exchange!vars
  BY <1>14 DEF updateBodiesFromVideoData, resultTaken, mergedWithImu
<1>15. CASE SizeGuess
  BY <1>15 DEF SizeGuess, sizeGuess
<1>16. CASE DrainOne
  BY <1>16 DEF DrainOne, afterImu
<1>17. CASE ReportFrame
  BY <1>17 DEF ReportFrame, updateReportingVector, transformsKnown
<1>18. CASE CheckRunFlag
  BY <1>18 DEF CheckRunFlag, keepGoing
<1>19. CASE CatchException
  BY <1>19 DEF CatchException
<1>20. CASE TellWorkerToExit
  BY <1>20 DEF TellWorkerToExit, signalExit
<1>21. CASE JoinWorker
  BY <1>21 DEF JoinWorker
<1> QED BY <1>1, <1>2, <1>3, <1>4, <1>5, <1>6, <1>7, <1>8, <1>9, <1>10, <1>11, <1>12,
    <1>13, <1>14, <1>15, <1>16, <1>17, <1>18, <1>19, <1>20, <1>21 DEF TrackerNext

\* Steps of the image processing thread.
LEMMA ExchangeWorker ==
  ASSUME IInv, WorkerStep
  PROVE  [Exchange!Next]_Exchange!vars
<1> USE DEF WorkerStep, Exchange!Next, Exchange!vars, Exchange!Request,
       Exchange!Deliver, Exchange!Take, Exchange!Close, exchangePhase, hungUp,
       workerBusy, IInv, HandoverInv, QueueInv, ImageTypeOK, TrackerTypeOK, TypeOK,
       NextOp, WorkerPC, TrackerPC, imageVars, trackerVars, workerVars, resultVars,
       frameVars, reportVars
<1>1. CASE TakeExit
  BY <1>1 DEF TakeExit
<1>2. CASE TakeFrame
  BY <1>2 DEF TakeFrame
<1>3. ASSUME NEW outcome \in RetrieveOutcomes, Retrieve(outcome) PROVE [Exchange!Next]_Exchange!vars
  BY <1>3 DEF Retrieve
<1>4. ASSUME NEW outcome \in RetrieveOutcomes, RetrieveThrows(outcome) PROVE [Exchange!Next]_Exchange!vars
  BY <1>4 DEF RetrieveThrows
<1>5. CASE performInitialImageProcessing
  BY <1>5 DEF performInitialImageProcessing
<1>6. CASE PublishResult
  BY <1>6 DEF PublishResult
<1>7. CASE RaiseFlag
  BY <1>7 DEF RaiseFlag, messageMutexFree
<1>8. CASE NotifyComplete
  BY <1>8 DEF NotifyComplete, notifyTracker
<1> QED BY <1>1, <1>2, <1>3, <1>4, <1>5, <1>6, <1>7, <1>8 DEF ImageNext

\* Steps of the main thread.
LEMMA ExchangeMain ==
  ASSUME IInv, MainStep
  PROVE  [Exchange!Next]_Exchange!vars
<1> USE DEF MainStep, Exchange!Next, Exchange!vars, Exchange!Request,
       Exchange!Deliver, Exchange!Take, Exchange!Close, exchangePhase, hungUp,
       workerBusy, IInv, HandoverInv, QueueInv, ImageTypeOK, TrackerTypeOK, TypeOK,
       NextOp, WorkerPC, TrackerPC, imageVars, trackerVars, workerVars, resultVars,
       frameVars, reportVars
<1>1. CASE FirstUpdate
  BY <1>1 DEF FirstUpdate
<1>2. ASSUME NEW body \in ImuBodies, SubmitImu(body) PROVE [Exchange!Next]_Exchange!vars
  BY <1>2 DEF SubmitImu, queueHasRoom
<1>3. CASE NotifyImu
  BY <1>3 DEF NotifyImu, notifyTracker
<1>4. CASE triggerStop
  BY <1>4 DEF triggerStop
<1>5. CASE JoinTracker
  BY <1>5 DEF JoinTracker
<1> QED BY <1>1, <1>2, <1>3, <1>4, <1>5 DEF MainNext

LEMMA ExchangeInit == Init => Exchange!Init
BY DEF Init, TrackerInit, ImageInit, Exchange!Init, exchangePhase, hungUp, workerBusy

LEMMA ExchangeNext == IInv /\ [Next]_vars => [Exchange!Next]_Exchange!vars
<1> SUFFICES ASSUME IInv, [Next]_vars PROVE [Exchange!Next]_Exchange!vars
  OBVIOUS
<1>1. CASE Wakeup
  BY <1>1 DEF Wakeup, SpuriousWakeup, Exchange!vars, exchangePhase, hungUp, workerBusy,
              trackerVars, workerVars
<1>2. CASE UNCHANGED vars
  BY <1>2 DEF vars, imageVars, trackerVars, workerVars, Exchange!vars, exchangePhase, hungUp,
              workerBusy
<1> QED
  BY <1>1, <1>2, ExchangeTracker, ExchangeWorker, ExchangeMain DEF Next, Over

\* The tracker thread and the image processing thread exchange frames as
\* FrameExchange says: one request at a time, one result for each, taken once
\* and before the next request.
THEOREM ExchangeRefined == Spec => Exchange!Init /\ [][Exchange!Next]_Exchange!vars
BY ExchangeInit, ExchangeNext, Invariance, PTL DEF Spec
=============================================================================
