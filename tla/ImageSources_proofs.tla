-------------------------- MODULE ImageSources_proofs --------------------------
(***************************************************************************)
(* Proofs about the image sources: a sample is read while it is lent, the  *)
(* UVC queue has the latest pictures, and every camera keeps the contract  *)
(* of ImageSource, for any number of pictures and any length of the queue. *)
(***************************************************************************)
EXTENDS ImageSources, TLAPS

-----------------------------------------------------------------------------
LEMMA InvInit == Init => SourcesInv
<1> SUFFICES ASSUME Init PROVE SourcesInv
  OBVIOUS
<1> USE DEF Init, ClientInit, UvcInit, ExchangeInit, CameraInit
<1>1. ClientTypeOK /\ UvcTypeOK
  <2>1. frames_ \in Seq(1..MaxPictures) /\ Len(frames_) = 0
    <3>1. frames_ = <<>>
      OBVIOUS
    <3> HIDE DEF Init
    <3> QED BY <3>1
  <2>2. Len(frames_) <= MaxQueued
    BY <2>1, QueuedAssumption
  <2>3. 0 \in 0..MaxPictures
    BY PicturesAssumption
  <2>4. ClientTypeOK
    BY <2>3 DEF ClientTypeOK, Phases
  <2> QED BY <2>1, <2>2, <2>3, <2>4 DEF UvcTypeOK
<1>2. CameraTypeOK /\ grabbed \in 0..MaxPictures /\ grabbedAt \in 0..MaxPictures
  <2>1. 0 \in 0..MaxPictures
    BY PicturesAssumption
  <2>2. ExchangeTypeOK
    BY <2>1 DEF ExchangeTypeOK
  <2>3. 1 \in 1..5
    OBVIOUS
  <2> QED BY <2>1, <2>2, <2>3 DEF CameraTypeOK
<1>3. Rendezvous /\ QueueIsLatest
  BY DEF Rendezvous, Offering, Holding, QueueIsLatest
<1>4. CameraLife /\ InOrderDs /\ InOrderUvc /\ InOrderCv
  BY DEF CameraLife, InOrderDs, InOrderUvc, InOrderCv
<1> QED BY <1>1, <1>2, <1>3, <1>4 DEF SourcesInv, TypeOK

-----------------------------------------------------------------------------
(* The source over libuvc. *)

\* What does not concern the source in use stays as it was.
LEMMA OthersKeptByUvc ==
  ASSUME SourcesInv, source = "uvc", UNCHANGED <<source, exchangeVars, serverVars, openCvVars>>,
         ClientTypeOK', UvcTypeOK', QueueIsLatest', InOrderUvc'
  PROVE  SourcesInv'
<1>1. TypeOK'
  BY DEF SourcesInv, TypeOK, CameraTypeOK, ExchangeTypeOK, exchangeVars, eventVars,
    grabberVars, callbackVars, serverVars, openCvVars
<1>2. Rendezvous' /\ (spc = "none" /\ cbpc = "outside")'
  BY DEF SourcesInv, Rendezvous, Offering, Holding, exchangeVars, eventVars, grabberVars,
    callbackVars, serverVars
<1> QED BY <1>1, <1>2 DEF SourcesInv

\* The facts of the state that the steps of the source use.
UvcState ==
  /\ phase \in Phases /\ now \in Nat /\ now <= MaxPictures
  /\ image \in 0..MaxPictures /\ stamp \in 0..MaxPictures
  /\ frames_ \in Seq(1..MaxPictures) /\ Len(frames_) \in Nat /\ Len(frames_) <= MaxQueued
  /\ streaming \in BOOLEAN /\ m_timestamp \in 0..MaxPictures
  /\ \A i \in 1..Len(frames_) : frames_[i] = now - Len(frames_) + i
  /\ InOrderUvc

LEMMA CallbackKeeps ==
  ASSUME UvcState, source = "uvc", callback, phase # "dead"
  PROVE  ClientTypeOK' /\ UvcTypeOK' /\ QueueIsLatest' /\ InOrderUvc'
<1>1. /\ now' = now + 1 /\ now' \in 1..MaxPictures
      /\ UNCHANGED <<source, phase, image, stamp, streaming, m_timestamp>>
  BY PicturesAssumption DEF callback, PictureTaken, UvcState
<1>2. ClientTypeOK'
  BY <1>1 DEF ClientTypeOK, UvcState, Sources
<1>3. CASE frames_' = <<>>
  <2>1. frames_' \in Seq(1..MaxPictures) /\ Len(frames_') = 0 /\ DOMAIN frames_' = {}
    BY <1>3
  <2>2. UvcTypeOK'
    BY <1>1, <2>1, QueuedAssumption DEF UvcTypeOK, UvcState
  <2>3. QueueIsLatest' /\ InOrderUvc'
    BY <1>1, <2>1, PicturesAssumption DEF QueueIsLatest, InOrderUvc, UvcState
  <2> QED BY <1>2, <2>2, <2>3
<1>4. CASE Len(frames_) + 1 <= MaxQueued /\ frames_' = Append(frames_, now')
  <2>1. /\ frames_' \in Seq(1..MaxPictures)
        /\ Len(frames_') = Len(frames_) + 1 /\ DOMAIN frames_' = 1..(Len(frames_) + 1)
        /\ \A i \in 1..Len(frames_) : frames_'[i] = frames_[i]
        /\ frames_'[Len(frames_) + 1] = now'
    BY <1>1, <1>4 DEF UvcState
  <2>2. UvcTypeOK'
    BY <1>1, <1>4, <2>1 DEF UvcTypeOK, UvcState
  <2>3. QueueIsLatest'
    <3> SUFFICES ASSUME NEW i \in 1..(Len(frames_) + 1)
                 PROVE  frames_'[i] = now' - Len(frames_') + i
      BY <2>1 DEF QueueIsLatest
    <3>1. CASE i = Len(frames_) + 1
      BY <1>1, <2>1, <3>1 DEF UvcState
    <3>2. CASE i \in 1..Len(frames_)
      BY <1>1, <2>1, <3>2 DEF UvcState
    <3> QED BY <3>1, <3>2 DEF UvcState
  <2>4. InOrderUvc'
    BY <1>1, <2>1, PicturesAssumption DEF InOrderUvc, UvcState
  <2> QED BY <1>2, <2>2, <2>3, <2>4
<1> QED BY <1>3, <1>4, QueuedAssumption DEF callback, queued, UvcState

LEMMA RetrieveKeeps ==
  ASSUME UvcState, source = "uvc", retrieveColor
  PROVE  /\ ClientTypeOK' /\ UvcTypeOK' /\ QueueIsLatest' /\ InOrderUvc'
         /\ image' > image /\ stamp' >= stamp
<1>1. /\ frames_ # <<>> /\ frames_' = Tail(frames_) /\ image' = frames_[1]
      /\ stamp' = m_timestamp /\ phase' = "idle"
      /\ UNCHANGED <<source, now, streaming, m_timestamp>>
  BY DEF retrieveColor, Retrieved, UvcState
<1>2. Len(frames_) >= 1 /\ Len(frames_') = Len(frames_) - 1
  BY <1>1 DEF UvcState
<1>3. frames_' \in Seq(1..MaxPictures) /\ DOMAIN frames_' = 1..Len(frames_')
  BY <1>1 DEF UvcState
<1>4. \A i \in 1..Len(frames_') : frames_'[i] = frames_[i + 1] /\ i + 1 \in 1..Len(frames_)
  BY <1>1, <1>2 DEF UvcState
<1>5. image' = now - Len(frames_) + 1 /\ image' \in 1..MaxPictures
  BY <1>1, <1>2, PicturesAssumption DEF UvcState
<1>6. ClientTypeOK' /\ UvcTypeOK'
  BY <1>1, <1>2, <1>3, <1>5, PicturesAssumption, QueuedAssumption
  DEF ClientTypeOK, UvcTypeOK, UvcState, Sources, Phases
<1>7. QueueIsLatest'
  BY <1>1, <1>2, <1>3, <1>4 DEF QueueIsLatest, UvcState
<1>8. InOrderUvc' /\ image' > image /\ stamp' >= stamp
  BY <1>1, <1>2, <1>5 DEF InOrderUvc, UvcState, Phases
<1> QED BY <1>6, <1>7, <1>8

LEMMA OtherStepsKeep ==
  ASSUME UvcState, source = "uvc", phase # "dead",
         openUVCCamera \/ CallbackThrows \/ UvcStartGrab \/ grab \/ retrieveColorThrows
           \/ UvcDestroy
  PROVE  ClientTypeOK' /\ UvcTypeOK' /\ QueueIsLatest' /\ InOrderUvc'
<1>1. /\ UNCHANGED <<source, now, image, stamp, frames_>>
      /\ m_timestamp' = m_timestamp \/ m_timestamp' = now
      /\ streaming' \in BOOLEAN
  BY DEF openUVCCamera, CallbackThrows, UvcStartGrab, grab, retrieveColorThrows,
    UvcDestroy, Enters, UvcState, uvcVars
<1>5. /\ phase' \in {"idle", "refused", "dead", "grabbing", "grabbed", "closed"}
      /\ phase' = "refused" => ~streaming'
  <2>1. CASE openUVCCamera
    BY <2>1 DEF openUVCCamera, Enters, UvcState, InOrderUvc
  <2>2. CASE ~openUVCCamera
    BY <2>2 DEF CallbackThrows, UvcStartGrab, grab, retrieveColorThrows, UvcDestroy, Enters
  <2> QED BY <2>1, <2>2
<1>2. ClientTypeOK' /\ UvcTypeOK'
  BY <1>1, <1>5 DEF ClientTypeOK, UvcTypeOK, UvcState, Sources, Phases
<1>3. DOMAIN frames_ = 1..Len(frames_)
  BY DEF UvcState
<1>4. QueueIsLatest' /\ InOrderUvc'
  BY <1>1, <1>3, <1>5 DEF QueueIsLatest, InOrderUvc, UvcState
<1> QED BY <1>2, <1>4

LEMMA UvcStateHolds == SourcesInv /\ source = "uvc" => UvcState
<1> SUFFICES ASSUME SourcesInv, source = "uvc" PROVE UvcState
  OBVIOUS
<1>1. ClientTypeOK /\ UvcTypeOK /\ QueueIsLatest /\ InOrderUvc
  BY DEF SourcesInv, TypeOK
<1>2. frames_ \in Seq(1..MaxPictures) => Len(frames_) \in Nat /\ DOMAIN frames_ = 1..Len(frames_)
  OBVIOUS
<1> QED BY <1>1, <1>2, PicturesAssumption
      DEF UvcState, ClientTypeOK, UvcTypeOK, QueueIsLatest

LEMMA UvcKeepsInv ==
  ASSUME SourcesInv, UvcSteps
  PROVE  SourcesInv'
<1>1. UvcState /\ source = "uvc" /\ phase # "dead"
  BY UvcStateHolds DEF UvcSteps
<1>2. UNCHANGED <<source, exchangeVars, serverVars, openCvVars>>
  BY DEF UvcSteps, UvcNext, openUVCCamera, callback, CallbackThrows, UvcStartGrab, grab,
    retrieveColor, retrieveColorThrows, UvcDestroy, Enters, Retrieved, PictureTaken
<1>3. ClientTypeOK' /\ UvcTypeOK' /\ QueueIsLatest' /\ InOrderUvc'
  BY <1>1, CallbackKeeps, RetrieveKeeps, OtherStepsKeep DEF UvcSteps, UvcNext
<1> QED BY <1>1, <1>2, <1>3, OthersKeptByUvc

-----------------------------------------------------------------------------
(* The source over OpenCV. *)

LEMMA CvKeepsInv ==
  ASSUME SourcesInv, CvSteps
  PROVE  SourcesInv'
BY PicturesAssumption DEF TypeOK, ClientTypeOK, UvcTypeOK, CameraTypeOK, ExchangeTypeOK,
  SourcesInv, CvSteps, Sources, Phases, Rendezvous, Offering,
  Holding, InOrderCv, QueueIsLatest, clientVars, uvcVars, exchangeVars, serverVars,
  openCvVars, Enters, Retrieved, PictureTaken, eventVars, callbackVars, grabberVars,
  CvNext, openOpenCVCamera, CvPictureTaken, CvStartGrab, CvGrab, CvRetrieve, CvDestroy

-----------------------------------------------------------------------------
(* The source over DirectShow. *)

\* Streaming thread and reader agree on where the sample is.
LEMMA RendezvousKept ==
  ASSUME SourcesInv, DsSteps
  PROVE  Rendezvous'
<1>0. Rendezvous /\ CameraLife /\ phase # "dead" /\ now \in Nat /\ InOrderDs
  BY DEF SourcesInv, DsSteps, TypeOK, ClientTypeOK
<1> USE DEF Rendezvous, Offering, Holding,
         clientVars, exchangeVars, eventVars, grabberVars, callbackVars,
         serverVars, setupVars, readVars, Enters, AfterRead
<1>1. CASE OpenStage \/ (\E how \in {"false", "throw"} : OpenFails(how))
           \/ RefuseFirmware
  BY <1>0, <1>1
  DEF OpenStage, Stages, OpenFails, RefuseFirmware
<1>2. CASE StartRead \/ GraphFails \/ ReadRefused
  BY <1>0, <1>2
  DEF StartRead, regionOnRead, mayRead, CameraLife, GraphFails, ReadRefused
<1>3. CASE waitForSample \/ ReadTimesOut
  BY <1>0, <1>3
  DEF waitForSample, ReadTimesOut, noSampleInTime
<1>4. CASE GetPointer \/ GetPointerFails \/ CopyRows
  BY <1>0, <1>4
  DEF GetPointer, GetPointerFails, CopyRows
<1>5. CASE ReleaseSample \/ signalSampleConsumed
  BY <1>0, <1>5
  DEF ReleaseSample, sampleForgotten, signalSampleConsumed
<1>6. CASE DsStartGrab \/ DsRetrieveColor \/ DsDestroy \/ DsReleaseAll
  BY <1>0, <1>6
  DEF DsStartGrab, DsRetrieveColor, Retrieved, DsDestroy, shutdownSignalled, CameraLife,
      DsReleaseAll
<1>7. CASE UNCHANGED serverVars /\ (PictureDropped \/ SampleCB)
  BY <1>0, <1>7
  DEF PictureDropped, PictureTaken, SampleCB
<1>8. CASE UNCHANGED serverVars /\ (signalSampleProduced \/ OfferAsserts)
  BY <1>0, <1>8
  DEF signalSampleProduced, OfferAsserts, Aborts
<1>9. CASE UNCHANGED serverVars /\ (LeaveLoop \/ waitForSampleConsumed \/ WaitAsserts
                                 \/ WaitEnds \/ WaitTimesOut)
  BY <1>0, <1>9
  DEF LeaveLoop, waitForSampleConsumed, WaitAsserts, Aborts, WaitEnds, WaitTimesOut,
      afterTimeout
<1> QED BY <1>1, <1>2, <1>3, <1>4, <1>5, <1>6, <1>7, <1>8, <1>9
      DEF DsSteps, DsNext, ReadStep, ExchangeNext, CallbackStep

\* A camera is read while it is open, and what was never opened never streams.
LEMMA CameraLifeKept ==
  ASSUME SourcesInv, DsSteps
  PROVE  CameraLife'
<1>0. Rendezvous /\ CameraLife /\ phase # "dead" /\ TypeOK /\ stage \in 1..5
  BY DEF SourcesInv, DsSteps, TypeOK, CameraTypeOK
<1> USE DEF CameraLife, Rendezvous, Offering, Holding,
         clientVars, exchangeVars, eventVars, grabberVars, callbackVars,
         serverVars, setupVars, readVars, Enters, AfterRead
<1>1. CASE OpenStage \/ (\E how \in {"false", "throw"} : OpenFails(how))
           \/ RefuseFirmware
  BY <1>0, <1>1
  DEF OpenStage, Stages, OpenFails, RefuseFirmware
<1>2. CASE StartRead \/ GraphFails \/ ReadRefused
  BY <1>0, <1>2
  DEF StartRead, regionOnRead, mayRead, GraphFails, ReadRefused
<1>3. CASE waitForSample \/ ReadTimesOut
  BY <1>0, <1>3
  DEF waitForSample, ReadTimesOut, noSampleInTime
<1>4. CASE GetPointer \/ GetPointerFails \/ CopyRows
  BY <1>0, <1>4
  DEF GetPointer, GetPointerFails, CopyRows
<1>5. CASE ReleaseSample \/ signalSampleConsumed
  BY <1>0, <1>5
  DEF ReleaseSample, sampleForgotten, signalSampleConsumed
<1>6. CASE DsStartGrab \/ DsRetrieveColor \/ DsDestroy \/ DsReleaseAll
  BY <1>0, <1>6
  DEF DsStartGrab, DsRetrieveColor, Retrieved, DsDestroy, shutdownSignalled, DsReleaseAll
<1>7. CASE UNCHANGED serverVars /\ (PictureDropped \/ SampleCB)
  BY <1>0, <1>7
  DEF PictureDropped, PictureTaken, SampleCB
<1>8. CASE UNCHANGED serverVars /\ (signalSampleProduced \/ OfferAsserts)
  BY <1>0, <1>8
  DEF signalSampleProduced, OfferAsserts, Aborts
<1>9. CASE UNCHANGED serverVars /\ (LeaveLoop \/ waitForSampleConsumed \/ WaitAsserts
                                 \/ WaitEnds \/ WaitTimesOut)
  BY <1>0, <1>9
  DEF LeaveLoop, waitForSampleConsumed, WaitAsserts, Aborts, WaitEnds, WaitTimesOut,
      afterTimeout
<1> QED BY <1>1, <1>2, <1>3, <1>4, <1>5, <1>6, <1>7, <1>8, <1>9
      DEF DsSteps, DsNext, ReadStep, ExchangeNext, CallbackStep

\* No picture is overtaken on its way from the camera to the client.
LEMMA InOrderKept ==
  ASSUME SourcesInv, DsSteps
  PROVE  InOrderDs'
<1>0. /\ Rendezvous /\ CameraLife /\ InOrderDs /\ phase # "dead"
      /\ now \in Nat /\ image \in Nat /\ stamp \in Nat /\ buffer \in Nat /\ ts_ \in Nat
      /\ timestamp_ \in Nat /\ cbSample \in Nat /\ lent \in Nat /\ sample_ \in Nat
  BY PicturesAssumption DEF SourcesInv, DsSteps, TypeOK, ClientTypeOK, CameraTypeOK, ExchangeTypeOK
<1> USE DEF InOrderDs, Rendezvous, Offering, Holding,
         clientVars, exchangeVars, eventVars, grabberVars, callbackVars,
         serverVars, setupVars, readVars, Enters, AfterRead
<1>1. CASE OpenStage \/ (\E how \in {"false", "throw"} : OpenFails(how))
           \/ RefuseFirmware
  BY <1>0, <1>1
  DEF OpenStage, Stages, OpenFails, RefuseFirmware
<1>2. CASE StartRead \/ GraphFails \/ ReadRefused
  BY <1>0, <1>2
  DEF StartRead, regionOnRead, mayRead, GraphFails, ReadRefused
<1>3. CASE waitForSample \/ ReadTimesOut
  BY <1>0, <1>3
  DEF waitForSample, ReadTimesOut, noSampleInTime
<1>4. CASE GetPointer \/ GetPointerFails \/ CopyRows
  BY <1>0, <1>4
  DEF GetPointer, GetPointerFails, CopyRows
<1>5. CASE ReleaseSample \/ signalSampleConsumed
  BY <1>0, <1>5
  DEF ReleaseSample, sampleForgotten, signalSampleConsumed
<1>6. CASE DsStartGrab \/ DsRetrieveColor \/ DsDestroy \/ DsReleaseAll
  BY <1>0, <1>6
  DEF DsStartGrab, DsRetrieveColor, Retrieved, CameraLife, DsDestroy, shutdownSignalled,
      DsReleaseAll
<1>7. CASE UNCHANGED serverVars /\ (PictureDropped \/ SampleCB)
  BY <1>0, <1>7
  DEF PictureDropped, PictureTaken, SampleCB
<1>8. CASE UNCHANGED serverVars /\ (signalSampleProduced \/ OfferAsserts)
  BY <1>0, <1>8
  DEF signalSampleProduced, OfferAsserts, Aborts
<1>9. CASE UNCHANGED serverVars /\ (LeaveLoop \/ waitForSampleConsumed \/ WaitAsserts
                                 \/ WaitEnds \/ WaitTimesOut)
  BY <1>0, <1>9
  DEF LeaveLoop, waitForSampleConsumed, WaitAsserts, Aborts, WaitEnds, WaitTimesOut,
      afterTimeout
<1> QED BY <1>1, <1>2, <1>3, <1>4, <1>5, <1>6, <1>7, <1>8, <1>9
      DEF DsSteps, DsNext, ReadStep, ExchangeNext, CallbackStep

\* The types, in three parts: the client, the exchange, and the server.
LEMMA ClientTypeKept ==
  ASSUME SourcesInv, DsSteps
  PROVE  ClientTypeOK'
<1>0. /\ ClientTypeOK /\ CameraTypeOK /\ phase # "dead" /\ MaxPictures \in Nat
  BY PicturesAssumption DEF SourcesInv, DsSteps, TypeOK
<1> USE DEF ClientTypeOK, CameraTypeOK, Sources, Phases,
         clientVars, exchangeVars, eventVars, grabberVars, callbackVars,
         serverVars, setupVars, readVars, Enters, AfterRead
<1>1. CASE OpenStage \/ (\E how \in {"false", "throw"} : OpenFails(how))
           \/ RefuseFirmware
  BY <1>0, <1>1
  DEF OpenStage, Stages, OpenFails, RefuseFirmware
<1>2. CASE StartRead \/ GraphFails \/ ReadRefused
  BY <1>0, <1>2
  DEF StartRead, regionOnRead, mayRead, GraphFails, ReadRefused
<1>3. CASE waitForSample \/ ReadTimesOut
  BY <1>0, <1>3
  DEF waitForSample, ReadTimesOut, noSampleInTime
<1>4. CASE GetPointer \/ GetPointerFails \/ CopyRows
  BY <1>0, <1>4
  DEF GetPointer, GetPointerFails, CopyRows
<1>5. CASE ReleaseSample \/ signalSampleConsumed
  BY <1>0, <1>5
  DEF ReleaseSample, sampleForgotten, signalSampleConsumed
<1>6. CASE DsStartGrab \/ DsRetrieveColor \/ DsDestroy \/ DsReleaseAll
  BY <1>0, <1>6
  DEF DsStartGrab, DsRetrieveColor, Retrieved, DsDestroy, shutdownSignalled, DsReleaseAll
<1>7. CASE UNCHANGED serverVars /\ (PictureDropped \/ SampleCB)
  BY <1>0, <1>7
  DEF PictureDropped, PictureTaken, SampleCB
<1>8. CASE UNCHANGED serverVars /\ (signalSampleProduced \/ OfferAsserts)
  BY <1>0, <1>8
  DEF signalSampleProduced, OfferAsserts, Aborts
<1>9. CASE UNCHANGED serverVars /\ (LeaveLoop \/ waitForSampleConsumed \/ WaitAsserts
                                 \/ WaitEnds \/ WaitTimesOut)
  BY <1>0, <1>9
  DEF LeaveLoop, waitForSampleConsumed, WaitAsserts, Aborts, WaitEnds, WaitTimesOut,
      afterTimeout
<1> QED BY <1>1, <1>2, <1>3, <1>4, <1>5, <1>6, <1>7, <1>8, <1>9
      DEF DsSteps, DsNext, ReadStep, ExchangeNext, CallbackStep

LEMMA ExchangeTypeKept ==
  ASSUME SourcesInv, DsSteps
  PROVE  ExchangeTypeOK'
<1>0. /\ ClientTypeOK /\ CameraTypeOK /\ phase # "dead" /\ MaxPictures \in Nat
  BY PicturesAssumption DEF SourcesInv, DsSteps, TypeOK
<1> USE DEF ClientTypeOK, CameraTypeOK, ExchangeTypeOK,
         clientVars, exchangeVars, eventVars, grabberVars, callbackVars,
         serverVars, setupVars, readVars, Enters, AfterRead
<1>1. CASE OpenStage \/ (\E how \in {"false", "throw"} : OpenFails(how))
           \/ RefuseFirmware
  BY <1>0, <1>1
  DEF OpenStage, Stages, OpenFails, RefuseFirmware
<1>2. CASE StartRead \/ GraphFails \/ ReadRefused
  BY <1>0, <1>2
  DEF StartRead, regionOnRead, mayRead, GraphFails, ReadRefused
<1>3. CASE waitForSample \/ ReadTimesOut
  BY <1>0, <1>3
  DEF waitForSample, ReadTimesOut, noSampleInTime
<1>4. CASE GetPointer
  BY <1>0, <1>4
  DEF GetPointer
<1>5. CASE GetPointerFails
  BY <1>0, <1>5
  DEF GetPointerFails
<1>6. CASE CopyRows
  BY <1>0, <1>6
  DEF CopyRows
<1>7. CASE ReleaseSample
  BY <1>0, <1>7
  DEF ReleaseSample, sampleForgotten
<1>8. CASE signalSampleConsumed
  BY <1>0, <1>8
  DEF signalSampleConsumed
<1>9. CASE DsStartGrab \/ DsRetrieveColor \/ DsDestroy \/ DsReleaseAll
  BY <1>0, <1>9
  DEF DsStartGrab, DsRetrieveColor, Retrieved, DsDestroy, shutdownSignalled, DsReleaseAll
<1>10. CASE UNCHANGED serverVars /\ (PictureDropped \/ SampleCB)
  BY <1>0, <1>10
  DEF PictureDropped, PictureTaken, SampleCB
<1>11. CASE UNCHANGED serverVars /\ (signalSampleProduced \/ OfferAsserts)
  BY <1>0, <1>11
  DEF signalSampleProduced, OfferAsserts, Aborts
<1>12. CASE UNCHANGED serverVars /\ (LeaveLoop \/ waitForSampleConsumed \/ WaitAsserts
                                 \/ WaitEnds \/ WaitTimesOut)
  BY <1>0, <1>12
  DEF LeaveLoop, waitForSampleConsumed, WaitAsserts, Aborts, WaitEnds, WaitTimesOut,
      afterTimeout
<1> QED BY <1>1, <1>2, <1>3, <1>4, <1>5, <1>6, <1>7, <1>8, <1>9, <1>10, <1>11, <1>12
      DEF DsSteps, DsNext, ReadStep, ExchangeNext, CallbackStep

LEMMA CameraTypeKept ==
  ASSUME SourcesInv, DsSteps
  PROVE  CameraTypeOK'
<1>0. /\ ClientTypeOK /\ CameraTypeOK /\ phase # "dead" /\ MaxPictures \in Nat
  BY PicturesAssumption DEF SourcesInv, DsSteps, TypeOK
<1> USE DEF CameraTypeOK,
         clientVars, exchangeVars, eventVars, grabberVars, callbackVars,
         serverVars, setupVars, readVars, Enters, AfterRead
<1>1. CASE OpenStage
  BY <1>0, ExchangeTypeKept, <1>1
  DEF OpenStage, Stages
<1>2. CASE (\E how \in {"false", "throw"} : OpenFails(how))
  BY <1>0, ExchangeTypeKept, <1>2
  DEF OpenFails
<1>3. CASE RefuseFirmware
  BY <1>0, ExchangeTypeKept, <1>3
  DEF RefuseFirmware
<1>4. CASE StartRead \/ GraphFails \/ ReadRefused
  BY <1>0, ExchangeTypeKept, <1>4
  DEF StartRead, regionOnRead, mayRead, GraphFails, ReadRefused
<1>5. CASE waitForSample
  BY <1>0, ExchangeTypeKept, <1>5
  DEF waitForSample, ExchangeTypeOK
<1>6. CASE ReadTimesOut
  BY <1>0, ExchangeTypeKept, <1>6
  DEF ReadTimesOut, noSampleInTime
<1>7. CASE GetPointer
  BY <1>0, ExchangeTypeKept, <1>7
  DEF GetPointer
<1>8. CASE GetPointerFails
  BY <1>0, ExchangeTypeKept, <1>8
  DEF GetPointerFails
<1>9. CASE CopyRows
  BY <1>0, ExchangeTypeKept, <1>9
  DEF CopyRows, ExchangeTypeOK
<1>10. CASE ReleaseSample \/ signalSampleConsumed
  BY <1>0, ExchangeTypeKept, <1>10
  DEF ReleaseSample, sampleForgotten, signalSampleConsumed
<1>11. CASE DsStartGrab \/ DsRetrieveColor \/ DsDestroy \/ DsReleaseAll
  BY <1>0, ExchangeTypeKept, <1>11
  DEF DsStartGrab, DsRetrieveColor, Retrieved, DsDestroy, shutdownSignalled, DsReleaseAll
<1>12. CASE UNCHANGED serverVars /\ (PictureDropped \/ SampleCB)
  BY <1>0, ExchangeTypeKept, <1>12
  DEF PictureDropped, PictureTaken, SampleCB
<1>13. CASE UNCHANGED serverVars /\ (signalSampleProduced \/ OfferAsserts)
  BY <1>0, ExchangeTypeKept, <1>13
  DEF signalSampleProduced, OfferAsserts, Aborts
<1>14. CASE UNCHANGED serverVars /\ (LeaveLoop \/ waitForSampleConsumed \/ WaitAsserts
                                 \/ WaitEnds \/ WaitTimesOut)
  BY <1>0, ExchangeTypeKept, <1>14
  DEF LeaveLoop, waitForSampleConsumed, WaitAsserts, Aborts, WaitEnds, WaitTimesOut,
      afterTimeout
<1> QED BY <1>1, <1>2, <1>3, <1>4, <1>5, <1>6, <1>7, <1>8, <1>9, <1>10, <1>11, <1>12,
      <1>13, <1>14
      DEF DsSteps, DsNext, ReadStep, ExchangeNext, CallbackStep

LEMMA DsKeepsInv ==
  ASSUME SourcesInv, DsSteps
  PROVE  SourcesInv'
<1>1. source = "directshow" /\ source' = source
  BY DEF DsSteps, DsNext, OpenStage, OpenFails, RefuseFirmware, ReadStep, StartRead,
    GraphFails, ReadRefused, waitForSample, ReadTimesOut, GetPointer, GetPointerFails,
    CopyRows, ReleaseSample, signalSampleConsumed, DsStartGrab, DsRetrieveColor, DsDestroy,
    DsReleaseAll, ExchangeNext, PictureDropped, SampleCB, CallbackStep, signalSampleProduced,
    OfferAsserts, LeaveLoop, waitForSampleConsumed, WaitAsserts, WaitEnds, WaitTimesOut,
    Aborts, AfterRead, Enters, Retrieved, PictureTaken, clientVars
<1>2. UNCHANGED <<streaming, frames_, m_timestamp, grabbed, grabbedAt>>
  BY DEF DsSteps, uvcVars, openCvVars
<1>3. TypeOK'
  BY <1>2, ClientTypeKept, CameraTypeKept DEF SourcesInv, TypeOK, UvcTypeOK
<1>4. QueueIsLatest'
  BY <1>1, <1>2 DEF SourcesInv, QueueIsLatest
<1> QED BY <1>1, <1>2, <1>3, <1>4, RendezvousKept, CameraLifeKept, InOrderKept
      DEF SourcesInv

-----------------------------------------------------------------------------
LEMMA InvNext == SourcesInv /\ [Next]_vars => SourcesInv'
<1>1. ASSUME SourcesInv, UNCHANGED vars PROVE SourcesInv'
  BY <1>1 DEF SourcesInv, vars, clientVars, uvcVars, exchangeVars, eventVars, grabberVars,
    callbackVars, serverVars, openCvVars, TypeOK, ClientTypeOK, UvcTypeOK, CameraTypeOK,
    ExchangeTypeOK, Rendezvous, Offering, Holding, QueueIsLatest, CameraLife, InOrderDs,
    InOrderUvc, InOrderCv
<1> QED BY <1>1, UvcKeepsInv, DsKeepsInv, CvKeepsInv DEF Next

LEMMA Invariance == Spec => []SourcesInv
BY InvInit, InvNext, PTL DEF Spec

\* All variables of client and cameras keep their types.
THEOREM TypeCorrect == Spec => []TypeOK
<1>1. SourcesInv => TypeOK
  BY DEF SourcesInv
<1> QED BY <1>1, Invariance, PTL

\* For any number of pictures: the reader touches a sample only while the callback
\* that was given it has not returned.
THEOREM ReadWhileHeld == Spec => []SampleHeld
<1>1. SourcesInv => SampleHeld
  BY DEF SourcesInv, SampleHeld, Rendezvous, Offering, Holding
<1> QED BY <1>1, Invariance, PTL

\* No sample is offered before the one before it was consumed, and none offered is
\* lost, in whichever order the waits of the two threads time out.
THEOREM ConsumedFirst == Spec => []ConsumedBeforeNext
<1>1. SourcesInv => ConsumedBeforeNext
  BY DEF SourcesInv, ConsumedBeforeNext, Rendezvous, Offering, Holding, TypeOK,
    CameraTypeOK, ExchangeTypeOK
<1> QED BY <1>1, Invariance, PTL

\* For any length of the queue of UVCImageSource: it has the latest pictures.
THEOREM QueueWithoutGap == Spec => []QueueIsLatest
<1>1. SourcesInv => QueueIsLatest
  BY DEF SourcesInv
<1> QED BY <1>1, Invariance, PTL

-----------------------------------------------------------------------------
(* The cameras implement ImageSource. *)

LEMMA UvcImplements ==
  ASSUME SourcesInv, UvcSteps
  PROVE  [Contract!Next]_(Contract!imageSourceVars)
<1> USE DEF Contract!Next, Contract!imageSourceVars, Contract!Open, Contract!Grab,
        Contract!Close, Contract!Throw, Contract!Step, Contract!Retrieve
<1>1. UvcState /\ source = "uvc" /\ phase # "dead"
  BY UvcStateHolds DEF UvcSteps
<1>2. CASE retrieveColor
  BY <1>1, <1>2, RetrieveKeeps DEF retrieveColor, Retrieved, UvcState, ClientTypeOK
<1>3. CASE CallbackThrows
  BY <1>1, <1>3 DEF CallbackThrows, Enters, UvcState, InOrderUvc
<1>4. CASE openUVCCamera \/ callback \/ UvcStartGrab \/ grab \/ retrieveColorThrows
           \/ UvcDestroy
  BY <1>1, <1>4 DEF openUVCCamera, callback, UvcStartGrab, grab, retrieveColorThrows,
    UvcDestroy, Enters, PictureTaken
<1> QED BY <1>2, <1>3, <1>4 DEF UvcSteps, UvcNext

LEMMA CvImplements ==
  ASSUME SourcesInv, CvSteps
  PROVE  [Contract!Next]_(Contract!imageSourceVars)
BY PicturesAssumption DEF SourcesInv, TypeOK, ClientTypeOK, CvSteps, CvNext, InOrderCv,
  openOpenCVCamera, CvPictureTaken, CvStartGrab, CvGrab, CvRetrieve, CvDestroy, Enters,
  Retrieved, PictureTaken, Contract!Next, Contract!imageSourceVars, Contract!Open,
  Contract!Grab, Contract!Close, Contract!Throw, Contract!Step, Contract!Retrieve

LEMMA DsImplements ==
  ASSUME SourcesInv, DsSteps
  PROVE  [Contract!Next]_(Contract!imageSourceVars)
<1>0. /\ CameraLife /\ InOrderDs /\ phase # "dead"
      /\ image \in Nat /\ buffer \in Nat /\ stamp \in Nat /\ ts_ \in Nat
  BY DEF SourcesInv, DsSteps, TypeOK, ClientTypeOK, CameraTypeOK
<1> USE DEF Contract!Next, Contract!imageSourceVars, Contract!Open, Contract!Grab,
        Contract!Close, Contract!Throw, Contract!Step, Contract!Retrieve, Enters, clientVars
<1>1. CASE OpenStage \/ (\E how \in {"false", "throw"} : OpenFails(how)) \/ RefuseFirmware
  BY <1>1 DEF OpenStage, OpenFails, RefuseFirmware
<1>2. CASE StartRead \/ waitForSample \/ GetPointer \/ GetPointerFails \/ CopyRows
           \/ ReleaseSample
  BY <1>2 DEF StartRead, waitForSample, GetPointer, GetPointerFails, CopyRows, ReleaseSample
<1>3. CASE GraphFails \/ ReadRefused
  BY <1>3 DEF GraphFails, ReadRefused, mayRead, AfterRead
<1>4. CASE ReadTimesOut \/ signalSampleConsumed
  BY <1>0, <1>4 DEF ReadTimesOut, signalSampleConsumed, AfterRead, CameraLife
<1>5. CASE DsRetrieveColor
  BY <1>0, <1>5 DEF DsRetrieveColor, Retrieved, InOrderDs
<1>6. CASE DsStartGrab \/ DsDestroy \/ DsReleaseAll
  BY <1>6 DEF DsStartGrab, DsDestroy, DsReleaseAll
<1>7. CASE OfferAsserts \/ WaitAsserts
  BY <1>0, <1>7 DEF OfferAsserts, WaitAsserts, Aborts, CameraLife
<1>8. CASE PictureDropped \/ SampleCB \/ signalSampleProduced \/ LeaveLoop
           \/ waitForSampleConsumed \/ WaitEnds \/ WaitTimesOut
  BY <1>8 DEF PictureDropped, SampleCB, signalSampleProduced, LeaveLoop,
    waitForSampleConsumed, WaitEnds, WaitTimesOut, PictureTaken
<1> QED BY <1>1, <1>2, <1>3, <1>4, <1>5, <1>6, <1>7, <1>8
      DEF DsSteps, DsNext, ReadStep, ExchangeNext, CallbackStep

\* Each of the three cameras, whatever fails in it, is an ImageSource: calls in
\* turn, pictures and timestamps in order.
THEOREM ContractIsKept == Spec => KeepsContract
<1>1. Init => Contract!Init
  BY DEF Init, ClientInit, Contract!Init
<1>2. SourcesInv /\ [Next]_vars => [Contract!Next]_(Contract!imageSourceVars)
  BY UvcImplements, DsImplements, CvImplements
  DEF Next, vars, clientVars, Contract!imageSourceVars
<1> QED BY <1>1, <1>2, Invariance, PTL DEF Spec, KeepsContract, Contract!Spec
=============================================================================
