------------------------------ MODULE ImageSources ------------------------------
(***************************************************************************)
(* A client with one of the cameras of ImageSourceFactories.h: the        *)
(* headset's through libuvc (UvcImageSource) or DirectShow                 *)
(* (DirectShowCamera), or one of OpenCV's (CVImageSource.cpp, below).      *)
(***************************************************************************)
EXTENDS UvcImageSource, DirectShowCamera

VARIABLES
  grabbed,     \* the picture cv::VideoCapture holds
  grabbedAt    \* OpenCVImageSource::m_timestamp

openCvVars == <<grabbed, grabbedAt>>
vars == <<clientVars, uvcVars, exchangeVars, serverVars, openCvVars>>

TypeOK ==
  /\ ClientTypeOK /\ UvcTypeOK /\ CameraTypeOK
  /\ grabbed \in 0..MaxPictures /\ grabbedAt \in 0..MaxPictures

Init ==
  /\ ClientInit /\ UvcInit /\ CameraInit
  /\ grabbed = 0 /\ grabbedAt = 0

-----------------------------------------------------------------------------
openOpenCVCamera ==
  /\ phase = "opening"
  /\ Enters("idle") \/ Enters("refused")
  /\ UNCHANGED openCvVars

CvPictureTaken ==
  /\ phase \notin {"opening", "refused", "closed"}
  /\ PictureTaken
  /\ UNCHANGED openCvVars

CvStartGrab == phase = "idle" /\ Enters("grabbing") /\ UNCHANGED openCvVars

\* VideoCapture::grab takes a picture it has not given before, or fails; it may
\* have kept some.
CvGrab ==
  /\ phase = "grabbing"
  /\ \/ /\ grabbed' \in (grabbed + 1)..now
        /\ grabbedAt' = now
        /\ Enters("grabbed")
     \/ Enters("idle") /\ UNCHANGED openCvVars

\* What VideoCapture::retrieve returns is not looked at: without a picture it
\* is cvtColor, in ImageSource::retrieve, that throws.
CvRetrieve ==
  /\ phase = "grabbed"
  /\ Retrieved(grabbed, grabbedAt) \/ Enters("dead")
  /\ UNCHANGED openCvVars

CvDestroy == phase = "idle" /\ Enters("closed") /\ UNCHANGED openCvVars

CvNext ==
  \/ openOpenCVCamera \/ CvPictureTaken \/ CvStartGrab \/ CvGrab \/ CvRetrieve \/ CvDestroy

-----------------------------------------------------------------------------
UvcSteps ==
  /\ source = "uvc" /\ phase # "dead"
  /\ UvcNext /\ UNCHANGED <<exchangeVars, serverVars, openCvVars>>
DsSteps ==
  /\ source = "directshow" /\ phase # "dead"
  /\ DsNext /\ UNCHANGED <<uvcVars, openCvVars>>
CvSteps ==
  /\ source = "opencv" /\ phase # "dead"
  /\ CvNext /\ UNCHANGED <<uvcVars, exchangeVars, serverVars>>

Next == UvcSteps \/ DsSteps \/ CvSteps

Spec == Init /\ [][Next]_vars

\* The streaming thread runs on, and so does the thread that grabs: both wait
\* with a timeout.
Fairness ==
  /\ WF_vars(DsSteps /\ CallbackStep)
  /\ WF_vars(DsSteps /\ ReadStep)

FairSpec == Spec /\ Fairness
-----------------------------------------------------------------------------
(***************************************************************************)
(* Safety                                                                  *)
(***************************************************************************)

\* A sample is read only while the callback that was given it has not
\* returned, that is while the driver cannot use its memory again
\* (directx_samplegrabber_callback.cpp:71-77), whatever times out.
SampleHeld ==
  spc \in {"get", "copy", "release"} =>
    /\ cbpc \in {"loop", "waiting"}
    /\ lent # 0 /\ lent = cbSample

\* "Sample should be consumed before the next one produced!"
\* (MediaSampleExchange.cpp:51-53); and a sample that was offered stays so, or
\* the event that ends the callback's wait is on its way.
ConsumedBeforeNext ==
  /\ cbpc \in {"outside", "entered"} /\ stayAlive => sample_ = 0 /\ ~produced /\ ~consumed
  /\ cbpc \in {"loop", "waiting"} /\ sample_ = 0 => consumed \/ spc = "signal"

\* The queue of UVCImageSource holds the latest pictures, without a gap: what
\* is lost when it overflows is older than all that is left.
QueueIsLatest ==
  \A i \in DOMAIN frames_ : frames_[i] = now - Len(frames_) + i

(***************************************************************************)
(* What a client relies on                                                 *)
(***************************************************************************)
Contract == INSTANCE ImageSource

\* Each camera keeps the promises of ImageSource.h: the pictures retrieved are
\* each later than the one before, through queue, event and buffer.
KeepsContract == Contract!Spec

(***************************************************************************)
(* Liveness                                                                *)
(***************************************************************************)

\* The destructor waits a fixed time for the callback: it is true at least that
\* the callback, told to shut down, returns, wherever it was.
CallbackReturns == (phase = "closing") ~> (cbpc = "outside" \/ phase = "dead")

-----------------------------------------------------------------------------
(***************************************************************************)
(* The inductive invariant behind safety and contract.                     *)
(***************************************************************************)

\* Where a sample is while streaming thread and reader meet: nowhere; offered, with
\* the event set; lent, the event taken; or consumed, the other event set or
\* about to be.
Offering == cbpc \in {"loop", "waiting"}
Holding  == spc \in {"get", "copy", "release"}

Rendezvous ==
  /\ ~Offering /\ stayAlive => sample_ = 0 /\ ~produced /\ ~consumed
  /\ cbpc # "outside" => cbSample # 0
  /\ Offering /\ ~consumed /\ spc \in {"none", "wait"} => sample_ # 0
  /\ Offering /\ ~consumed /\ spc \in {"none", "wait"} /\ stayAlive => produced
  /\ stayAlive /\ produced => sample_ = cbSample /\ ~consumed
  /\ stayAlive /\ consumed => sample_ = 0
  /\ Holding \/ spc = "signal" => Offering /\ ~produced /\ ~consumed /\ lent = cbSample
  /\ Holding => sample_ = cbSample
  /\ spc = "signal" => sample_ = 0
  /\ spc # "none" => stayAlive

\* The life of a DirectShow source: a read is the constructor's or a grab's, and
\* what was never opened never streams.
CameraLife ==
  /\ spc # "none" => phase \in {"opening", "grabbing", "dead"}
  /\ ~stayAlive => phase \in {"refused", "closing", "closed", "dead"}
  /\ phase = "refused" => ~running /\ cbpc = "outside"
  /\ running \/ cbpc # "outside" \/ spc # "none" \/ phase \in {"idle", "grabbing", "grabbed"}
       => stage = 5 /\ checkCameraFirmwareRevision(rev) # "UpgradeRequired"

\* A picture on its way is later than the one retrieved, wherever it is.
InOrderDs ==
  /\ image <= buffer /\ buffer <= now /\ cbSample <= now
  /\ stamp <= ts_ /\ ts_ <= timestamp_ /\ timestamp_ <= now
  /\ cbpc = "entered" => buffer < cbSample
  /\ stayAlive /\ produced => buffer < cbSample
  /\ spc \in {"wait", "get", "copy"} => ~ok
  /\ spc \in {"get", "copy"} => buffer < lent
  /\ spc \in {"release", "signal"} /\ ok => image < buffer
  /\ phase = "grabbed" => image < buffer

InOrderUvc ==
  /\ image <= now - Len(frames_)
  /\ stamp <= m_timestamp /\ m_timestamp <= now
  /\ streaming => phase \notin {"opening", "refused"}

InOrderCv ==
  /\ image <= grabbed /\ grabbed <= now
  /\ stamp <= grabbedAt /\ grabbedAt <= now
  /\ phase = "grabbed" => image < grabbed

SourcesInv ==
  /\ TypeOK
  /\ Rendezvous
  /\ QueueIsLatest
  /\ source = "directshow" => CameraLife /\ InOrderDs
  /\ source = "uvc" => InOrderUvc
  /\ source = "opencv" => InOrderCv
  /\ source # "directshow" => spc = "none" /\ cbpc = "outside"
  /\ source # "uvc" => frames_ = <<>>
=============================================================================
