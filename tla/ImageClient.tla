----------------------------- MODULE ImageClient -----------------------------
(***************************************************************************)
(* Whoever uses an ImageSource: it opens one (ImageSourceFactories.h),     *)
(* grabs and retrieves in turn as TrackerThread::doFrame and               *)
(* ImageProcessingThread::doFrame do, and destroys it when both have       *)
(* ended.  The camera takes a picture now and then; the pictures are       *)
(* numbered and their count is the clock.                                  *)
(***************************************************************************)
EXTENDS Naturals

CONSTANT MaxPictures   \* bound of the model: pictures the camera takes

ASSUME PicturesAssumption == MaxPictures \in Nat

VARIABLES
  source, \* which factory was called
  phase,  \* where the client is in the life of its source
  now,    \* the clock: the number of the latest picture taken
  image,  \* the picture last retrieved, 0: none
  stamp   \* its timestamp

clientVars == <<source, phase, now, image, stamp>>

Sources == {"uvc", "directshow", "opencv"}
\* "refused": the factory gave no source; "dead": an exception nobody catches.
Phases == {"opening", "refused", "idle", "grabbing", "grabbed", "closing", "closed", "dead"}

ClientTypeOK ==
  /\ source \in Sources
  /\ phase \in Phases
  /\ now \in 0..MaxPictures
  /\ image \in 0..MaxPictures
  /\ stamp \in 0..MaxPictures

ClientInit ==
  /\ source \in Sources
  /\ phase = "opening"
  /\ now = 0 /\ image = 0 /\ stamp = 0

Enters(p) == phase' = p /\ UNCHANGED <<source, now, image, stamp>>

Retrieved(picture, time) ==
  /\ image' = picture /\ stamp' = time
  /\ phase' = "idle"
  /\ UNCHANGED <<source, now>>

\* The camera takes a picture; what becomes of it is the source's affair.
PictureTaken ==
  /\ now < MaxPictures
  /\ now' = now + 1
  /\ UNCHANGED <<source, phase, image, stamp>>
=============================================================================
