---------------------------- MODULE UvcImageSource ----------------------------
(***************************************************************************)
(* UVCImageSource.cpp: libuvc calls back on a thread of its own for every  *)
(* picture; grab waits until one is queued, retrieveColor takes the oldest.*)
(* What is done under mutex_ is one step.                                  *)
(***************************************************************************)
EXTENDS ImageClient, Sequences

CONSTANT MaxQueued   \* pictures kept before the queue is cleared, 100 in the code

ASSUME QueuedAssumption == MaxQueued \in Nat \ {0}

VARIABLES
  streaming,    \* libuvc delivers pictures: from uvc_start_streaming on
  frames_,      \* the queue of frames
  m_timestamp   \* the time of the last grab

uvcVars == <<streaming, frames_, m_timestamp>>

UvcTypeOK ==
  /\ streaming \in BOOLEAN
  /\ frames_ \in Seq(1..MaxPictures) /\ Len(frames_) <= MaxQueued
  /\ m_timestamp \in 0..MaxPictures

UvcInit == streaming = FALSE /\ frames_ = <<>> /\ m_timestamp = 0

\* The constructor throws at the first call of libuvc that fails, but for the
\* choice of a format, which is only reported; openUVCCamera catches.
openUVCCamera ==
  /\ phase = "opening"
  /\ \/ streaming' = TRUE /\ Enters("idle")
     \/ UNCHANGED streaming /\ Enters("refused")
  /\ UNCHANGED <<frames_, m_timestamp>>

(***************************************************************************)
(* callback: the frame is converted without the lock, then queued; when    *)
(* there are too many, all are thrown away, the new one too.               *)
(***************************************************************************)
queuedInFront(frame) ==   \* mutant
  IF Len(frames_) + 1 > MaxQueued THEN <<>> ELSE <<frame>> \o frames_
queuedUnlessFull(frame) ==   \* mutant
  IF Len(frames_) + 1 > MaxQueued THEN frames_ ELSE Append(frames_, frame)
queued(frame) == IF Len(frames_) + 1 > MaxQueued THEN <<>> ELSE Append(frames_, frame)

callback ==
  /\ streaming
  /\ PictureTaken
  /\ frames_' = queued(now')
  /\ UNCHANGED <<streaming, m_timestamp>>

\* No memory or no conversion: thrown into libuvc's thread.
CallbackThrows ==
  /\ streaming /\ now < MaxPictures
  /\ Enters("dead")
  /\ UNCHANGED uvcVars

UvcStartGrab == phase = "idle" /\ Enters("grabbing") /\ UNCHANGED uvcVars

\* grab: frames_available_.wait with a predicate on the queue.
grab ==
  /\ phase = "grabbing" /\ frames_ # <<>>
  /\ m_timestamp' = now
  /\ Enters("grabbed")
  /\ UNCHANGED <<streaming, frames_>>

retrieveColor ==
  /\ phase = "grabbed" /\ frames_ # <<>>
  /\ Retrieved(Head(frames_), m_timestamp)
  /\ frames_' = Tail(frames_)
  /\ UNCHANGED <<streaming, m_timestamp>>

retrieveColorThrows ==
  /\ phase = "grabbed" /\ frames_ = <<>>
  /\ Enters("dead")
  /\ UNCHANGED uvcVars

\* The destructor: uvc_stop_streaming returns when the callback has.
UvcDestroy ==
  /\ phase = "idle"
  /\ streaming' = FALSE
  /\ Enters("closed")
  /\ UNCHANGED <<frames_, m_timestamp>>

UvcNext ==
  \/ openUVCCamera \/ callback \/ CallbackThrows
  \/ UvcStartGrab \/ grab \/ retrieveColor \/ retrieveColorThrows
  \/ UvcDestroy
=============================================================================
