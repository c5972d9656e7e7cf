-------------------------- MODULE MediaSampleExchange --------------------------
(***************************************************************************)
(* How DirectShow's streaming thread lends a sample to the client: the     *)
(* sample grabber's callback (directx_samplegrabber_callback.cpp) offers   *)
(* it through the exchange (MediaSampleExchange.h, .cpp) and does not      *)
(* return, so that the sample is not given back to the driver, until the   *)
(* client has consumed it or the callback is shut down.  The two events    *)
(* are reset by the wait that they end (SignalEvent.h).                    *)
(***************************************************************************)
EXTENDS ImageClient

VARIABLES
  asserts,             \* the build has assertions (NDEBUG is not defined)
  produced, consumed,  \* the two events
  sample_,             \* the sample offered, 0: nullptr
  timestamp_,          \* when it was offered
  running,             \* the filter graph streams
  callbackSet,         \* the grabber has the callback to call
  stayAlive,           \* _stayAlive
  cbpc,                \* where the streaming thread is
  cbSample             \* the sample it was called with

eventVars    == <<produced, consumed>>
callbackVars == <<cbpc, cbSample>>
grabberVars  == <<asserts, running, callbackSet, stayAlive>>
exchangeVars == <<eventVars, sample_, timestamp_, grabberVars, callbackVars>>

ExchangeTypeOK ==
  /\ asserts \in BOOLEAN
  /\ produced \in BOOLEAN /\ consumed \in BOOLEAN
  /\ sample_ \in 0..MaxPictures /\ timestamp_ \in 0..MaxPictures
  /\ running \in BOOLEAN /\ callbackSet \in BOOLEAN /\ stayAlive \in BOOLEAN
  /\ cbpc \in {"outside", "entered", "loop", "waiting"}
  /\ cbSample \in 0..MaxPictures

ExchangeInit ==
  /\ asserts \in BOOLEAN
  /\ produced = FALSE /\ consumed = FALSE
  /\ sample_ = 0 /\ timestamp_ = 0
  /\ running = FALSE /\ callbackSet = FALSE /\ stayAlive = TRUE
  /\ cbpc = "outside" /\ cbSample = 0

\* VIDEOTRACKER_ASSERT: ends the process where it is compiled in.
Fails(assertion) == asserts /\ ~assertion
Aborts == Enters("dead") /\ UNCHANGED exchangeVars

-----------------------------------------------------------------------------
(* The streaming thread. *)

\* A picture that finds the thread in the callback is lost.
PictureDropped ==
  /\ running /\ cbpc # "outside"
  /\ PictureTaken
  /\ UNCHANGED exchangeVars

SampleCB ==
  /\ running /\ callbackSet /\ cbpc = "outside"
  /\ PictureTaken
  /\ cbSample' = now'
  /\ cbpc' = "entered"
  /\ UNCHANGED <<eventVars, sample_, timestamp_, grabberVars>>

\* The assertions of SampleCB and of signalSampleProduced.
mayOffer == stayAlive /\ sample_ = 0

signalSampleProduced ==
  /\ cbpc = "entered" /\ ~Fails(mayOffer)
  /\ sample_' = cbSample
  /\ timestamp_' = now
  /\ produced' = TRUE
  /\ cbpc' = "loop"
  /\ UNCHANGED <<clientVars, consumed, grabberVars, cbSample>>

OfferAsserts == cbpc = "entered" /\ Fails(mayOffer) /\ Aborts

\* The loop's condition: shut down, or wait for the consumer (again).
LeaveLoop ==
  /\ cbpc = "loop" /\ ~stayAlive
  /\ cbpc' = "outside"
  /\ UNCHANGED <<clientVars, eventVars, sample_, timestamp_, grabberVars, cbSample>>

waitForSampleConsumed ==
  /\ cbpc = "loop" /\ stayAlive /\ ~Fails(sample_ # 0)
  /\ cbpc' = "waiting"
  /\ UNCHANGED <<clientVars, eventVars, sample_, timestamp_, grabberVars, cbSample>>

WaitAsserts == cbpc = "loop" /\ stayAlive /\ Fails(sample_ # 0) /\ Aborts

WaitEnds ==
  /\ cbpc = "waiting" /\ consumed
  /\ consumed' = FALSE
  /\ cbpc' = "outside"
  /\ UNCHANGED <<clientVars, produced, sample_, timestamp_, grabberVars, cbSample>>

afterTimeoutGivesUp == "outside"   \* mutant
afterTimeout == "loop"

WaitTimesOut ==
  /\ cbpc = "waiting" /\ ~consumed
  /\ cbpc' = afterTimeout
  /\ UNCHANGED <<clientVars, eventVars, sample_, timestamp_, grabberVars, cbSample>>

CallbackStep ==
  \/ signalSampleProduced \/ OfferAsserts
  \/ LeaveLoop \/ waitForSampleConsumed \/ WaitAsserts \/ WaitEnds \/ WaitTimesOut

ExchangeNext == PictureDropped \/ SampleCB \/ CallbackStep
=============================================================================
