---------------------------- MODULE DirectShowCamera ----------------------------
(***************************************************************************)
(* The headset's camera through DirectShow: directx_camera_server.cpp as   *)
(* DirectShowImageSource.cpp uses it, always with the whole picture and in *)
(* mode 0.  A picture is copied in grab, by the thread that grabs, while   *)
(* the exchange lends the sample; retrieve reads the copy.                 *)
(***************************************************************************)
EXTENDS MediaSampleExchange

CONSTANT Revisions   \* firmware revisions met; 0 where it cannot be found out

ASSUME RevisionsAssumption == Revisions \subseteq Nat

VARIABLES
  stage,      \* the next stage of opening the camera
  rev,        \* the revision of its firmware
  working,    \* _status
  started,    \* _started_graph
  region,     \* _minX to _maxY: "empty" or "whole"
  m_gotRes,   \* the resolution is known
  m_res,      \* and is that of this region
  spc,        \* where read_one_frame is
  lent,       \* the sample its wrapper refers to
  ok,         \* what it is going to return
  buffer,     \* the picture in _buffer, 0: none yet
  ts_         \* the time stored with it

serverVars == <<stage, rev, working, started, region, m_gotRes, m_res, spc, lent, ok,
                buffer, ts_>>
readVars   == <<spc, lent, ok, buffer, ts_>>
setupVars  == <<stage, rev, working, m_gotRes, m_res>>

\* The stages of the constructor, and how each may fail: by false, which
\* leaves a camera that does not work, or by an exception.
Stages == <<"graph", "moniker", "grabber", "format">>
FailuresOf == [graph |-> {"throw"}, moniker |-> {"false"}, grabber |-> {"throw"},
               format |-> {"throw", "false"}]

CameraTypeOK ==
  /\ ExchangeTypeOK
  /\ stage \in 1..5 /\ rev \in Revisions
  /\ working \in BOOLEAN /\ started \in BOOLEAN /\ m_gotRes \in BOOLEAN
  /\ region \in {"empty", "whole"} /\ m_res \in {"empty", "whole"}
  /\ spc \in {"none", "wait", "get", "copy", "release", "signal"}
  /\ lent \in 0..MaxPictures /\ ok \in BOOLEAN
  /\ buffer \in 0..MaxPictures /\ ts_ \in 0..MaxPictures

CameraInit ==
  /\ ExchangeInit
  /\ stage = 1 /\ rev \in Revisions
  /\ working = FALSE /\ started = FALSE
  /\ region = "empty" /\ m_gotRes = FALSE /\ m_res = "empty"
  /\ spc = "none" /\ lent = 0 /\ ok = FALSE
  /\ buffer = 0 /\ ts_ = 0

-----------------------------------------------------------------------------
(* Opening: openHDKCameraDirectShow, getDirectShowHDKCamera, the           *)
(* constructor of the server, and that of the image source.                *)

\* open_and_find_parameters, open_moniker_and_finish_setup: one more stage.
\* The grabber's wrapper gives the grabber its callback.
OpenStage ==
  /\ phase = "opening" /\ spc = "none" /\ stage \in 1..4
  /\ stage' = stage + 1
  /\ callbackSet' = (Stages[stage] = "grabber" \/ callbackSet)
  /\ working' = (stage' = 5)
  /\ UNCHANGED <<clientVars, eventVars, asserts, sample_, timestamp_, running, stayAlive,
                 callbackVars, rev, started, region, m_gotRes, m_res, readVars>>

\* What was built is destroyed; nothing streams yet, the callback is idle.
OpenFails(how) ==
  /\ phase = "opening" /\ spc = "none" /\ stage \in 1..4
  /\ how \in FailuresOf[Stages[stage]]
  /\ Enters(IF how = "false" THEN "refused" ELSE "dead")
  /\ callbackSet' = FALSE /\ stayAlive' = FALSE
  /\ UNCHANGED <<eventVars, asserts, sample_, timestamp_, running, callbackVars, serverVars>>

\* CheckFirmwareVersion.h: below 6 the camera is not in time with the LEDs.
CAMERA_FIRMWARE_UPGRADE_REQUIRED == 6
CURRENT_CAMERA_FIRMWARE_VERSION == 7
checkCameraFirmwareRevision(r) ==
  IF r = 0 THEN "Unknown"
  ELSE IF r < CAMERA_FIRMWARE_UPGRADE_REQUIRED THEN "UpgradeRequired"
  ELSE IF r < CURRENT_CAMERA_FIRMWARE_VERSION THEN "UpgradeUseful"
  ELSE IF r > CURRENT_CAMERA_FIRMWARE_VERSION THEN "Future"
  ELSE "Good"

RefuseFirmware ==
  /\ phase = "opening" /\ spc = "none" /\ stage = 5
  /\ checkCameraFirmwareRevision(rev) = "UpgradeRequired"
  /\ Enters("refused")
  /\ callbackSet' = FALSE /\ stayAlive' = FALSE
  /\ UNCHANGED <<eventVars, asserts, sample_, timestamp_, running, callbackVars, serverVars>>

-----------------------------------------------------------------------------
(* read_image_to_memory and read_one_frame, called by the constructor of   *)
(* the image source (phase "opening") and by grab (phase "grabbing").      *)

mayRead ==
  \/ phase = "grabbing"
  \/ phase = "opening" /\ stage = 5 /\ ~m_gotRes
     /\ checkCameraFirmwareRevision(rev) # "UpgradeRequired"

regionOnRead == "whole"

\* The graph is started by the first read; if that fails the camera is lost.
StartRead ==
  /\ spc = "none" /\ mayRead /\ working
  /\ region' = regionOnRead
  /\ ok' = FALSE
  /\ spc' = "wait"
  /\ started' = TRUE /\ running' = TRUE
  /\ UNCHANGED <<clientVars, eventVars, asserts, sample_, timestamp_, callbackSet, stayAlive,
                 callbackVars, setupVars, lent, buffer, ts_>>

\* What the caller makes of a read: the constructor takes the resolution if
\* the graph runs, whether there was a picture or not; if it does not, there is
\* an image source all the same, which is not ok().
AfterRead(result) ==
  IF phase = "opening"
    THEN /\ m_gotRes' = started /\ m_res' = IF started THEN region ELSE m_res
         /\ Enters("idle")
         /\ UNCHANGED <<stage, rev>>
    ELSE /\ Enters(IF result THEN "grabbed" ELSE "idle")
         /\ UNCHANGED <<stage, rev, m_gotRes, m_res>>

GraphFails ==
  /\ spc = "none" /\ mayRead /\ working /\ ~started
  /\ region' = regionOnRead
  /\ working' = FALSE
  /\ AfterRead(FALSE)
  /\ UNCHANGED <<exchangeVars, started, readVars>>

ReadRefused ==
  /\ spc = "none" /\ phase = "grabbing" /\ ~working
  /\ AfterRead(FALSE)
  /\ UNCHANGED <<exchangeVars, working, started, region, readVars>>

waitForSample ==
  /\ spc = "wait" /\ produced
  /\ produced' = FALSE
  /\ lent' = sample_
  /\ spc' = "get"
  /\ UNCHANGED <<clientVars, consumed, sample_, timestamp_, grabberVars, callbackVars,
                 setupVars, started, region, ok, buffer, ts_>>

noSampleInTime == ~produced

ReadTimesOut ==
  /\ spc = "wait" /\ noSampleInTime
  /\ spc' = "none"
  /\ AfterRead(FALSE)
  /\ UNCHANGED <<exchangeVars, working, started, region, lent, ok, buffer, ts_>>

GetPointer ==
  /\ spc = "get"
  /\ spc' = "copy"
  /\ UNCHANGED <<clientVars, exchangeVars, setupVars, started, region, lent, ok, buffer, ts_>>

GetPointerFails ==
  /\ spc = "get"
  /\ working' = FALSE
  /\ spc' = "release"
  /\ UNCHANGED <<clientVars, exchangeVars, stage, rev, m_gotRes, m_res, started, region,
                 lent, ok, buffer, ts_>>

CopyRows ==
  /\ spc = "copy"
  /\ buffer' = lent
  /\ ts_' = timestamp_
  /\ ok' = TRUE
  /\ spc' = "release"
  /\ UNCHANGED <<clientVars, exchangeVars, setupVars, started, region, lent>>

\* ~Sample: signalSampleConsumed forgets the sample, then sets the event.
sampleForgottenLate == sample_   \* mutant
sampleForgotten == 0

ReleaseSample ==
  /\ spc = "release"
  /\ sample_' = sampleForgotten
  /\ spc' = "signal"
  /\ UNCHANGED <<clientVars, eventVars, timestamp_, grabberVars, callbackVars, setupVars,
                 started, region, lent, ok, buffer, ts_>>

signalSampleConsumed ==
  /\ spc = "signal"
  /\ consumed' = TRUE
  /\ spc' = "none" /\ lent' = 0
  /\ AfterRead(ok)
  /\ UNCHANGED <<produced, sample_, timestamp_, grabberVars, callbackVars,
                 working, started, region, ok, buffer, ts_>>

ReadStep ==
  \/ StartRead \/ GraphFails \/ ReadRefused
  \/ waitForSample \/ ReadTimesOut \/ GetPointer \/ GetPointerFails \/ CopyRows
  \/ ReleaseSample \/ signalSampleConsumed

-----------------------------------------------------------------------------
\* A client may grab without asking whether the camera is ok().
DsStartGrab ==
  /\ phase = "idle"
  /\ Enters("grabbing")
  /\ UNCHANGED <<exchangeVars, serverVars>>

DsRetrieveColor ==
  /\ phase = "grabbed"
  /\ Retrieved(buffer, ts_)
  /\ UNCHANGED <<exchangeVars, serverVars>>

\* ~directx_camera_server: the callback is taken from the grabber and told to
\* return; after a sleep, that it should take less than, all is released.
shutdownForgotten == stayAlive   \* mutant
shutdownSignalled == FALSE

DsDestroy ==
  /\ phase = "idle"
  /\ callbackSet' = FALSE
  /\ stayAlive' = shutdownSignalled
  /\ Enters("closing")
  /\ UNCHANGED <<eventVars, asserts, sample_, timestamp_, running, callbackVars, serverVars>>

DsReleaseAll ==
  /\ phase = "closing"
  /\ running' = FALSE
  /\ Enters("closed")
  /\ UNCHANGED <<eventVars, asserts, sample_, timestamp_, callbackSet, stayAlive, callbackVars, serverVars>>

DsNext ==
  \/ OpenStage \/ \E how \in {"false", "throw"} : OpenFails(how)
  \/ RefuseFirmware \/ ReadStep
  \/ DsStartGrab \/ DsRetrieveColor \/ DsDestroy \/ DsReleaseAll
  \/ ExchangeNext /\ UNCHANGED serverVars
=============================================================================
