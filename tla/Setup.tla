---------------------------------- MODULE Setup ----------------------------------
(***************************************************************************)
(* A tracking system being set up, before its threads run: either the HDK, *)
(* as the plugin configures it, or a target with data of its own, as the   *)
(* interface of TrackedBody allows.                                        *)
(***************************************************************************)
EXTENDS HDKSetup

CONSTANTS
  OwnData,   \* target data that does not come from makeHDKTrackingSystem
  Roots      \* configurations of the plugin

VARIABLES
  root,            \* the configuration, or Own
  hasIMU,          \* the body got an IMU, which calibrates the camera pose,
  haveCameraPose   \* or the camera pose was taken from the configuration

Own == [own |-> TRUE]

vars == <<setupVars, root, hasIMU, haveCameraPose>>

hdk == root # Own
config == parseConfigParams(root)

SetupOf == [r \in Roots |-> hdkTargetData(parseConfigParams(r))]

ASSUME DataAssumption ==
  /\ Own \notin Roots
  /\ OwnData \subseteq TargetSetupData

\* A tenth of the error configured, which a calibration file leaves, is a whole
\* number of the unit that errors are counted in.
ASSUME RootsAssumption ==
  \A r \in Roots :
    LET c == parseConfigParams(r) IN
    c.includeRearPanel \in BOOLEAN /\ c.initialBeaconError \in Int
      /\ c.initialBeaconError % 10 = 0

TypeOK ==
  /\ next \in Nat /\ m_patternLength \in Nat
  /\ target \in {"none", "built", "threw", "outOfRange"}
  /\ validBeacons \cup disabledByPattern \cup disabledByEmptyPattern \subseteq 1..maxSize
  /\ hasIMU \in BOOLEAN /\ haveCameraPose \in BOOLEAN

Init ==
  /\ \/ root = Own /\ \E data \in OwnData : BeaconSetupInit(data)
     \/ root \in Roots /\ BeaconSetupInit(SetupOf[root])
  /\ hasIMU = FALSE /\ haveCameraPose = FALSE

\* What the report says of the HDK's data is not looked at.
SetUpBeacons == BeaconSetupNext /\ UNCHANGED <<root, hasIMU, haveCameraPose>>

Finish ==
  /\ hdk /\ target = "built" /\ ~ hasIMU /\ ~ haveCameraPose
  /\ hasIMU' = wantIMU(config)
  /\ haveCameraPose' = ~ wantIMU(config)
  /\ UNCHANGED <<setupVars, root>>

Next == SetUpBeacons \/ Finish

Spec == Init /\ [][Next]_vars

-----------------------------------------------------------------------------
\* The six beacons that the HDK2 has not, and the two rear ones unused in
\* production, are off; all others are on.
hdkActive ==
  LET all == 1..(IF config.includeRearPanel THEN 40 ELSE 34) IN
  all \ ({35, 38} \cup (IF config.targetSet = "HDK2" THEN HDK2_Missing_Beacons ELSE {}))

\* The HDK is set up without an error unless the configuration gives its beacons no
\* positive autocalibration error.  Every beacon it has is enabled, with a
\* place and a direction of its own panel; a calibration file moves and narrows
\* those of the front only, and the fixed ones stay fixed.
HdkAsBuilt ==
  hdk /\ target # "none" =>
    /\ target = "built"
    /\ errors = {} <=> config.initialBeaconError > 0
    /\ {i \in DOMAIN d.patterns : enabled(d.patterns[i])} = hdkActive
    /\ \A i \in 1..numBeacons :
         /\ (i > numFrontBeacons) <=> d.locations[i] = "rear"
         /\ (i > numFrontBeacons) <=> d.emissionDirections[i] = "backwards"
         /\ i \in FixedBeacons <=> d.isFixed[i]
         /\ d.locations[i] = "calibrated" /\ ~ d.isFixed[i]
              => 10 * d.initialAutocalibrationErrors[i] = config.initialBeaconError
         /\ d.locations[i] # "calibrated" /\ ~ d.isFixed[i]
              => d.initialAutocalibrationErrors[i] = config.initialBeaconError

startingAt(bits, k) == SubSeq(bits, k, Len(bits)) \o SubSeq(bits, 1, k - 1)
flipped(bits, k) == [bits EXCEPT ![k] = 1 - @]

\* Whichever moment of its pattern a beacon of the HDK is first seen at, it is
\* recognized, as itself and as no other; and one brightness misjudged may leave
\* it unrecognized but never makes another beacon of it.
RecognizedAsItself ==
  hdk /\ target = "built" =>
    \A i \in hdkActive :
      /\ \A k \in 1..d_length : startingAt(d.patterns[i], k) \in d_patterns[i]
      /\ \A bits \in d_patterns[i] : recognized(bits) = {i}
      /\ \A k \in 1..d_length : recognized(flipped(d.patterns[i], k)) = {}
=============================================================================
