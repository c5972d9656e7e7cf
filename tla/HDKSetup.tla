-------------------------------- MODULE HDKSetup --------------------------------
(***************************************************************************)
(* From the configuration of the plugin to the target data of the HDK:     *)
(* ConfigurationParser.h and MakeHDKTrackingSystem.h, with the data of     *)
(* HDKData.cpp.                                                            *)
(*                                                                         *)
(* A configuration is a function of the members that are there.  Of a      *)
(* calibration file the number of points in it is kept.  Beacon errors are *)
(* counted in tenths of the error configured; coordinates are left out.    *)
(***************************************************************************)
EXTENDS BeaconSetup

BaseMeasurementVariance == 3
DefaultBeaconError == 10

numFrontBeacons == 34
numRearBeacons  == 6

(***************************************************************************)
(* The blinking patterns as the places that are lit, of sixteen.  Two of   *)
(* the rear ones are disabled by an "X" put before their first character.  *)
(***************************************************************************)
Sensor0Lit == <<
   {2, 3, 8}, {5, 6, 10}, {2, 6, 7}, {10, 15, 16}, {3, 9, 10}, {1, 8, 9}, {5, 7, 10},
   {2, 4, 6}, {10, 12, 13}, {1, 2, 14}, {5, 7, 14}, {1, 9, 11}, {2, 11, 13},
   {2, 12, 14}, {3, 6, 8}, {5, 9, 11}, {4, 6, 15}, {4, 10, 12}, {5, 12, 15},
   {5, 8, 13}, {3, 7, 16}, {9, 12, 15}, {8, 12, 16}, {7, 11, 14}, {8, 13, 16},
   {3, 9, 12}, {1, 6, 11}, {4, 9, 13}, {3, 9, 13}, {4, 11, 15}, {1, 2, 3, 7, 16},
   {4, 5, 6, 7, 10}, {1, 3, 14, 15, 16}, {1, 2, 14, 15, 16}>>

Sensor1Lit == <<
   {14, 15}, {7, 8, 10}, {14, 15, 16}, {12}, {4, 12, 13}, {4, 5, 11}>>
Sensor1Unused == {1, 4}

patternOf(lit, unused) ==
  [k \in 1..(IF unused THEN 17 ELSE 16) |->
     IF k = 1 /\ unused THEN 2 ELSE IF k \in lit THEN 1 ELSE 0]

SENSOR0_PATTERNS == [i \in DOMAIN Sensor0Lit |-> patternOf(Sensor0Lit[i], FALSE)]
SENSOR1_PATTERNS == [i \in DOMAIN Sensor1Lit |-> patternOf(Sensor1Lit[i], i \in Sensor1Unused)]

FixedBeacons == {16, 17, 19, 20}
HDK2_Missing_Beacons == {12, 13, 14, 25, 26, 28}

-----------------------------------------------------------------------------
(***************************************************************************)
(* parseConfigParams.  An unknown target set is warned of and the default  *)
(* used instead.                                                           *)
(***************************************************************************)
optional(root, member, default) ==
  IF member \in DOMAIN root THEN root[member] ELSE default

parseConfigParams(root) ==
  [targetSet |-> IF optional(root, "targetSet", "HDK1x") = "HDK2" THEN "HDK2" ELSE "HDK1x",
   includeRearPanel    |-> optional(root, "includeRearPanel", TRUE),
   calibratedPoints    |-> optional(root, "calibratedPoints", 0),
   initialBeaconError  |-> optional(root, "initialBeaconError", DefaultBeaconError),
   imuPath             |-> optional(root, "imuPath", TRUE),
   useOrientation      |-> optional(root, "useOrientation", TRUE),
   useAngularVelocity  |-> optional(root, "useAngularVelocity", TRUE),
   calibrateAnyway     |-> optional(root, "calibrateAnyway", FALSE)]

-----------------------------------------------------------------------------
(***************************************************************************)
(* makeHDKTrackingSystem, step by step on the data.                        *)
(***************************************************************************)
constant(n, value) == [i \in 1..n |-> value]

withBeaconCount(n, variance, error) ==
  [patterns                     |-> constant(n, <<>>),
   locations                    |-> constant(n, "bogus"),
   emissionDirections           |-> constant(n, "zero"),
   baseMeasurementVariances     |-> constant(n, variance),
   initialAutocalibrationErrors |-> constant(n, error),
   isFixed                      |-> constant(n, FALSE)]

\* The entries from first on are replaced, as far as new goes.
overwrite(vector, first, new) ==
  [i \in DOMAIN vector |-> IF i \in first..(first + Len(new) - 1)
                             THEN new[i - first + 1] ELSE vector[i]]

withPatterns(data, config) ==
  [data EXCEPT !.patterns = IF config.includeRearPanel
                              THEN SENSOR0_PATTERNS \o SENSOR1_PATTERNS
                              ELSE SENSOR0_PATTERNS]

withFrontLocations(data) ==
  [data EXCEPT !.locations = overwrite(@, 1, constant(numFrontBeacons, "built-in"))]

\* A calibration file must have the points of the front, or of all beacons; of
\* those the ones of the back are left out.
calibrationFits(config) ==
  config.calibratedPoints \in {numFrontBeacons, numFrontBeacons + numRearBeacons}

withCalibration(data, config) ==
  IF ~ calibrationFits(config) THEN data
  ELSE [data EXCEPT
          !.locations = overwrite(@, 1, constant(numFrontBeacons, "calibrated")),
          !.initialAutocalibrationErrors =
            [i \in DOMAIN @ |-> IF i <= numFrontBeacons THEN @[i] \div 10 ELSE @[i]]]

withRearLocations(data, config) ==
  IF ~ config.includeRearPanel THEN data
  ELSE [data EXCEPT !.locations =
          overwrite(@, numFrontBeacons + 1, constant(numRearBeacons, "rear"))]

withDirectionsNotResized(data, config) ==   \* mutant
  [data EXCEPT !.emissionDirections = overwrite(@, 1, constant(numFrontBeacons, "measured"))]

withDirections(data, config) ==
  LET front == overwrite(data.emissionDirections, 1, constant(numFrontBeacons, "measured")) IN
  [data EXCEPT !.emissionDirections =
     IF config.includeRearPanel
       THEN SubSeq(front, 1, numFrontBeacons) \o constant(numRearBeacons, "backwards")
       ELSE front]

withFixed(data) ==
  [data EXCEPT
     !.isFixed = [i \in DOMAIN @ |-> @[i] \/ i \in FixedBeacons],
     !.initialAutocalibrationErrors =
       [i \in DOMAIN @ |-> IF i \in FixedBeacons THEN 0 ELSE @[i]]]

withoutMissing(data, config) ==
  IF config.targetSet # "HDK2" THEN data
  ELSE [data EXCEPT !.patterns =
          [i \in DOMAIN @ |-> IF i \in HDK2_Missing_Beacons THEN <<>> ELSE @[i]]]

hdkTargetData(config) ==
  LET n == numFrontBeacons + (IF config.includeRearPanel THEN numRearBeacons ELSE 0)
      empty      == withBeaconCount(n, BaseMeasurementVariance, config.initialBeaconError)
      located    == withFrontLocations(withPatterns(empty, config))
      calibrated == withCalibration(located, config)
      directed   == withDirections(withRearLocations(calibrated, config), config)
  IN withoutMissing(withFixed(directed), config)

wantIMU(config) ==
  config.imuPath /\ (config.useAngularVelocity \/ config.useOrientation
                       \/ config.calibrateAnyway)
=============================================================================
