--------------------------------- MODULE MCSetup ---------------------------------
(***************************************************************************)
(* Target data of up to two beacons, for TLC.  Vectors of two with every   *)
(* combination of entries; and vectors of every length, each with all its  *)
(* entries alike.                                                          *)
(***************************************************************************)
EXTENDS Setup, TLC

FewPatterns == {<<>>, <<0, 1>>, <<1, 1, 0>>, <<2, 1>>}

Data(patterns, locations, directions, variances, autocalib, fixed) ==
  [patterns : patterns, locations : locations, emissionDirections : directions,
   baseMeasurementVariances : variances, initialAutocalibrationErrors : autocalib,
   isFixed : fixed]

Pairs(entries) == [1..2 -> entries]
Alike(entries) == {[i \in 1..n |-> e] : n \in 0..2, e \in entries}

EvenData ==
  Data(Pairs(FewPatterns), Pairs({"bogus", "set"}), Pairs({"zero", "set"}),
       Pairs({0, 1}), Pairs({-1, 0, 1}), Pairs(BOOLEAN))

UnevenData ==
  Data(Alike(FewPatterns), Alike({"bogus", "set"}), Alike({"zero", "set"}),
       Alike({0, 1}), Alike({-1, 0, 1}), Alike(BOOLEAN))

SmallData == EvenData \cup UnevenData

\* Each member there or not, with the values that make a difference.
member(name, values) == {[m \in {} |-> 0]} \cup {[m \in {name} |-> v] : v \in values}

ManyRoots ==
  {targetSet @@ rear @@ points @@ error @@ imu :
     targetSet \in member("targetSet", {"HDK2", "unknown"}),
     rear \in member("includeRearPanel", {FALSE}),
     points \in member("calibratedPoints", {33, 34, 40}),
     error \in member("initialBeaconError", {-10, 0}),
     imu \in member("imuPath", {FALSE})
              \cup {[m \in {"useOrientation", "useAngularVelocity"} |-> FALSE]}}
=============================================================================
