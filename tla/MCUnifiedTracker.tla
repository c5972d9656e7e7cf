-------------------------- MODULE MCUnifiedTracker --------------------------
(* Instances of UnifiedTracker for TLC: two bodies, one with an IMU, and a  *)
(* queue of two messages.                                                   *)
EXTENDS UnifiedTracker

CONSTANTS hmd, controller

AllBodies  == {hmd, controller}
BodyWithImu == {hmd}
AllOutcomes == {"image", "null", "throw"}
\* The default ImageSource::retrieve gives a frame or throws.
DefaultRetrieve == {"image", "throw"}
=============================================================================
