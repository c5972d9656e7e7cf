CONSTANTS
  MAX_FRAMES_WITHOUT_BEACONS = 3
  MAX_PROBATION_FRAMES = 2
  MAX_FRAMES_WITHOUT_ID_BLOBS = 1
  MISIDENTIFIED_BEACON_CUTOFF = 1
  RansacMinimum = 2
  LedCounts = {0, 3}
  MaxSnapshots = 2
SPECIFICATION FilterSpec
PROPERTIES StillAfterReset
