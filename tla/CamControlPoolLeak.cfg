CONSTANTS
  MaxQueue = 2
  MaxPictures = 1
  DriverMayFail = FALSE
  HasFaceDetector = TRUE
SPECIFICATION Spec
INVARIANT PreviewPoolsNotLeaked
CHECK_DEADLOCK FALSE
