CONSTANTS
  MaxQueue = 2
  MaxPictures = 2
  DriverMayFail = FALSE
  HasFaceDetector = TRUE
SPECIFICATION Spec
PROPERTY CaptureBufferNotFreedWhileLent
CHECK_DEADLOCK FALSE
