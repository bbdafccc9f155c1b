CONSTANTS
  RATE_MAX_WINDOW = 5
  RATE_MIN_FAILURE_TH = 1
  RATE_MIN_SUCCESS_TH = 4
  TPC_MAX_REDUCTION = 3
  TPC_TX_POWER_STEP = 3
  RateType = "LEGACY"
  RateIndex = 11
  IsVht = FALSE
  Tpt = 186
  MaxInFlight = 1
  MaxLqQueue = 1
  LqMayFail = TRUE
SPECIFICATION LiveSpec
PROPERTY TpcFirmwareFollows
