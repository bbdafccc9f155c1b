CONSTANTS
  RATE_MAX_WINDOW = 1
  RATE_MIN_FAILURE_TH = 1
  RATE_MIN_SUCCESS_TH = 1
  Band = "5GHZ"
  ValidTxAnt = 3
  ActiveLegacyRate <- MC_LegacyRates
  ActiveSisoRate <- MC_SisoRates
  ActiveMimo2Rate = {}
  StaBw = 20
  HtSupported = TRUE
  SmpsStatic = FALSE
  SgiCapBw <- MC_SgiCapBw
  LINK_QUAL_MAX_RETRY_NUM = 4
  IWL_MISSED_RATE_MAX = 1
  LegacyLimits <- MC_LegacyLimits
  NonLegacyLimits <- MC_NonLegacyLimits
  ZeroRsState = "SEARCH_CYCLE_STARTED"
  JiffiesMayBeZero = FALSE
  MaxRateInputs <- MC_MaxRate9M
  RssiInputs <- MC_Rssi
  RxChains = {1, 2}
  MaxRetries = 0
  BtMimoStates = {TRUE}
  MaxInFlight = 1
  MaxLqQueue = 1
SPECIFICATION Spec
INVARIANT RateInUseSupported
