CONSTANTS
  RATE_MAX_WINDOW = 2
  RATE_MIN_FAILURE_TH = 1
  RATE_MIN_SUCCESS_TH = 1
  Band = "2GHZ"
  ValidTxAnt = 1
  ActiveLegacyRate <- MC_Legacy24
  ActiveSisoRate <- MC_NoRates
  ActiveMimo2Rate = {}
  StaBw = 20
  HtSupported = FALSE
  SmpsStatic = FALSE
  SgiCapBw <- MC_SgiCapBw
  LINK_QUAL_MAX_RETRY_NUM = 4
  IWL_MISSED_RATE_MAX = 1
  LegacyLimits <- MC_LegacyLimits
  NonLegacyLimits <- MC_NonLegacyLimits
  ZeroRsState = "SEARCH_CYCLE_STARTED"
  JiffiesMayBeZero = TRUE
  MaxRateInputs <- MC_MaxRateNone
  RssiInputs <- MC_Rssi84
  RxChains = {1}
  MaxRetries = 1
  BtMimoStates = {TRUE}
  MaxInFlight = 1
  MaxLqQueue = 1
SPECIFICATION Spec
INVARIANT TypeOK
INVARIANT LqTracksTableInUse
INVARIANT RateInUseSupported
INVARIANT TxAntennasValid
