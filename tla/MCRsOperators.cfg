CONSTANTS
  RATE_MAX_WINDOW = 6
  RATE_MIN_FAILURE_TH = 3
  RATE_MIN_SUCCESS_TH = 4
  MaxBatch = 3
  Tpt = 72
  Band = "2GHZ"
  ValidTxAnt = 7
  ActiveLegacyRate = {0, 1, 2, 3, 4, 5, 6, 7, 8, 9, 10, 11}
  ActiveSisoRate = {4, 6, 7, 8, 9, 10, 11, 12}
  ActiveMimo2Rate = {4, 6, 7, 8, 9, 10, 11, 12}
  StaBw = 40
  HtSupported = TRUE
  SmpsStatic = FALSE
  SgiCapBw = {20, 40}
  LINK_QUAL_MAX_RETRY_NUM = 16
SPECIFICATION Spec
INVARIANT TableFilled
INVARIANT EntriesSupported
INVARIANT MasksMatchCapabilities
INVARIANT MaskedRatesHaveThroughput
PROPERTY WindowRefinesAbstract
