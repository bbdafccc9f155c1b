CONSTANTS
  Band = "5GHZ"
  ValidTxAnt = 7
  ActiveLegacyRate = {8, 9, 10, 11}
  ActiveSisoRate = {4, 6, 7, 8, 9, 10, 11, 12}
  ActiveMimo2Rate = {4, 6, 7, 8, 9, 10, 11, 12}
  StaBw = 40
  HtSupported = TRUE
  SmpsStatic = FALSE
  SgiCapBw = {20, 40}
  LINK_QUAL_MAX_RETRY_NUM = 16
SPECIFICATION Spec
INVARIANT EntriesSupported
