----------------------------- MODULE MCRsEngine -----------------------------
(***************************************************************************)
(* Model-checking instance of RsEngine: a 5GHz station on a two-antenna  *)
(* device whose peer supports HT with one spatial stream (empty MIMO2     *)
(* mask, so the out-of-range throughput read of rs_get_next_column is     *)
(* reached), 20MHz, no SGI.  One legacy and two SISO rates, so that a    *)
(* stay-in-column phase in SISO can move up and down, and small limits    *)
(* keep every path of rs_rate_scale_perform within a few statuses.        *)
(***************************************************************************)
EXTENDS RsEngine

MC_LegacyRates == {4, 8}          \* 6M, 24M
MC_SisoRates == {4, 7}            \* MCS0, MCS2
MC_LegacyLimits == <<3, 2, 3>>    \* table_count, failure, success
MC_NonLegacyLimits == <<3, 2, 3>>
MC_SgiCapBw == {}
MC_MaxRateNone == {-1}
MC_MaxRate9M == {-1, 1}        \* 1: 9M, which no HT rate has
MC_Rssi == {}
MC_Rssi84 == {-84}              \* reaches 18M (index 7) on 2.4GHz
MC_Legacy24 == {0, 2, 7}        \* 1M, 5.5M, 18M
MC_NoRates == {}
MC_OneRate == {4}               \* 6M / MCS0 only
MC_MimoRates == {6}             \* MCS1

====
