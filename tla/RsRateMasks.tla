---------------------------- MODULE RsRateMasks -----------------------------
(***************************************************************************)
(* The rate masks iwl_mvm_rs_rate_init derives from the peer's HT and VHT *)
(* capabilities: active_siso_rate and active_mimo2_rate as sets of rate   *)
(* indices.  HT takes the rx_mask bytes of ht_cap.mcs through shifts and  *)
(* masks (MCS0 shares the 6M index, the 9M index has no MCS, MCS1..7      *)
(* follow); VHT takes the two-bit per-stream fields of rx_mcs_map         *)
(* through rs_vht_highest_rx_mcs_index and rs_vht_set_enabled_rates.      *)
(* The bit operations are written as arithmetic on naturals.              *)
(***************************************************************************)
EXTENDS RsRates

IWL_FIRST_OFDM_RATE == 4
RATE_MCS_0_INDEX == RATE_6M_INDEX
RATE_MCS_8_INDEX == 13
RATE_MCS_9_INDEX == 14

\* The indices of the set bits of a mask.
MaskIndices(m) == {i \in 0..15 : (m \div 2^i) % 2 = 1}

\* Mutant of HtRateMask: bit 1 (the 9M index once shifted) is not cleared.
HtRateMaskKeeps9M(rxMask) ==
  MaskIndices((rxMask * 2 + (rxMask % 2)) * 2^IWL_FIRST_OFDM_RATE)

\* HT: active_siso_rate (or active_mimo2_rate) from rx_mask[0] (or [1]):
\* shift left, copy MCS0 to bit 0, clear bit 1 (9M), shift to the first
\* OFDM rate.
HtRateMask(rxMask) ==
  LET a == rxMask * 2 + (rxMask % 2)     \* rx_mask << 1 | (rx_mask & 0x1)
      b == a - 2 * ((a \div 2) % 2)     \* &= ~0x2
  IN  MaskIndices(b * 2^IWL_FIRST_OFDM_RATE)

\* rs_vht_highest_rx_mcs_index: the two bits of stream nss in rx_mcs_map;
\* 0, 1, 2 are MCS 0-7, 0-8, 0-9 and 3 is "not supported" (-1).
VhtHighestRxMcsIndex(mcsMap, nss) ==
  LET rx == (mcsMap \div 4^(nss - 1)) % 4
  IN  CASE rx = 0 -> RATE_MCS_7_INDEX
        [] rx = 1 -> RATE_MCS_8_INDEX
        [] rx = 2 -> RATE_MCS_9_INDEX
        [] OTHER  -> -1

\* Mutant of VhtStreamRates: MCS9 is kept at 20MHz.
VhtStreamRatesAllWidths(highest, bw) ==
  {i \in RATE_MCS_0_INDEX..highest : i # RATE_9M_INDEX}

\* One stream's loop of rs_vht_set_enabled_rates: every index from MCS0
\* to the highest, except 9M and, at 20MHz, MCS9.
VhtStreamRates(highest, bw) ==
  {i \in RATE_MCS_0_INDEX..highest :
     i # RATE_9M_INDEX /\ ~(i = RATE_MCS_9_INDEX /\ bw = 20)}

\* rs_vht_set_enabled_rates on the masks the memset of rate init cleared:
\* the SISO mask from stream 1, the MIMO2 mask from stream 2 only when the
\* peer receives on two streams.
VhtSetEnabledRates(mcsMap, bw, rxNss) ==
  [siso |-> VhtStreamRates(VhtHighestRxMcsIndex(mcsMap, 1), bw),
   mimo2 |-> IF rxNss < 2 THEN {} ELSE VhtStreamRates(VhtHighestRxMcsIndex(mcsMap, 2), bw)]


-----------------------------------------------------------------------------
(* The capabilities a peer can advertise at a width: one HT rx_mask     *)
(* byte, or the two-stream part of a VHT rx_mcs_map and the number of    *)
(* receive streams.                                                       *)
Capabilities ==
  [kind : {"HT"}, rxMask : 0..255, bw : {20, 40, 80}]
  \cup [kind : {"VHT"}, mcsMap : 0..15, bw : {20, 40, 80}, rxNss : 1..2]

\* The masks iwl_mvm_rs_rate_init derives from a peer's capabilities; an
\* HT peer's two rx_mask bytes go through the same shifts, so one byte
\* stands for both.
DerivedMasks(cap) ==
  IF cap.kind = "HT" THEN [siso |-> HtRateMask(cap.rxMask), mimo2 |-> HtRateMask(cap.rxMask)]
  ELSE VhtSetEnabledRates(cap.mcsMap, cap.bw, cap.rxNss)

\* IWL_RATE_MCS_k_INDEX for k = 0..9 (the designated entries of
\* rs_ht_to_legacy): MCS0 shares the 6M index, MCS1..9 follow 9M.
McsIndex(k) == IF k = 0 THEN RATE_MCS_0_INDEX ELSE RATE_9M_INDEX + k

\* The MCS a VHT stream field admits: 0-7, 0-8, 0-9 or none.
VhtFieldMcs(field) == IF field = 3 THEN {} ELSE 0..(7 + field)

\* Reference: the rates a peer with these capabilities can receive, by
\* MCS, at their rate indices.  MCS9 is not valid at 20MHz for one or
\* two streams, and a one-stream peer has no MIMO2 rate.
AdvertisedRates(cap) ==
  LET ht == {McsIndex(k) : k \in {j \in 0..7 : (cap.rxMask \div 2^j) % 2 = 1}}
      vht(s) == {McsIndex(k) : k \in {j \in VhtFieldMcs((cap.mcsMap \div 4^(s - 1)) % 4) :
                                          ~(j = 9 /\ cap.bw = 20)}}
  IN  IF cap.kind = "HT" THEN [siso |-> ht, mimo2 |-> ht]
      ELSE [siso |-> vht(1), mimo2 |-> IF cap.rxNss < 2 THEN {} ELSE vht(2)]

\* The NGI row of expected_tpt_siso/mimo2 at a width (the other rows are
\* zero at the same indices).
NgiTpt(mode, bw) == TptHt[mode][CASE bw = 20 -> "w20" [] bw = 40 -> "w40" [] OTHER -> "w80"][1]

====
