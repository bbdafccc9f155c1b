---------------------------- MODULE MCRsOperators ---------------------------
(***************************************************************************)
(* Model-checking instance for the pure parts of rs.c checked against     *)
(* reference definitions: one rate's history window (RsWindowSpec, shown  *)
(* to refine RsWindowAbs), the rate-table builder over every initial rate *)
(* (RsRateTableCheck) and the rate masks rate init derives from a peer's  *)
(* HT/VHT capabilities (RsRateMasks).  The three do not interact, so a    *)
(* behaviour exercises one of them (part) and the others keep their       *)
(* initial values: the state space is the sum of theirs, not the product. *)
(***************************************************************************)
EXTENDS RsRateMasks, RsRateTable

CONSTANTS
  RATE_MAX_WINDOW, RATE_MIN_FAILURE_TH, RATE_MIN_SUCCESS_TH, MaxBatch, Tpt

VARIABLES
  part,       \* "window", "table" or "masks"
  win,        \* RsWindowSpec
  initial,    \* RsRateTableCheck
  table,
  cap         \* the capabilities of the peer rate init last ran for

vars == <<part, win, initial, table, cap>>

W == INSTANCE RsWindowSpec
T == INSTANCE RsRateTableCheck

NoRate == [type |-> "NONE", ant |-> 0, sgi |-> FALSE, bw |-> 20, index |-> 0]
NoCap == [kind |-> "HT", rxMask |-> 0, bw |-> 20]

Init ==
  \/ /\ part = "window" /\ W!Init
     /\ initial = NoRate /\ table = <<>> /\ cap = NoCap
  \/ /\ part = "table" /\ T!Init
     /\ W!Init /\ cap = NoCap
  \/ /\ part = "masks" /\ cap \in Capabilities
     /\ W!Init /\ initial = NoRate /\ table = <<>>

\* iwl_mvm_rs_rate_init for a peer with other capabilities.
RateInit ==
  /\ part = "masks"
  /\ cap' \in Capabilities
  /\ UNCHANGED <<part, win, initial, table>>

Next ==
  \/ part = "window" /\ W!Next /\ UNCHANGED <<part, initial, table, cap>>
  \/ part = "table" /\ T!Rebuild /\ UNCHANGED <<part, win, cap>>
  \/ RateInit

Spec == Init /\ [][Next]_vars

(***************************************************************************)
(* _rs_collect_tx_data and rs_rate_scale_clear_window implement the       *)
(* abstract sliding window of the last RATE_MAX_WINDOW outcomes, with     *)
(* their counters, ratio and estimate (see RsWindowSpec).                 *)
(***************************************************************************)
WindowRefinesAbstract == W!WindowRefinesAbstract

(***************************************************************************)
(* rs_build_rates_table fills exactly LINK_QUAL_MAX_RETRY_NUM entries,    *)
(* starting with the initial rate (see RsRateTableCheck).                 *)
(***************************************************************************)
TableFilled == part = "table" => T!TableFilled

(***************************************************************************)
(* Every entry of the table is a supported rate on antennas the device    *)
(* has (see RsRateTableCheck).                                            *)
(***************************************************************************)
EntriesSupported == part = "table" => T!EntriesSupported

(***************************************************************************)
(* Rate init enables exactly the rates the peer advertises: for HT, MCS k *)
(* at its rate index whenever bit k of rx_mask is set; for VHT, every MCS *)
(* of each stream's field, MCS9 not at 20MHz, and no MIMO2 rate for a     *)
(* one-stream peer.  The shifts of iwl_mvm_rs_rate_init and the loops of  *)
(* rs_vht_set_enabled_rates must agree with it for every capability.     *)
(***************************************************************************)
MasksMatchCapabilities == part = "masks" => DerivedMasks(cap) = AdvertisedRates(cap)

(***************************************************************************)
(* Every rate rate init enables has an expected throughput at the peer's  *)
(* width: rs_get_best_rate, rs_get_next_column and the up/down decisions  *)
(* compare expected_tpt of enabled indices, and a zero (the 9M index in   *)
(* an HT table, VHT MCS9 at 20MHz) makes an enabled rate look worthless.  *)
(***************************************************************************)
MaskedRatesHaveThroughput ==
  part = "masks" =>
    \A mode \in {"SISO", "MIMO2"} :
      \A i \in DerivedMasks(cap)[IF mode = "SISO" THEN "siso" ELSE "mimo2"] :
        TptAt(NgiTpt(mode, cap.bw), i) > 0

====
