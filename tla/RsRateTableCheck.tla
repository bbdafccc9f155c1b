--------------------------- MODULE RsRateTableCheck ---------------------------
(***************************************************************************)
(* rs_build_rates_table over every initial rate rs_rate_scale_perform can *)
(* hand to rs_fill_lq_cmd: any column's antennas and SGI, the station's   *)
(* width (or 20MHz, as rs_get_initial_rate sets it), and any index of the *)
(* column's mode mask.  The state is the initial rate and the table built *)
(* from it; a step rebuilds the table from another initial rate.          *)
(***************************************************************************)
EXTENDS RsRateTable

VARIABLES initial, table

vars == <<initial, table>>

\* Initial rates: a column's mode, antennas and SGI, at a supported index.
Candidates ==
  UNION {{[type |-> TxColumns[c].mode, ant |-> TxColumns[c].ant, sgi |-> TxColumns[c].sgi,
           bw |-> bw, index |-> i] :
          i \in SupportedRates([type |-> TxColumns[c].mode])} :
         c \in {c \in Columns : IsValidAnt(ValidTxAnt, TxColumns[c].ant)}, bw \in {20, StaBw}}
  \cup {[type |-> "LEGACY", ant |-> 4, sgi |-> FALSE, bw |-> 20, index |-> i] : i \in
        IF IsValidAnt(ValidTxAnt, 4) THEN ActiveLegacyRate ELSE {}}

Init ==
  /\ initial \in Candidates
  /\ table = BuildRatesTable(initial)

Rebuild ==
  \E r \in Candidates :
    /\ initial' = r
    /\ table' = BuildRatesTable(r)

Spec == Init /\ [][Rebuild]_vars

TypeOK == initial \in RateRec /\ table \in Seq(RateRec)

(***************************************************************************)
(* rs_build_rates_table fills exactly the LINK_QUAL_MAX_RETRY_NUM entries *)
(* of the firmware table, starting with the initial rate, whatever column *)
(* it starts in: the legacy tail repeats its bottom rate instead of       *)
(* stopping short or running past the end.                                *)
(***************************************************************************)
TableFilled ==
  /\ Len(table) = LINK_QUAL_MAX_RETRY_NUM
  /\ table[1] = FromUcode(initial)

(***************************************************************************)
(* Every entry of the table is a rate the station supports in the entry's *)
(* own mode, on antennas the device has (spec: every emitted rate is      *)
(* drawn from a mask the station actually supports).                      *)
(***************************************************************************)
EntriesSupported ==
  \A k \in 1..Len(table) :
    /\ RateSupported(table[k])
    /\ IsValidAnt(ValidTxAnt, table[k].ant)

=============================================================================
