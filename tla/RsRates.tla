------------------------------- MODULE RsRates -------------------------------
(***************************************************************************)
(* Rate catalog, column registry and expected-throughput model of rs.c,   *)
(* and the rate-ladder walks built on them.  A rate (struct rs_rate) is a *)
(* record [type, ant, sgi, bw, index]; ldpc is left out (no decision reads *)
(* it) and HT and VHT share the SISO/MIMO2 types (lq_sta->is_vht only     *)
(* picks the PLCP encoding).  The station's capabilities are CONSTANTS:   *)
(* they are fixed from association until rs_rate_update re-initialises.  *)
(***************************************************************************)
EXTENDS Integers, FiniteSets

CONSTANTS
  Band,             \* lq_sta->band: "2GHZ" or "5GHZ"
  ValidTxAnt,       \* mvm->fw->valid_tx_ant, a bitmask over A=1, B=2, C=4
  ActiveLegacyRate, \* lq_sta->active_legacy_rate as a set of rate indices
  ActiveSisoRate,   \* lq_sta->active_siso_rate
  ActiveMimo2Rate,  \* lq_sta->active_mimo2_rate
  StaBw,            \* rs_bw_from_sta_bw(sta): 20, 40 or 80
  HtSupported,      \* sta->ht_cap.ht_supported
  SmpsStatic,       \* sta->smps_mode == IEEE80211_SMPS_STATIC
  SgiCapBw          \* widths whose SGI capability the peer advertises

\* Rate indices of rs.h: 0..3 CCK 1/2/5.5/11M, 4..11 OFDM 6..54M (= MCS 0..6
\* except 9M at 5), 12..14 MCS 7..9.
IWL_RATE_COUNT == 15
IWL_RATE_INVALID == IWL_RATE_COUNT
RateIdx == 0..(IWL_RATE_COUNT - 1)
RATE_6M_INDEX == 4
RATE_9M_INDEX == 5
RATE_54M_INDEX == 11
RATE_MCS_7_INDEX == 12

ASSUME ActiveLegacyRate \subseteq RateIdx /\ ActiveSisoRate \subseteq 4..14
ASSUME ActiveMimo2Rate \subseteq 4..14 /\ ValidTxAnt \in 1..7
ASSUME Band \in {"2GHZ", "5GHZ"} /\ StaBw \in {20, 40, 80}

Types == {"LEGACY", "SISO", "MIMO2", "NONE"}
RateRec == [type : Types, ant : 0..7, sgi : BOOLEAN, bw : {20, 40, 80}, index : RateIdx]

(* ---------------------------- antennas --------------------------------- *)
ANT_A == 1
ANT_B == 2
ANT_AB == 3
NumOfAnt(a) == Cardinality({b \in {1, 2, 4} : (a \div b) % 2 = 1})
FirstAntenna(a) == CHOOSE b \in {1, 2, 4} : (a \div b) % 2 = 1
                                         /\ \A c \in {1, 2, 4} : c < b => (a \div c) % 2 = 0
\* rs_is_valid_ant: every antenna of t is valid
IsValidAnt(valid, t) == \A b \in {1, 2, 4} : (t \div b) % 2 = 1 => (valid \div b) % 2 = 1
\* ant_toggle_lookup
AntToggle == <<2, 4, 6, 1, 3, 5, 7>>  \* indexed by A, B, AB, C, AC, BC, ABC

(* --------------------------- rate catalog ------------------------------ *)
\* iwl_rates[].prev_rs and .next_rs (IWL_DECLARE_RATE_INFO), 1-based tuples
\* over indices 0..14; the legacy 2.4GHz ladder walks these links.
PrevRs == <<15, 0, 1, 5, 2, 4, 3, 6, 7, 8, 9, 10, 15, 15, 15>>
NextRs == <<1, 2, 3, 6, 3, 3, 7, 8, 9, 10, 11, 15, 15, 15, 15>>
\* rs_ht_to_legacy (index 5 has no MCS and reads the zero initialiser)
HtToLegacy == <<0, 0, 0, 0, 4, 0, 5, 6, 7, 8, 9, 10, 11, 11, 11>>

IsLegacy(r) == r.type = "LEGACY"
IsSiso(r) == r.type = "SISO"
IsMimo(r) == r.type = "MIMO2"

\* rs_get_supported_rates
SupportedRates(r) ==
  CASE r.type = "LEGACY" -> ActiveLegacyRate
    [] r.type = "SISO"   -> ActiveSisoRate
    [] r.type = "MIMO2"  -> ActiveMimo2Rate
    [] OTHER             -> {}

RateSupported(r) == r.index \in SupportedRates(r)

(* --------------------------- rate ladder ------------------------------- *)
RECURSIVE WalkLinks(_, _, _)
WalkLinks(links, i, mask) ==
  LET n == links[i + 1] IN
  IF n = IWL_RATE_INVALID \/ n \in mask THEN n ELSE WalkLinks(links, n, mask)

MaxOr(S, d) == IF S = {} THEN d ELSE CHOOSE x \in S : \A y \in S : x >= y
MinOr(S, d) == IF S = {} THEN d ELSE CHOOSE x \in S : \A y \in S : x <= y

\* Mutant of AdjacentRate: the neighbours are taken without the mask.
AdjacentRateIgnoringMask(index, mask, type) ==
  IF Band = "5GHZ" \/ type # "LEGACY"
  THEN [low  |-> IF index = 0 THEN IWL_RATE_INVALID ELSE index - 1,
        high |-> IF index + 1 >= IWL_RATE_COUNT THEN IWL_RATE_INVALID ELSE index + 1]
  ELSE [low |-> PrevRs[index + 1], high |-> NextRs[index + 1]]

\* rs_get_adjacent_rate: 5GHz legacy and HT/VHT take the nearest masked
\* index; 2.4GHz legacy follows the prev/next links.  [low, high] with
\* IWL_RATE_INVALID for "none".
AdjacentRate(index, mask, type) ==
  IF Band = "5GHZ" \/ type # "LEGACY"
  THEN [low  |-> MaxOr({i \in mask : i < index}, IWL_RATE_INVALID),
        high |-> MinOr({i \in mask : i > index /\ i < IWL_RATE_COUNT}, IWL_RATE_INVALID)]
  ELSE [low  |-> WalkLinks(PrevRs, index, mask),
        high |-> WalkLinks(NextRs, index, mask)]

\* Mutant of LowerRateInColumn: one index down, whatever the mask says.
LowerRateInColumnUnmasked(r) ==
  IF r.index = 0 THEN [bottom |-> TRUE, rate |-> r]
  ELSE [bottom |-> FALSE, rate |-> [r EXCEPT !.index = r.index - 1]]

\* rs_get_lower_rate_in_column: the next lower supported rate, or bottom.
LowerRateInColumn(r) ==
  LET low == AdjacentRate(r.index, SupportedRates(r), r.type).low IN
  IF low = IWL_RATE_INVALID THEN [bottom |-> TRUE, rate |-> r]
  ELSE [bottom |-> FALSE, rate |-> [r EXCEPT !.index = low]]

\* rs_get_lower_rate_down_column: MIMO2 -> SISO (same MCS), SISO -> legacy
\* (rs_ht_to_legacy, 20MHz), legacy stays; one antenna, no SGI, and one
\* step down the new ladder if the index is unsupported there.
LowerRateDownColumn(r) ==
  IF IsLegacy(r) THEN r
  ELSE LET t == IF IsSiso(r)
                THEN [r EXCEPT !.type = "LEGACY", !.bw = 20,
                               !.index = HtToLegacy[r.index + 1]]
                ELSE [r EXCEPT !.type = "SISO"]
           a == IF NumOfAnt(t.ant) > 1
                THEN [t EXCEPT !.ant = FirstAntenna(ValidTxAnt)] ELSE t
           s == [a EXCEPT !.sgi = FALSE]
       IN  IF RateSupported(s) THEN s ELSE LowerRateInColumn(s).rate

\* rs_toggle_antenna: the next valid antenna set along ant_toggle_lookup
ToggleAntenna(valid, r) ==
  LET RECURSIVE Step(_)
      Step(t) == IF t = r.ant \/ IsValidAnt(valid, t) THEN t ELSE Step(AntToggle[t])
  IN  IF r.ant = 0 \/ r.ant > 7 \/ ~IsValidAnt(valid, r.ant) THEN r
      ELSE [r EXCEPT !.ant = Step(AntToggle[r.ant])]

\* rs_rate_match: same table (type, antennas, guard interval)
RateMatch(a, b) == a.type = b.type /\ a.ant = b.ant /\ a.sgi = b.sgi

(* --------------------------- columns ----------------------------------- *)
Columns == {"LEGACY_ANT_A", "LEGACY_ANT_B", "SISO_ANT_A", "SISO_ANT_B",
            "SISO_ANT_A_SGI", "SISO_ANT_B_SGI", "MIMO2", "MIMO2_SGI"}
COLUMN_INVALID == "INVALID"

\* rs_tx_columns: mode, antennas, SGI, ordered next_columns and checks
TxColumns == [
  LEGACY_ANT_A |-> [mode |-> "LEGACY", ant |-> ANT_A, sgi |-> FALSE, checks |-> {},
                    next |-> <<"LEGACY_ANT_B", "SISO_ANT_A", "MIMO2">>],
  LEGACY_ANT_B |-> [mode |-> "LEGACY", ant |-> ANT_B, sgi |-> FALSE, checks |-> {},
                    next |-> <<"LEGACY_ANT_A", "SISO_ANT_B", "MIMO2">>],
  SISO_ANT_A |-> [mode |-> "SISO", ant |-> ANT_A, sgi |-> FALSE, checks |-> {"siso"},
                  next |-> <<"SISO_ANT_B", "MIMO2", "SISO_ANT_A_SGI", "LEGACY_ANT_A", "LEGACY_ANT_B">>],
  SISO_ANT_B |-> [mode |-> "SISO", ant |-> ANT_B, sgi |-> FALSE, checks |-> {"siso"},
                  next |-> <<"SISO_ANT_A", "MIMO2", "SISO_ANT_B_SGI", "LEGACY_ANT_A", "LEGACY_ANT_B">>],
  SISO_ANT_A_SGI |-> [mode |-> "SISO", ant |-> ANT_A, sgi |-> TRUE, checks |-> {"siso", "sgi"},
                      next |-> <<"SISO_ANT_B_SGI", "MIMO2_SGI", "SISO_ANT_A", "LEGACY_ANT_A", "LEGACY_ANT_B">>],
  SISO_ANT_B_SGI |-> [mode |-> "SISO", ant |-> ANT_B, sgi |-> TRUE, checks |-> {"siso", "sgi"},
                      next |-> <<"SISO_ANT_A_SGI", "MIMO2_SGI", "SISO_ANT_B", "LEGACY_ANT_A", "LEGACY_ANT_B">>],
  MIMO2 |-> [mode |-> "MIMO2", ant |-> ANT_AB, sgi |-> FALSE, checks |-> {"mimo"},
             next |-> <<"SISO_ANT_A", "MIMO2_SGI", "LEGACY_ANT_A", "LEGACY_ANT_B">>],
  MIMO2_SGI |-> [mode |-> "MIMO2", ant |-> ANT_AB, sgi |-> TRUE, checks |-> {"mimo", "sgi"},
                 next |-> <<"SISO_ANT_A_SGI", "MIMO2", "LEGACY_ANT_A", "LEGACY_ANT_B">>]]

\* rs_mimo_allow, rs_siso_allow, rs_sgi_allow; the SGI check reads the
\* width of the current table's rate, btMimo is the BT-coex verdict.
ColumnCheck(chk, cur, btMimo) ==
  CASE chk = "siso" -> HtSupported
    [] chk = "mimo" -> HtSupported /\ ~SmpsStatic /\ NumOfAnt(ValidTxAnt) >= 2 /\ btMimo
    [] chk = "sgi"  -> cur.bw \in SgiCapBw

\* rs_get_max_allowed_rate: find_last_bit, which is BITS_PER_LONG (64) on
\* an empty mask.
MaxAllowedRate(mode) ==
  LET m == CASE mode = "LEGACY" -> ActiveLegacyRate
             [] mode = "SISO"   -> ActiveSisoRate
             [] OTHER           -> ActiveMimo2Rate
  IN  MaxOr(m, 64)

(* ---------------------- expected throughput ---------------------------- *)
\* expected_tpt_legacy and the HT/VHT tables: [mode][bw] is four rows, NGI,
\* SGI, AGG+NGI, AGG+SGI, each over rate indices 0..14.
TptLegacy == <<7, 13, 35, 58, 40, 57, 72, 98, 121, 154, 177, 186, 0, 0, 0>>
TptHt == [
  SISO |-> [w20 |-> <<<<0,0,0,0,42,0,76,102,124,159,183,193,202,216,0>>,
                      <<0,0,0,0,46,0,82,110,132,168,192,202,210,225,0>>,
                      <<0,0,0,0,49,0,97,145,192,285,375,420,464,551,0>>,
                      <<0,0,0,0,54,0,108,160,213,315,415,465,513,608,0>>>>,
            w40 |-> <<<<0,0,0,0,77,0,127,160,184,220,242,250,257,269,275>>,
                      <<0,0,0,0,83,0,135,169,193,229,250,257,264,275,280>>,
                      <<0,0,0,0,101,0,199,295,389,570,744,828,911,1070,1173>>,
                      <<0,0,0,0,112,0,220,326,429,629,819,912,1000,1173,1284>>>>,
            w80 |-> <<<<0,0,0,0,130,0,191,223,244,273,288,294,298,305,308>>,
                      <<0,0,0,0,138,0,200,231,251,279,293,298,302,308,312>>,
                      <<0,0,0,0,217,0,429,634,834,1220,1585,1760,1931,2258,2466>>,
                      <<0,0,0,0,241,0,475,701,921,1343,1741,1931,2117,2468,2691>>>>],
  MIMO2 |-> [w20 |-> <<<<0,0,0,0,74,0,123,155,179,213,235,243,250,261,0>>,
                       <<0,0,0,0,81,0,131,164,187,221,242,250,256,267,0>>,
                       <<0,0,0,0,98,0,193,286,375,550,718,799,878,1032,0>>,
                       <<0,0,0,0,109,0,214,316,414,607,790,879,965,1132,0>>>>,
             w40 |-> <<<<0,0,0,0,123,0,182,214,235,264,279,285,289,296,300>>,
                       <<0,0,0,0,131,0,191,222,242,270,284,289,293,300,303>>,
                       <<0,0,0,0,200,0,390,571,741,1067,1365,1505,1640,1894,2053>>,
                       <<0,0,0,0,221,0,430,630,816,1169,1490,1641,1784,2053,2221>>>>,
             w80 |-> <<<<0,0,0,0,182,0,240,264,278,299,308,311,313,317,319>>,
                       <<0,0,0,0,190,0,247,269,282,302,310,313,315,319,320>>,
                       <<0,0,0,0,428,0,833,1215,1577,2254,2863,3147,3418,3913,4219>>,
                       <<0,0,0,0,474,0,920,1338,1732,2464,3116,3418,3705,4225,4545>>>>]]

\* rs_get_expected_tpt_table for a column, a width and the aggregation flag
ExpectedTptTable(col, bw, isAgg) ==
  LET c == TxColumns[col]
      row == (IF isAgg THEN 2 ELSE 0) + (IF c.sgi THEN 1 ELSE 0) + 1
  IN  IF c.mode = "LEGACY" THEN TptLegacy
      ELSE TptHt[c.mode][CASE bw = 20 -> "w20" [] bw = 40 -> "w40" [] OTHER -> "w80"][row]

\* expected_tpt[index] of a table; indices past the array (64 from an
\* empty mask) have no defined value.
TptAt(tbl, i) == tbl[i + 1]

=============================================================================
