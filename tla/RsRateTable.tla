----------------------------- MODULE RsRateTable -----------------------------
(***************************************************************************)
(* The link-quality retry table of rs.c: rs_fill_rates_for_column and     *)
(* rs_build_rates_table, which turn the initial rate of the table in use  *)
(* into LINK_QUAL_MAX_RETRY_NUM entries walking down the column and then  *)
(* down to SISO and legacy, and the round trip of an entry through the    *)
(* ucode rate format (ucode_rate_from_rs_rate / rs_rate_from_ucode_rate). *)
(***************************************************************************)
EXTENDS RsRates, Sequences

CONSTANT
  LINK_QUAL_MAX_RETRY_NUM  \* entries of lq_cmd->rs_table (16 in the firmware API)

ASSUME LINK_QUAL_MAX_RETRY_NUM \in 1..16

\* rs.h: rates and retries per rate of each stage of the table
RS_INITIAL_HT_NUM_RATES == 3      \* RS_INITIAL_SISO/MIMO_NUM_RATES
RS_HT_VHT_RETRIES_PER_RATE == 2
RS_SECONDARY_SISO_NUM_RATES == 3
RS_SECONDARY_SISO_RETRIES == 1
RS_LEGACY_RETRIES_PER_RATE == 1
RS_LEGACY_NUM_RATES == LINK_QUAL_MAX_RETRY_NUM  \* initial and secondary legacy

\* rs_rate_from_ucode_rate (ucode_rate_from_rs_rate (r)): a legacy rate
\* carries neither SGI nor width, and decodes as LQ_NONE unless it names
\* exactly one antenna; HT/VHT rates keep type, antennas, SGI and width.
FromUcode(r) ==
  IF IsLegacy(r)
  THEN [r EXCEPT !.type = IF NumOfAnt(r.ant) = 1 THEN "LEGACY" ELSE "NONE",
                 !.sgi = FALSE, !.bw = 20]
  ELSE r

\* Mutant of FillLoop: a legacy column stops at its bottom rate too.
RECURSIVE FillLoopLegacyStops(_, _, _, _, _, _, _, _)
FillLoopLegacyStops(rate, tbl, i, numRates, numRetries, toggle, bottom, prev) ==
  IF i >= numRates \/ Len(tbl) >= LINK_QUAL_MAX_RETRY_NUM \/ bottom
  THEN [rate |-> IF bottom THEN rate ELSE [rate EXCEPT !.index = prev], tbl |-> tbl]
  ELSE
    LET n   == IF LINK_QUAL_MAX_RETRY_NUM - Len(tbl) < numRetries
               THEN LINK_QUAL_MAX_RETRY_NUM - Len(tbl) ELSE numRetries
        t   == tbl \o [j \in 1..n |-> FromUcode(rate)]
        tg  == IF toggle THEN ToggleAntenna(ValidTxAnt, rate) ELSE rate
        low == LowerRateInColumn(tg)
    IN  IF low.bottom
        THEN [rate |-> tg, tbl |-> t]
        ELSE FillLoopLegacyStops(low.rate, t, i + 1, numRates, numRetries, toggle, low.bottom, tg.index)

\* rs_fill_rates_for_column: from rate, numRates rates of its column, each
\* numRetries times, until the table is full; the antenna toggles after each
\* rate when toggle holds; an HT/VHT column stops at its bottom, a legacy
\* one repeats its bottom rate.  Returns the table and the rate to continue
\* from: the last rate written unless the bottom was reached.
RECURSIVE FillLoop(_, _, _, _, _, _, _, _)
FillLoop(rate, tbl, i, numRates, numRetries, toggle, bottom, prev) ==
  IF i >= numRates \/ Len(tbl) >= LINK_QUAL_MAX_RETRY_NUM
  THEN [rate |-> IF bottom THEN rate ELSE [rate EXCEPT !.index = prev], tbl |-> tbl]
  ELSE
    LET n   == IF LINK_QUAL_MAX_RETRY_NUM - Len(tbl) < numRetries
               THEN LINK_QUAL_MAX_RETRY_NUM - Len(tbl) ELSE numRetries
        t   == tbl \o [j \in 1..n |-> FromUcode(rate)]
        tg  == IF toggle THEN ToggleAntenna(ValidTxAnt, rate) ELSE rate
        low == LowerRateInColumn(tg)
    IN  IF low.bottom /\ ~IsLegacy(tg)
        THEN [rate |-> tg, tbl |-> t]
        ELSE FillLoop(low.rate, t, i + 1, numRates, numRetries, toggle, low.bottom, tg.index)

FillRatesForColumn(rate, tbl, numRates, numRetries, toggle) ==
  FillLoop(rate, tbl, 0, numRates, numRetries, toggle, FALSE, rate.index)

\* rs_build_rates_table: the initial column (3 HT/VHT rates twice each, or
\* legacy rates once each with antenna toggling), then one column down
\* (3 SISO rates once each, or legacy), then legacy to the end.
BuildRatesTable(initial) ==
  LET ht  == IsSiso(initial) \/ IsMimo(initial)
      s1  == FillRatesForColumn(initial, <<>>,
                                IF ht THEN RS_INITIAL_HT_NUM_RATES ELSE RS_LEGACY_NUM_RATES,
                                IF ht THEN RS_HT_VHT_RETRIES_PER_RATE ELSE RS_LEGACY_RETRIES_PER_RATE,
                                ~ht)
      r2  == LowerRateDownColumn(s1.rate)
      s2  == FillRatesForColumn(r2, s1.tbl,
                                IF IsSiso(r2) THEN RS_SECONDARY_SISO_NUM_RATES ELSE RS_LEGACY_NUM_RATES,
                                IF IsSiso(r2) THEN RS_SECONDARY_SISO_RETRIES ELSE RS_LEGACY_RETRIES_PER_RATE,
                                TRUE)
      r3  == LowerRateDownColumn(s2.rate)
  IN  FillRatesForColumn(r3, s2.tbl, RS_LEGACY_NUM_RATES, RS_LEGACY_RETRIES_PER_RATE, TRUE).tbl

=============================================================================
