------------------------------ MODULE RsEngine ------------------------------
(***************************************************************************)
(* The per-station rate-scaling engine of rs.c composed with the firmware *)
(* that runs its link-quality (LQ) table.  The station state lq_sta is one *)
(* record whose fields mirror struct iwl_lq_sta; the firmware side is the *)
(* queue of LQ commands in flight (iwl_mvm_send_lq_cmd is asynchronous and *)
(* a command can fail), the table the firmware runs, and the statuses of  *)
(* frames it sent and mac80211 has yet to deliver to rs_tx_status.        *)
(*                                                                         *)
(* Frames are non-QoS (rs_get_tid returns IWL_MAX_TID_COUNT), so is_agg    *)
(* stays 0 and no aggregation session is started or stopped; transmit-    *)
(* power control is not permitted (rs_tpc_allowed is false), so           *)
(* rs_tpc_perform only keeps reduced_tpc at TPC_NO_REDUCTION.             *)
(***************************************************************************)
EXTENDS RsRateTable, RsWindow, Sequences

CONSTANTS
  IWL_MISSED_RATE_MAX,    \* mismatching statuses tolerated before a resync (15)
  LegacyLimits,           \* [table_count, failure, success] limits in legacy
  NonLegacyLimits,        \* the same for HT/VHT columns
  ZeroRsState,            \* the rs_state whose enum value is 0 (after memset)
  JiffiesMayBeZero,       \* whether rs_set_stay_in_table can read jiffies == 0
  MaxRateInputs,          \* txrc->max_rate_idx values mac80211 hands rs_get_rate
  RssiInputs,             \* best chain RSSI values rs_update_last_rssi can record
  RxChains,               \* antennas (bits) the device receives on: rx_status->chains
  MaxRetries,             \* largest info->status.rates[0].count - 1
  BtMimoStates,           \* values iwl_mvm_bt_coex_is_mimo_allowed can return
  MaxInFlight,            \* bound: statuses awaiting delivery
  MaxLqQueue              \* bound: LQ commands awaiting the firmware

States == {"SEARCH_CYCLE_STARTED", "SEARCH_CYCLE_ENDED", "STAY_IN_COLUMN"}
ASSUME ZeroRsState \in States /\ JiffiesMayBeZero \in BOOLEAN
ASSUME RxChains \subseteq {ANT_A, ANT_B, 4}
ASSUME BtMimoStates \in SUBSET BOOLEAN \ {{}}
ASSUME MaxRetries \in 0..(LINK_QUAL_MAX_RETRY_NUM - 1) /\ MaxRetries <= 15

VARIABLES
  lq_sta,      \* struct iwl_lq_sta of the station
  pers,        \* lq_sta->pers: best chain (antenna bit, 0 if none) and its RSSI
  bt_mimo,     \* iwl_mvm_bt_coex_is_mimo_allowed(mvm, sta)
  lq_queue,    \* LQ commands sent and not yet taken by the firmware
  fw_lq,       \* initial rate of the LQ table the firmware runs
  inflight     \* statuses of sent frames, in delivery order

vars == <<lq_sta, pers, bt_mimo, lq_queue, fw_lq, inflight>>

\* rs.h thresholds, in units of 128 * percent
RS_SR_FORCE_DECREASE == 1920
RS_SR_NO_DECREASE == 10880
S8_MIN == -128

NoRate == [type |-> "NONE", ant |-> 0, sgi |-> FALSE, bw |-> 20, index |-> 0]
NullTpt == <<>>   \* tbl->expected_tpt == NULL

\* A scale table (struct iwl_scale_tbl_info) as memset leaves it.
ZeroTbl == [rate |-> NoRate, column |-> "LEGACY_ANT_A", tpt |-> NullTpt,
            win |-> [i \in RateIdx |-> ClearWindow]]

(* ------------------------- helpers of rs.c ----------------------------- *)
\* get_expected_tpt: 0 through a NULL table
GetExpectedTpt(t, i) == IF t.tpt = NullTpt THEN 0 ELSE t.tpt[i + 1]

\* rs_set_expected_tpt_table (is_agg is 0)
SetExpectedTpt(t) == [t EXCEPT !.tpt = ExpectedTptTable(t.column, t.rate.bw, FALSE)]

\* rs_rate_scale_clear_tbl_windows
ClearTblWindows(t) == [t EXCEPT !.win = [i \in RateIdx |-> ClearWindow]]

\* rs_set_stay_in_table; jz: jiffies read as 0, leaving flush_timer unset
SetStayInTable(s, isLegacy, jz) ==
  LET lim == IF isLegacy THEN LegacyLimits ELSE NonLegacyLimits IN
  [s EXCEPT !.rs_state = "STAY_IN_COLUMN",
            !.table_count_limit = lim[1], !.max_failure_limit = lim[2],
            !.max_success_limit = lim[3],
            !.table_count = 0, !.total_failed = 0, !.total_success = 0,
            !.flush_timer = IF jz THEN "UNSET" ELSE "RUNNING",
            !.visited_columns = {}]

\* rs_stay_in_table: in STAY_IN_COLUMN, start a search cycle when forced,
\* on too many failures or successes, or when the flush interval passed;
\* otherwise count the call and clear the active windows every
\* table_count_limit calls.
StayInTable(s, force) ==
  LET a == s.active_tbl
      t == s.tbl[a]
  IN
  IF s.rs_state # "STAY_IN_COLUMN" THEN s
  ELSE IF \/ force
          \/ s.total_failed > s.max_failure_limit
          \/ s.total_success > s.max_success_limit
          \/ ~s.search_better_tbl /\ s.flush_timer = "EXPIRED"
  THEN [s EXCEPT !.rs_state = "SEARCH_CYCLE_STARTED",
                 !.total_failed = 0, !.total_success = 0,
                 !.flush_timer = "UNSET", !.visited_columns = {t.column},
                 !.tbl[a] = ClearTblWindows(t)]
  ELSE IF s.table_count + 1 >= s.table_count_limit
  THEN [s EXCEPT !.table_count = 0, !.tbl[a] = ClearTblWindows(t)]
  ELSE [s EXCEPT !.table_count = s.table_count + 1]

\* C division of an s32 (truncating) stored into a u16
CDivU16(x, d) == (IF x >= 0 THEN x \div d ELSE -((-x) \div d)) % 65536

\* Mutant of NextColumn: the column's antennas are not checked.
NextColumnAnyAnt(s, t, btMimo, oob) ==
  LET nxt == TxColumns[t.column].next
      tpt == CDivU16(s.last_tpt, 100)
      RECURSIVE Scan(_)
      Scan(i) ==
        IF i > Len(nxt) THEN COLUMN_INVALID
        ELSE LET c   == nxt[i]
                 col == TxColumns[c]
                 max == MaxAllowedRate(col.mode)
             IN  IF \/ c \in s.visited_columns
                    \/ \E chk \in col.checks : ~ColumnCheck(chk, t.rate, btMimo)
                 THEN Scan(i + 1)
                 ELSE IF max >= IWL_RATE_COUNT
                 THEN (IF oob THEN c ELSE Scan(i + 1))
                 ELSE IF tpt >= TptAt(ExpectedTptTable(c, StaBw, FALSE), max)
                 THEN Scan(i + 1)
                 ELSE c
  IN  Scan(1)

\* rs_get_next_column: the first candidate of the current column that is
\* unvisited, has valid antennas, passes its checks and whose best rate is
\* expected to beat last_tpt.  An empty rate mask makes find_last_bit
\* return 64 and expected_tpt_tbl[64] reads past the array: oob is the
\* outcome of that read (whether it beats the current throughput).
NextColumn(s, t, btMimo, oob) ==
  LET nxt == TxColumns[t.column].next
      tpt == CDivU16(s.last_tpt, 100)
      RECURSIVE Scan(_)
      Scan(i) ==
        IF i > Len(nxt) THEN COLUMN_INVALID
        ELSE LET c   == nxt[i]
                 col == TxColumns[c]
                 max == MaxAllowedRate(col.mode)
             IN  IF \/ c \in s.visited_columns
                    \/ ~IsValidAnt(ValidTxAnt, col.ant)
                    \/ \E chk \in col.checks : ~ColumnCheck(chk, t.rate, btMimo)
                 THEN Scan(i + 1)
                 ELSE IF max >= IWL_RATE_COUNT
                 THEN (IF oob THEN c ELSE Scan(i + 1))
                 ELSE IF tpt >= TptAt(ExpectedTptTable(c, StaBw, FALSE), max)
                 THEN Scan(i + 1)
                 ELSE c
  IN  Scan(1)

\* rs_get_best_rate: the lowest rate of the mask whose expected throughput
\* beats the target.  On an empty mask find_first_bit gives 64 and either
\* outcome of the out-of-range read fails the caller's mask test, so the
\* result is IWL_RATE_INVALID.
GetBestRate(s, search, mask) ==
  LET act    == s.tbl[s.active_tbl]
      index  == search.rate.index
      sr     == act.win[index].success_ratio
      target == IF sr > RS_SR_NO_DECREASE THEN 100 * GetExpectedTpt(act, index)
                ELSE s.last_tpt
      RECURSIVE Walk(_)
      Walk(i) ==
        IF i = IWL_RATE_INVALID \/ target < 100 * TptAt(search.tpt, i) THEN i
        ELSE Walk(AdjacentRate(i, mask, search.rate.type).high)
  IN  IF mask = {} THEN IWL_RATE_INVALID ELSE Walk(MinOr(mask, IWL_RATE_INVALID))

\* Mutant of SwitchToColumn: the new column is not marked visited.
SwitchToColumnNoVisit(s, col) ==
  LET a      == s.active_tbl
      c      == TxColumns[col]
      r0     == s.tbl[a].rate
      rate   == [r0 EXCEPT !.sgi = c.sgi, !.ant = c.ant, !.type = c.mode, !.bw = StaBw]
      search == SetExpectedTpt([s.tbl[a] EXCEPT !.rate = rate, !.column = col])
      mask   == SupportedRates(rate)
      best   == GetBestRate(s, search, mask)
  IN  IF TxColumns[s.tbl[a].column].mode = c.mode
      THEN [s |-> [s EXCEPT !.tbl[1 - a] = search], ok |-> TRUE]
      ELSE IF best = IWL_RATE_INVALID \/ best \notin mask
      THEN [s |-> [s EXCEPT !.tbl[1 - a] = [search EXCEPT !.rate.type = "NONE"]], ok |-> FALSE]
      ELSE [s |-> [s EXCEPT !.tbl[1 - a] = [search EXCEPT !.rate.index = best]], ok |-> TRUE]

\* rs_switch_to_column: copy the active table into the search slot, set the
\* column's antennas, SGI, type and width, mark the column visited and, on
\* a change of mode, start at the best rate; on failure the search rate is
\* nullified (LQ_NONE).  Returns the new lq_sta and whether it succeeded.
SwitchToColumn(s, col) ==
  LET a      == s.active_tbl
      c      == TxColumns[col]
      r0     == s.tbl[a].rate
      rate   == [r0 EXCEPT !.sgi = c.sgi, !.ant = c.ant, !.type = c.mode, !.bw = StaBw]
      search == SetExpectedTpt([s.tbl[a] EXCEPT !.rate = rate, !.column = col])
      mask   == SupportedRates(rate)
      s1     == [s EXCEPT !.visited_columns = @ \cup {col}]
      best   == GetBestRate(s1, search, mask)
  IN  IF TxColumns[s.tbl[a].column].mode = c.mode
      THEN [s |-> [s1 EXCEPT !.tbl[1 - a] = search], ok |-> TRUE]
      ELSE IF best = IWL_RATE_INVALID \/ best \notin mask
      THEN [s |-> [s1 EXCEPT !.tbl[1 - a] = [search EXCEPT !.rate.type = "NONE"]], ok |-> FALSE]
      ELSE [s |-> [s1 EXCEPT !.tbl[1 - a] = [search EXCEPT !.rate.index = best]], ok |-> TRUE]

\* rs_get_rate_action: stay, step down (-1) or step up (+1) in the column
GetRateAction(t, sr, low, high, cur, lowTpt, highTpt) ==
  LET inv  == INVALID_VALUE
      none == IWL_RATE_INVALID
      \* the downscale decided after the label out, unless vetoed
      out  == IF low # none /\ (sr >= RS_SR_NO_DECREASE \/ cur > 100 * TptAt(t.tpt, low))
              THEN 0 ELSE -1
  IN
  IF sr <= RS_SR_FORCE_DECREASE \/ cur = 0 THEN -1
  ELSE IF lowTpt = inv /\ highTpt = inv /\ high # none THEN 1
  ELSE IF highTpt = inv /\ high # none /\ lowTpt # inv /\ lowTpt < cur THEN 1
  ELSE IF highTpt # inv /\ highTpt > cur THEN 1
  ELSE IF lowTpt # inv /\ highTpt # inv /\ lowTpt < cur /\ highTpt < cur THEN 0
  ELSE IF lowTpt # inv /\ lowTpt > cur THEN out
  ELSE IF lowTpt = inv /\ low # none THEN out
  ELSE 0

\* rs_tpc_perform in a configuration where rs_tpc_allowed is false (power
\* management off and BT coex forbidding TPC): reduced_tpc is set to
\* TPC_NO_REDUCTION, which it already is since rs_initialize_lq, so no LQ
\* update is asked for.  The power-control loop itself is RsTpcSpec.
TpcPerform(s, t) == FALSE

\* Mutant of UpdateRateTbl: the command is sent but lq is not rebuilt.
UpdateRateTblNoLq(r, rate) == [r EXCEPT !.send = TRUE]

\* rs_update_rate_tbl / rs_fill_lq_cmd + iwl_mvm_send_lq_cmd: lq is the
\* initial rate of the table built (BuildRatesTable(lq)); send marks the
\* command handed to the firmware.
UpdateRateTbl(r, rate) == [r EXCEPT !.s.lq = rate, !.send = TRUE]

\* A finished search cycle stays in the best column (rs_set_stay_in_table,
\* legacy or not); the label out records the index in use.
LqOut(s, send, index, done, jz) ==
  LET s6 == IF done /\ s.rs_state = "SEARCH_CYCLE_ENDED"
            THEN SetStayInTable(s, IsLegacy(s.tbl[s.active_tbl].rate), jz)
            ELSE s
  IN  [s |-> [s6 EXCEPT !.last_txrate_idx = index], send |-> send]

\* A new search table gets clear windows and its rate is programmed;
\* without one the search is done.
LqSwitch(s, send, index, done, jz) ==
  IF s.search_better_tbl
  THEN LET srch == 1 - s.active_tbl
           s5   == [s EXCEPT !.tbl[srch] = ClearTblWindows(s.tbl[srch])]
       IN  LqOut([s5 EXCEPT !.lq = s5.tbl[srch].rate], TRUE, s5.tbl[srch].rate.index, done, jz)
  ELSE LqOut(s, send, index, TRUE, jz)

\* Switch to the column rs_get_next_column chose (a search trial when it
\* succeeds), or end the search cycle when there is none.
SearchNextColumn(s, nc) ==
  IF nc = COLUMN_INVALID THEN [s EXCEPT !.rs_state = "SEARCH_CYCLE_ENDED"]
  ELSE LET sw == SwitchToColumn(s, nc) IN [sw.s EXCEPT !.search_better_tbl = sw.ok]

\* Start looking for a new column when the rate is not being changed, no
\* search just finished, a search cycle is open and the window has history.
LqSearch(s, send, tb, index, update, done, wt, wi, cur, btMimo, oob, jz) ==
  IF ~update /\ ~done /\ s.rs_state = "SEARCH_CYCLE_STARTED" /\ s.tbl[wt].win[wi].counter > 0
  THEN LqSwitch(SearchNextColumn([s EXCEPT !.last_tpt = cur],
                                 NextColumn([s EXCEPT !.last_tpt = cur], s.tbl[tb], btMimo, oob)),
                send, index, done, jz)
  ELSE LqOut(s, send, index, done, jz)

\* The tail of rs_rate_scale_perform from the label lq_update: program the
\* new index (rs_update_rate_tbl), then re-evaluate stay-in-table.
\* tb is the table in use, (wt, wi) the window read, cur the current tpt.
LqUpdate(s0, tb, index, update, done, wt, wi, cur, btMimo, oob, jz) ==
  LET r1 == IF update
            THEN UpdateRateTbl([s |-> [s0 EXCEPT !.tbl[tb].rate.index = index], send |-> FALSE],
                               [s0.tbl[tb].rate EXCEPT !.index = index])
            ELSE [s |-> s0, send |-> FALSE]
  IN  LqSearch(StayInTable(r1.s, FALSE), r1.send, tb, index, update, done, wt, wi, cur,
               btMimo, oob, jz)

\* The judgement of a finished search trial (s1 holds the refreshed
\* average_tpt of window (a, index)): a better throughput makes the search
\* table active; otherwise it is nullified and the active rate reprogrammed.
\* Either way the search is done.
JudgeSearch(s, s1, a, index, avg, btMimo, oob, jz) ==
  IF avg > s.last_tpt
  THEN LqUpdate([s1 EXCEPT !.active_tbl = a, !.search_better_tbl = FALSE],
                a, index, FALSE, TRUE, a, index, avg, btMimo, oob, jz)
  ELSE LET b  == s.active_tbl
           s2 == [s1 EXCEPT !.tbl[a].rate.type = "NONE", !.search_better_tbl = FALSE]
       IN  LqUpdate(s2, b, s2.tbl[b].rate.index, TRUE, TRUE, a, index, s.last_tpt,
                    btMimo, oob, jz)

\* The in-column action: the adjacent rates in the mask (the higher one
\* capped by the user's maximum), their throughputs, rs_get_rate_action;
\* MIMO that BT coex forbids forces a search instead; a step down or up
\* that has a rate to go to reprograms the table, a stay in
\* STAY_IN_COLUMN asks rs_tpc_perform.
ColumnAction(s, s1, a, index, avg, btMimo, oob, jz) ==
  LET t     == s.tbl[a]
      w     == t.win[index]
      adj   == AdjacentRate(index, SupportedRates(t.rate), t.rate.type)
      low   == adj.low
      high  == IF s.max_rate_idx # -1 /\ s.max_rate_idx < adj.high
               THEN IWL_RATE_INVALID ELSE adj.high
      lowTpt  == IF low # IWL_RATE_INVALID THEN t.win[low].average_tpt ELSE INVALID_VALUE
      highTpt == IF high # IWL_RATE_INVALID THEN t.win[high].average_tpt ELSE INVALID_VALUE
      act   == GetRateAction(t, w.success_ratio, low, high, avg, lowTpt, highTpt)
      newIx == CASE act = -1 /\ low # IWL_RATE_INVALID -> low
              [] act = 1 /\ high # IWL_RATE_INVALID -> high
              [] OTHER -> index
      upd   == CASE act = -1 -> low # IWL_RATE_INVALID
              [] act = 1 -> high # IWL_RATE_INVALID
              [] OTHER -> s.rs_state = "STAY_IN_COLUMN" /\ TpcPerform(s1, t)
  IN  IF IsMimo(t.rate) /\ ~btMimo
      THEN LqUpdate(StayInTable(s1, TRUE), a, index, FALSE, FALSE, a, index, avg, btMimo, oob, jz)
      ELSE LqUpdate(s1, a, newIx, upd, FALSE, a, index, avg, btMimo, oob, jz)

\* rs_rate_scale_perform up to the judgement of the window: pick the table
\* in use, give up on an index outside its mask (dropping a search table) or
\* a NULL throughput table, force the user's maximum rate, wait for enough
\* history, refresh average_tpt, then judge a search trial or act in the
\* column.
RateScalePerform(s, btMimo, oob, jz) ==
  LET a     == IF ~s.search_better_tbl THEN s.active_tbl ELSE 1 - s.active_tbl
      t     == s.tbl[a]
      index == s.last_txrate_idx
      w     == t.win[index]
      avg   == AverageTpt(w.success_ratio, TptAt(t.tpt, index))
      s1    == [s EXCEPT !.tbl[a].win[index].average_tpt = avg]
  IN
  IF index \notin SupportedRates(t.rate)
  THEN IF s.search_better_tbl
       THEN LET s2 == [s EXCEPT !.tbl[a].rate.type = "NONE", !.search_better_tbl = FALSE]
            IN  [s |-> [s2 EXCEPT !.lq = s2.tbl[s2.active_tbl].rate], send |-> TRUE]
       ELSE [s |-> s, send |-> FALSE]
  ELSE IF t.tpt = NullTpt THEN [s |-> s, send |-> FALSE]
  ELSE IF s.max_rate_idx # -1 /\ s.max_rate_idx < index
  THEN LqUpdate(s, a, s.max_rate_idx, TRUE, FALSE, a, s.max_rate_idx,
                INVALID_VALUE, btMimo, oob, jz)
  ELSE IF ~EnoughHistory(w)
  THEN LET s2 == StayInTable([s EXCEPT !.tbl[a].win[index].average_tpt = INVALID_VALUE], FALSE)
       IN  [s |-> [s2 EXCEPT !.last_txrate_idx = index], send |-> FALSE]
  ELSE IF s.search_better_tbl THEN JudgeSearch(s, s1, a, index, avg, btMimo, oob, jz)
  ELSE ColumnAction(s, s1, a, index, avg, btMimo, oob, jz)

\* The legacy branch of rs_tx_status: each try i <= retries was sent at
\* rs_table[i] of the table rt built from the LQ; it counts in the window of
\* that rate in whichever table (current first) has its type, antennas and
\* SGI, a success only for the last try of an acknowledged frame.
RECURSIVE CollectTries(_, _, _, _, _, _, _)
CollectTries(x, rt, cur, oth, retries, ack, i) ==
  IF i > retries THEN x
  ELSE LET e    == rt[i + 1]
           tb   == IF RateMatch(e, x.tbl[cur].rate) THEN cur
                   ELSE IF RateMatch(e, x.tbl[oth].rate) THEN oth ELSE -1
           succ == IF i = retries /\ ack THEN 1 ELSE 0
       IN  CollectTries(IF tb = -1 THEN x
                        ELSE [x EXCEPT !.tbl[tb].win[e.index] =
                                CollectTxData(@, 1, succ, GetExpectedTpt(x.tbl[tb], e.index))],
                        rt, cur, oth, retries, ack, i + 1)

CollectRetries(s, cur, oth, retries, ack) ==
  CollectTries(s, BuildRatesTable(s.lq), cur, oth, retries, ack, 0)

\* Outside a search cycle the status also counts toward the stay-in-column
\* success and failure limits.
CountTotals(s, retries, ack) ==
  IF s.rs_state = "STAY_IN_COLUMN"
  THEN [s EXCEPT !.total_success = @ + (IF ack THEN 1 ELSE 0),
                 !.total_failed = @ + retries + (IF ack THEN 0 ELSE 1)]
  ELSE s

\* Mutant of MissedRate: the counter is not reset by the resync.
MissedRateNoReset(s) ==
  LET resync == s.missed_rate_counter + 1 > IWL_MISSED_RATE_MAX IN
  [s |-> [s EXCEPT !.missed_rate_counter = @ + 1], send |-> resync]

\* Mutant of MissedRate: every mismatch clears the counter instead of
\* counting towards the resync.
MissedRateClear(s) ==
  [s |-> [s EXCEPT !.missed_rate_counter = 0],
   send |-> s.missed_rate_counter + 1 > IWL_MISSED_RATE_MAX]

\* The mismatch branch of rs_tx_status: count the status of an outdated
\* rate and, past IWL_MISSED_RATE_MAX of them, resend the LQ command.
MissedRate(s) ==
  LET resync == s.missed_rate_counter + 1 > IWL_MISSED_RATE_MAX IN
  [s |-> [s EXCEPT !.missed_rate_counter = IF resync THEN 0 ELSE @ + 1], send |-> resync]

(* -------------------------- (re)initialisation ------------------------- *)
\* rs_init_rates_24ghz / rs_init_rates_5ghz: <<rssi, rate index>>
InitRates ==
  IF Band = "5GHZ"
  THEN <<<<-60, 11>>, <<-64, 10>>, <<-72, 9>>, <<-80, 8>>, <<-84, 7>>, <<-85, 6>>,
         <<-87, 5>>, <<S8_MIN, 4>>>>
  ELSE <<<<-60, 11>>, <<-64, 10>>, <<-68, 9>>, <<-80, 8>>, <<-84, 7>>, <<-85, 6>>,
         <<-86, 3>>, <<-88, 2>>, <<-90, 1>>, <<S8_MIN, 0>>>>

\* rs_get_initial_rate: the strongest chain's antenna (or the first valid
\* one) and the first entry of the band's table the RSSI reaches and the
\* legacy mask allows, else the band's lowest rate.
GetInitialRate(p) ==
  LET ok  == {i \in 1..Len(InitRates) : p.rssi >= InitRates[i][1]
                                       /\ InitRates[i][2] \in ActiveLegacyRate}
      idx == IF ok = {} THEN (IF Band = "5GHZ" THEN RATE_6M_INDEX ELSE 0)
             ELSE InitRates[MinOr(ok, 0)][2]
  IN  [type |-> "LEGACY", sgi |-> FALSE, bw |-> 20, index |-> idx,
       ant |-> IF p.ant # ANT_A /\ p.ant # ANT_B THEN FirstAntenna(ValidTxAnt) ELSE p.ant]

\* iwl_mvm_rs_rate_init: clear the non-persistent lq_sta (memset), reset the
\* windows, counters and timers, then rs_initialize_lq: the initial legacy
\* rate in table 0, its column and throughput table, and the LQ built on it.
RsRateInit(p) ==
  LET rate == GetInitialRate(p)
      t0   == SetExpectedTpt([ZeroTbl EXCEPT !.rate = rate,
                 !.column = IF rate.ant = ANT_A THEN "LEGACY_ANT_A" ELSE "LEGACY_ANT_B"])
  IN  [rs_state |-> ZeroRsState, active_tbl |-> 0, search_better_tbl |-> FALSE,
       tbl |-> [i \in {0, 1} |-> IF i = 0 THEN t0 ELSE ZeroTbl],
       visited_columns |-> {}, total_success |-> 0, total_failed |-> 0,
       table_count |-> 0, table_count_limit |-> 0, max_failure_limit |-> 0,
       max_success_limit |-> 0, flush_timer |-> "UNSET", idle |-> FALSE,
       last_tpt |-> 0, last_txrate_idx |-> rate.index,
       missed_rate_counter |-> IWL_MISSED_RATE_MAX, max_rate_idx |-> -1, lq |-> rate]

NoChain == [ant |-> 0, rssi |-> S8_MIN]   \* rs_alloc_sta: no chain seen yet

\* Outcomes of undefined reads: the out-of-range expected_tpt read happens
\* only with an empty rate mask; jiffies == 0 only where it may wrap there.
OobChoices == IF {} \in {ActiveLegacyRate, ActiveSisoRate, ActiveMimo2Rate}
              THEN BOOLEAN ELSE {FALSE}
JzChoices == IF JiffiesMayBeZero THEN BOOLEAN ELSE {FALSE}

\* Hand the LQ command of a handler to the firmware queue.
SendLq(r) ==
  /\ r.send => Len(lq_queue) < MaxLqQueue
  /\ lq_queue' = IF r.send THEN Append(lq_queue, r.s.lq) ELSE lq_queue

\* The lq_sta a handler leaves behind, and its LQ command, if any, handed
\* to the firmware queue.
Commit(r) ==
  /\ lq_sta' = r.s
  /\ SendLq(r)

Init ==
  /\ pers = NoChain
  /\ lq_sta = RsRateInit(NoChain)
  /\ bt_mimo \in BtMimoStates
  /\ lq_queue = <<>>
  /\ fw_lq = lq_sta.lq          \* the first LQ command is sent synchronously
  /\ inflight = <<>>

(* ------------------------------ actions -------------------------------- *)
\* rs_tx_status for the oldest undelivered status st: an idle station is
\* re-initialised; a status whose initial rate is not that of the LQ table
\* is dropped, counting towards a resync; otherwise the tries are counted
\* in the matching table (or a search is forced when none matches) and
\* rs_rate_scale_perform runs.
RsTxStatus ==
  /\ inflight # <<>>
  /\ inflight' = Tail(inflight)
  /\ UNCHANGED <<pers, bt_mimo, fw_lq>>
  /\ LET st == Head(inflight)
         s  == [lq_sta EXCEPT !.idle = FALSE]
         a  == s.active_tbl
     IN
     IF lq_sta.idle
     THEN Commit([s |-> RsRateInit(pers), send |-> TRUE])
     ELSE IF st.rate # FromUcode(s.lq)
     THEN Commit(MissedRate(s))
     ELSE \E oob \in OobChoices, jz \in JzChoices :
          LET s0  == [s EXCEPT !.missed_rate_counter = 0]
              cur == IF RateMatch(st.rate, s0.tbl[a].rate) THEN a
                     ELSE IF RateMatch(st.rate, s0.tbl[1 - a].rate) THEN 1 - a ELSE -1
          IN  Commit(IF cur = -1
                     THEN RateScalePerform(StayInTable(s0, TRUE), bt_mimo, oob, jz)
                     ELSE RateScalePerform(CountTotals(CollectRetries(s0, cur, 1 - cur,
                                                                      st.retries, st.ack),
                                                       st.retries, st.ack),
                                           bt_mimo, oob, jz))

\* The firmware sends a frame with its table; mac80211 will report its
\* initial rate, the number of retries and the final ack.
FwTransmit ==
  /\ Len(inflight) < MaxInFlight
  /\ \E retries \in 0..MaxRetries, ack \in BOOLEAN :
       inflight' = Append(inflight, [rate |-> FromUcode(fw_lq), retries |-> retries, ack |-> ack])
  /\ UNCHANGED <<lq_sta, pers, bt_mimo, lq_queue, fw_lq>>

\* The firmware takes the oldest LQ command.
FwApplyLq ==
  /\ lq_queue # <<>>
  /\ fw_lq' = Head(lq_queue)
  /\ lq_queue' = Tail(lq_queue)
  /\ UNCHANGED <<lq_sta, pers, bt_mimo, inflight>>

\* An asynchronous LQ command fails and is lost.
FwDropLq ==
  /\ lq_queue # <<>>
  /\ lq_queue' = Tail(lq_queue)
  /\ UNCHANGED <<lq_sta, pers, bt_mimo, fw_lq, inflight>>

\* Time passes: RS_STAY_IN_COLUMN_TIMEOUT after flush_timer, or
\* RS_IDLE_TIMEOUT after last_tx.
Tick ==
  /\ \/ /\ lq_sta.flush_timer = "RUNNING"
        /\ lq_sta' = [lq_sta EXCEPT !.flush_timer = "EXPIRED"]
     \/ /\ ~lq_sta.idle
        /\ lq_sta' = [lq_sta EXCEPT !.idle = TRUE]
  /\ UNCHANGED <<pers, bt_mimo, lq_queue, fw_lq, inflight>>

\* rs_rate_update: the station's rate configuration changed (no
\* aggregation session is open); iwl_mvm_rs_rate_init runs again.
RsRateUpdate ==
  /\ lq_sta' = RsRateInit(pers)
  /\ SendLq([s |-> lq_sta', send |-> TRUE])
  /\ UNCHANGED <<pers, bt_mimo, fw_lq, inflight>>

\* rs_get_rate records the user's maximum rate, shifted past the CCK rates
\* on 5GHz and dropped when out of range.
RsGetRate ==
  /\ \E m \in MaxRateInputs :
       LET v == IF Band = "5GHZ" /\ m # -1 THEN m + 4 ELSE m IN
       lq_sta' = [lq_sta EXCEPT !.max_rate_idx =
                    IF v < 0 \/ v >= IWL_RATE_COUNT THEN -1 ELSE v]
  /\ UNCHANGED <<pers, bt_mimo, lq_queue, fw_lq, inflight>>

\* rs_update_last_rssi: the chains and their signal of the last frame
RsUpdateLastRssi ==
  /\ pers' \in {NoChain} \cup [ant : RxChains, rssi : RssiInputs]
  /\ UNCHANGED <<lq_sta, bt_mimo, lq_queue, fw_lq, inflight>>

\* BT coexistence starts or stops forbidding MIMO.
BtCoexChange ==
  /\ bt_mimo' \in BtMimoStates \ {bt_mimo}
  /\ UNCHANGED <<lq_sta, pers, lq_queue, fw_lq, inflight>>

Next ==
  \/ RsTxStatus
  \/ FwTransmit
  \/ FwApplyLq
  \/ FwDropLq
  \/ Tick
  \/ RsRateUpdate
  \/ RsGetRate
  \/ RsUpdateLastRssi
  \/ BtCoexChange

Spec == Init /\ [][Next]_vars

\* The step every rs_tx_status takes and no other action does: the oldest
\* pending status is consumed.
StatusConsumed == inflight # <<>> /\ inflight' = Tail(inflight)

\* The firmware keeps transmitting and takes or loses each LQ command;
\* mac80211 reports every status to rs_tx_status: a status pending again
\* and again is consumed again and again (strong fairness, stated on the
\* consuming step since a handler that must queue an LQ waits for the
\* queue).  The callbacks, timeouts and BT coex are not assumed to happen.
Fairness ==
  /\ WF_vars(FwTransmit)
  /\ WF_vars(FwApplyLq)
  /\ []<>(inflight # <<>>) => []<><<StatusConsumed>>_vars

LiveSpec == Spec /\ Fairness

(* ----------------------------- properties ------------------------------ *)
Tbl == [rate : RateRec, column : Columns, tpt : {NullTpt} \cup Seq(Nat),
        win : [RateIdx -> Window]]

TypeOK ==
  /\ lq_sta \in [rs_state : States, active_tbl : {0, 1}, search_better_tbl : BOOLEAN,
                 tbl : [{0, 1} -> Tbl], visited_columns : SUBSET Columns,
                 total_success : Nat, total_failed : Nat, table_count : Nat,
                 table_count_limit : Nat, max_failure_limit : Nat, max_success_limit : Nat,
                 flush_timer : {"UNSET", "RUNNING", "EXPIRED"}, idle : BOOLEAN,
                 last_tpt : Int, last_txrate_idx : RateIdx,
                 missed_rate_counter : 0..IWL_MISSED_RATE_MAX,
                 max_rate_idx : {-1} \cup RateIdx, lq : RateRec]
  /\ pers \in {NoChain} \cup [ant : RxChains, rssi : RssiInputs]
  /\ bt_mimo \in BOOLEAN
  /\ lq_queue \in Seq(RateRec) /\ fw_lq \in RateRec
  /\ inflight \in Seq([rate : RateRec, retries : 0..MaxRetries, ack : BOOLEAN])

\* The table rs_rate_scale_perform works with: the search table during a trial.
InUse == IF lq_sta.search_better_tbl THEN 1 - lq_sta.active_tbl ELSE lq_sta.active_tbl

(***************************************************************************)
(* Between events, the LQ table the driver last built (and will resend on *)
(* a resync) starts at exactly the rate of the table rate scaling works   *)
(* with, and last_txrate_idx, the index the next rs_rate_scale_perform    *)
(* reads windows for, is that rate's index: every path of rs_tx_status /  *)
(* rs_rate_scale_perform that moves a rate, swaps or drops a search table *)
(* rebuilds the LQ and records the index.                                 *)
(***************************************************************************)
LqTracksTableInUse ==
  /\ lq_sta.lq = lq_sta.tbl[InUse].rate
  /\ lq_sta.last_txrate_idx = lq_sta.tbl[InUse].rate.index

(***************************************************************************)
(* The table in use always starts at a rate the station supports in that  *)
(* table's mode (spec: every rate programmed is drawn from a supported    *)
(* mask), so rs_rate_scale_perform never stops at "Current Rate is not    *)
(* valid".                                                                *)
(***************************************************************************)
RateInUseSupported == RateSupported(lq_sta.tbl[InUse].rate)

(***************************************************************************)
(* Every LQ table the driver builds, queues for the firmware or has the   *)
(* firmware run starts on antennas the device can transmit on             *)
(* (valid_tx_ant): neither the RSSI-chosen antenna of rs_get_initial_rate *)
(* nor a column picked by rs_get_next_column may name another one.        *)
(***************************************************************************)
TxAntennasValid ==
  \A r \in {lq_sta.lq, fw_lq} \cup {lq_queue[i] : i \in DOMAIN lq_queue} :
    IsValidAnt(ValidTxAnt, r.ant)

(***************************************************************************)
(* A search trial (search_better_tbl) only runs inside a search cycle, on *)
(* a column other than the active one that the cycle has marked visited, *)
(* with a real (not LQ_NONE) rate; and no handler ever leaves rs_state in *)
(* SEARCH_CYCLE_ENDED, which rs_rate_scale_perform closes at once.        *)
(***************************************************************************)
SearchTrialCoherent ==
  /\ lq_sta.rs_state # "SEARCH_CYCLE_ENDED"
  /\ lq_sta.search_better_tbl =>
       LET srch == lq_sta.tbl[1 - lq_sta.active_tbl] IN
       /\ lq_sta.rs_state = "SEARCH_CYCLE_STARTED"
       /\ srch.column \in lq_sta.visited_columns
       /\ srch.column # lq_sta.tbl[lq_sta.active_tbl].column
       /\ srch.rate.type # "NONE"

(***************************************************************************)
(* Unless LQ commands keep failing forever, the firmware runs the driver's *)
(* LQ table again and again: a lost command makes the statuses mismatch    *)
(* lq.rs_table[0], and after IWL_MISSED_RATE_MAX mismatches rs_tx_status   *)
(* resends lq_sta->lq, so the two never stay apart.                       *)
(***************************************************************************)
LqResynced == []<><<FwDropLq>>_vars \/ []<>(fw_lq = lq_sta.lq)

\* The steps that put a station back at the start of a search cycle
\* (iwl_mvm_rs_rate_init from rs_rate_update or after the idle timeout, and
\* BT coex forbidding MIMO).
Restart == RsRateUpdate \/ (Tick /\ ~lq_sta.idle /\ lq_sta'.idle) \/ BtCoexChange

(***************************************************************************)
(* Unless the station is restarted or an LQ command is lost again and      *)
(* again, every search cycle ends: each rs_rate_scale_perform in           *)
(* SEARCH_CYCLE_STARTED with history and no rate change tries the next     *)
(* column rs_get_next_column finds unvisited, rs_switch_to_column marks it *)
(* visited, and the cycle ends when none is left -- the rate changes in    *)
(* between do not postpone it for ever.                                    *)
(***************************************************************************)
SearchCycleEnds ==
  \/ []<><<Restart \/ FwDropLq>>_vars
  \/ lq_sta.rs_state = "SEARCH_CYCLE_STARTED" ~> lq_sta.rs_state # "SEARCH_CYCLE_STARTED"

=============================================================================
