-------------------------------- MODULE RsTpc --------------------------------
(***************************************************************************)
(* Transmit power control of rs.c: the choice of lq.reduced_tpc, the      *)
(* power reduction the firmware applies to every frame of the LQ table,   *)
(* from the per-level windows tbl->tpc_win[].  Levels are reductions in   *)
(* steps of TPC_TX_POWER_STEP from TPC_NO_REDUCTION up to                  *)
(* TPC_MAX_REDUCTION.  Operators only; RsTpcSpec drives them.              *)
(***************************************************************************)
EXTENDS RsWindow

CONSTANTS
  TPC_MAX_REDUCTION,  \* rs.h: largest reduction, last index of tpc_win (15)
  TPC_TX_POWER_STEP   \* rs.h: reduction between adjacent levels (3)

ASSUME TPC_MAX_REDUCTION \in 1..254 /\ TPC_TX_POWER_STEP \in 1..TPC_MAX_REDUCTION

\* rs.h thresholds on the success ratio (128 * percent) and sentinels
TPC_SR_FORCE_INCREASE == 9600
TPC_SR_NO_INCREASE == 10880
TPC_INVALID == 255
TPC_NO_REDUCTION == 0

\* The indices of tbl->tpc_win (TPC_MAX_REDUCTION + 1 windows).
Levels == 0..TPC_MAX_REDUCTION

\* rs_get_adjacent_txp: one step more (weak) and one step less (strong)
\* reduction, TPC_INVALID past either end.
GetAdjacentTxp(index) ==
  [weak   |-> IF index + TPC_TX_POWER_STEP > TPC_MAX_REDUCTION
              THEN TPC_INVALID ELSE index + TPC_TX_POWER_STEP,
   strong |-> IF index - TPC_TX_POWER_STEP < 0
              THEN TPC_INVALID ELSE index - TPC_TX_POWER_STEP]

\* rs_tpc_allowed: powerOk is FALSE exactly when power management is off
\* (CAM scheme or a station without power save) and BT coex forbids TPC;
\* otherwise only the probe rate of the rate's class may reduce power:
\* 54M, HT MCS7, or VHT MCS7..9 (indices 11, 12, 12..14).
TpcAllowed(type, index, isVht, powerOk) ==
  /\ powerOk
  /\ CASE type = "LEGACY" -> index = 11
       [] type \in {"SISO", "MIMO2"} /\ ~isVht -> index = 12
       [] type \in {"SISO", "MIMO2"} /\ isVht -> index \in 12..14
       [] OTHER -> FALSE

\* rs_get_tpc_action
GetTpcAction(sr, weak, strong, cur, weakTpt, strongTpt) ==
  LET inv == INVALID_VALUE IN
  IF cur = inv THEN "STAY"
  ELSE IF sr <= TPC_SR_FORCE_INCREASE \/ cur = 0 THEN "NO_RESTRICTION"
  ELSE IF /\ weak # TPC_INVALID
          /\ \/ weakTpt = inv /\ (strongTpt = inv \/ cur >= strongTpt)
             \/ weakTpt > cur
  THEN "DECREASE"
  ELSE IF /\ sr < TPC_SR_NO_INCREASE /\ strong # TPC_INVALID
          /\ \/ weakTpt = inv /\ strongTpt # inv /\ cur < strongTpt
             \/ weakTpt < cur /\ (strongTpt = inv \/ strongTpt > cur)
  THEN "INCREASE"
  ELSE "STAY"

\* Mutant of TpcPerform: removing the restriction stores TPC_INVALID
\* instead of TPC_NO_REDUCTION.
TpcPerformInvalidReset(cur, win, allowed) ==
  IF ~allowed THEN [tpc |-> TPC_NO_REDUCTION, update |-> cur # TPC_NO_REDUCTION]
  ELSE LET adj == GetAdjacentTxp(cur)
           wT  == IF adj.weak # TPC_INVALID THEN win[adj.weak].average_tpt ELSE INVALID_VALUE
           sT  == IF adj.strong # TPC_INVALID THEN win[adj.strong].average_tpt ELSE INVALID_VALUE
           act == GetTpcAction(win[cur].success_ratio, adj.weak, adj.strong,
                               win[cur].average_tpt, wT, sT)
       IN  CASE act = "DECREASE" /\ adj.weak # TPC_INVALID -> [tpc |-> adj.weak, update |-> TRUE]
             [] act = "INCREASE" /\ adj.strong # TPC_INVALID -> [tpc |-> adj.strong, update |-> TRUE]
             [] act = "NO_RESTRICTION" /\ adj.strong # TPC_INVALID ->
                  [tpc |-> TPC_INVALID, update |-> TRUE]
             [] OTHER -> [tpc |-> cur, update |-> FALSE]

\* Mutant of TpcPerform: a decrease of power is stored in reduced_tpc but
\* not reported as an LQ update.
TpcPerformSilentDecrease(cur, win, allowed) ==
  IF ~allowed THEN [tpc |-> TPC_NO_REDUCTION, update |-> cur # TPC_NO_REDUCTION]
  ELSE LET adj == GetAdjacentTxp(cur)
           wT  == IF adj.weak # TPC_INVALID THEN win[adj.weak].average_tpt ELSE INVALID_VALUE
           sT  == IF adj.strong # TPC_INVALID THEN win[adj.strong].average_tpt ELSE INVALID_VALUE
           act == GetTpcAction(win[cur].success_ratio, adj.weak, adj.strong,
                               win[cur].average_tpt, wT, sT)
       IN  CASE act = "DECREASE" /\ adj.weak # TPC_INVALID -> [tpc |-> adj.weak, update |-> FALSE]
             [] act = "INCREASE" /\ adj.strong # TPC_INVALID -> [tpc |-> adj.strong, update |-> TRUE]
             [] act = "NO_RESTRICTION" /\ adj.strong # TPC_INVALID ->
                  [tpc |-> TPC_NO_REDUCTION, update |-> TRUE]
             [] OTHER -> [tpc |-> cur, update |-> FALSE]

\* rs_tpc_perform (the debugfs fixed reduction is TPC_INVALID, as set by
\* rs_alloc_sta): without permission drop any reduction; otherwise act on
\* the windows of the current level and its neighbours, a decrease at the
\* weakest or an increase at the strongest level being turned into a stay.
\* Returns the new lq.reduced_tpc and whether the LQ must be resent.
TpcPerform(cur, win, allowed) ==
  IF ~allowed THEN [tpc |-> TPC_NO_REDUCTION, update |-> cur # TPC_NO_REDUCTION]
  ELSE LET adj == GetAdjacentTxp(cur)
           wT  == IF adj.weak # TPC_INVALID THEN win[adj.weak].average_tpt ELSE INVALID_VALUE
           sT  == IF adj.strong # TPC_INVALID THEN win[adj.strong].average_tpt ELSE INVALID_VALUE
           act == GetTpcAction(win[cur].success_ratio, adj.weak, adj.strong,
                               win[cur].average_tpt, wT, sT)
       IN  CASE act = "DECREASE" /\ adj.weak # TPC_INVALID -> [tpc |-> adj.weak, update |-> TRUE]
             [] act = "INCREASE" /\ adj.strong # TPC_INVALID -> [tpc |-> adj.strong, update |-> TRUE]
             [] act = "NO_RESTRICTION" /\ adj.strong # TPC_INVALID ->
                  [tpc |-> TPC_NO_REDUCTION, update |-> TRUE]
             [] OTHER -> [tpc |-> cur, update |-> FALSE]

\* The tpc_win half of rs_collect_tx_data: a status whose reduced_txp is
\* past the last window is refused (WARN_ON_ONCE, -EINVAL).
CollectTpcData(win, reducedTxp, attempts, successes, tpt) ==
  IF reducedTxp > TPC_MAX_REDUCTION THEN win
  ELSE [win EXCEPT ![reducedTxp] = CollectTxData(@, attempts, successes, tpt)]

=============================================================================
