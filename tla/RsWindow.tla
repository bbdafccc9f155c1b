------------------------------ MODULE RsWindow ------------------------------
(***************************************************************************)
(* Sliding-window success statistics of the iwlwifi mvm rate-scaling      *)
(* engine (rs.c): the per-rate and per-power-level history window, its    *)
(* update by a batch of attempts (_rs_collect_tx_data) and its reset      *)
(* (rs_rate_scale_clear_window).  Operators only: the window is a record  *)
(* value that RsWindowSpec and RsEngine keep in their state.              *)
(***************************************************************************)
EXTENDS Integers

CONSTANTS
  RATE_MAX_WINDOW,      \* IWL_RATE_MAX_WINDOW: attempts kept (62 in rs.c)
  RATE_MIN_FAILURE_TH,  \* IWL_RATE_MIN_FAILURE_TH: failures before a tpt estimate (3)
  RATE_MIN_SUCCESS_TH   \* IWL_RATE_MIN_SUCCESS_TH: successes before a tpt estimate (8)

ASSUME RATE_MAX_WINDOW \in 1..62
ASSUME RATE_MIN_FAILURE_TH \in 1..RATE_MAX_WINDOW
ASSUME RATE_MIN_SUCCESS_TH \in 1..RATE_MAX_WINDOW

\* IWL_INVALID_VALUE of rs.h: the "no estimate" value of success_ratio and
\* average_tpt.  It is a plain integer and takes part in comparisons.
INVALID_VALUE == -1

\* window->data is a u64 bitmap; bit RATE_MAX_WINDOW-1 is the oldest attempt.
\* The oldest bit is cleared before each shift, so the bitmap stays below
\* 2^RATE_MAX_WINDOW <= 2^62 and the u64 shift never drops a bit.
OldestBit == 2^(RATE_MAX_WINDOW - 1)

Window == [data : 0..(2^RATE_MAX_WINDOW - 1), success_counter : 0..RATE_MAX_WINDOW,
           success_ratio : {INVALID_VALUE} \cup 0..12800,
           counter : 0..RATE_MAX_WINDOW, average_tpt : Int]

\* rs_rate_scale_clear_window
ClearWindow ==
  [data |-> 0, success_counter |-> 0, success_ratio |-> INVALID_VALUE,
   counter |-> 0, average_tpt |-> INVALID_VALUE]

\* Mutant of EvictOldest: the evicted success is not taken off
\* success_counter.
EvictOldestKeepCount(w) ==
  IF w.counter >= RATE_MAX_WINDOW
  THEN IF (w.data \div OldestBit) % 2 = 1
       THEN [w EXCEPT !.counter = RATE_MAX_WINDOW - 1, !.data = w.data - OldestBit]
       ELSE [w EXCEPT !.counter = RATE_MAX_WINDOW - 1]
  ELSE w

\* One iteration of the while (attempts > 0) loop of _rs_collect_tx_data:
\* evict the oldest attempt of a full window, then shift in one attempt,
\* a success while successes remain.
EvictOldest(w) ==
  IF w.counter >= RATE_MAX_WINDOW
  THEN IF (w.data \div OldestBit) % 2 = 1
       THEN [w EXCEPT !.counter = RATE_MAX_WINDOW - 1,
                      !.data = w.data - OldestBit,
                      !.success_counter = w.success_counter - 1]
       ELSE [w EXCEPT !.counter = RATE_MAX_WINDOW - 1]
  ELSE w

ShiftIn(w, success) ==
  [w EXCEPT !.counter = w.counter + 1,
            !.data = w.data * 2 + (IF success THEN 1 ELSE 0),
            !.success_counter = w.success_counter + (IF success THEN 1 ELSE 0)]

RECURSIVE ShiftAttempts(_, _, _)
ShiftAttempts(w, attempts, successes) ==
  IF attempts <= 0 THEN w
  ELSE ShiftAttempts(ShiftIn(EvictOldest(w), successes > 0),
                     attempts - 1, successes - 1)

\* The gate "enough history to estimate throughput", shared by
\* _rs_collect_tx_data and rs_rate_scale_perform.
EnoughHistory(w) ==
  \/ w.counter - w.success_counter >= RATE_MIN_FAILURE_TH
  \/ w.success_counter >= RATE_MIN_SUCCESS_TH

\* average_tpt from the success ratio (128 * percent) and the expected
\* throughput of the rate, rounded.
AverageTpt(sr, tpt) == (sr * tpt + 64) \div 128

\* _rs_collect_tx_data: shift the batch in, then recompute the success
\* ratio (INVALID on an empty window) and the throughput estimate.
CollectTxData(w, attempts, successes, tpt) ==
  LET s  == ShiftAttempts(w, attempts, successes)
      sr == IF s.counter > 0
            THEN (128 * (100 * s.success_counter)) \div s.counter
            ELSE INVALID_VALUE
  IN  [s EXCEPT !.success_ratio = sr,
                !.average_tpt = IF EnoughHistory(s) THEN AverageTpt(sr, tpt)
                                ELSE INVALID_VALUE]

=============================================================================
