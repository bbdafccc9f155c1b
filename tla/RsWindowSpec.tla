---------------------------- MODULE RsWindowSpec ----------------------------
(***************************************************************************)
(* One rate's history window driven by every batch rs_collect_tx_data can *)
(* hand it (an A-MPDU of len attempts and ack_len successes, or a single  *)
(* legacy attempt), and by the window clears of rs_stay_in_table and      *)
(* rs_switch_to_column.  It is shown to implement RsWindowAbs: the        *)
(* attempts the bitmap holds, read back oldest first, evolve as a sliding *)
(* sequence of outcomes, and the statistics are always theirs.           *)
(***************************************************************************)
EXTENDS RsWindowRef

CONSTANTS
  MaxBatch,   \* largest ampdu_len delivered in one status
  Tpt         \* expected throughput of the rate (expected_tpt[index])

ASSUME MaxBatch \in 1..64 /\ Tpt \in Nat

VARIABLE win   \* tbl->win[index]

vars == <<win>>

Init == win = ClearWindow

\* rs_collect_tx_data on this window with a batch of attempts/successes.
Collect(attempts, successes) == win' = CollectTxData(win, attempts, successes, Tpt)

\* rs_rate_scale_clear_tbl_windows reaching this window.
Clear == win' = ClearWindow

Next ==
  \/ \E a \in 1..MaxBatch, s \in 0..MaxBatch : s <= a /\ Collect(a, s)
  \/ Clear

Spec == Init /\ [][Next]_vars

TypeOK == win \in Window

\* The refinement mapping: the low win.counter bits of win.data, the
\* oldest attempt in the highest of them.
Attempts(w) == [k \in 1..w.counter |-> (w.data \div 2^(w.counter - k)) % 2 = 1]

Abs == INSTANCE RsWindowAbs WITH outcomes <- Attempts(win), window <- win

(***************************************************************************)
(* _rs_collect_tx_data and rs_rate_scale_clear_window implement the       *)
(* abstract window: every batch appends its attempts to the bitmap and   *)
(* evicts exactly the oldest ones past RATE_MAX_WINDOW, and the two       *)
(* counters, the success ratio and the gated throughput estimate are     *)
(* those of the attempts the bitmap holds, so an eviction decrements     *)
(* success_counter exactly when the evicted attempt was a success.       *)
(***************************************************************************)
WindowRefinesAbstract == Abs!Spec

=============================================================================
