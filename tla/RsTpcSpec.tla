----------------------------- MODULE RsTpcSpec -----------------------------
(***************************************************************************)
(* The power-control loop of one station at a probe rate: frames go out   *)
(* at the reduction the firmware has, their statuses report it back       *)
(* (reduced_txp) and are counted in tpc_win[reduced_txp], and when the    *)
(* rate action of rs_rate_scale_perform is a stay in STAY_IN_COLUMN,      *)
(* rs_tpc_perform may move lq.reduced_tpc and resend the LQ command.  LQ  *)
(* commands are asynchronous and may be lost.  The rate windows and the   *)
(* decision to evaluate are those of RsEngine and are a free choice here. *)
(***************************************************************************)
EXTENDS RsTpc, Sequences

CONSTANTS
  RateType, RateIndex,  \* tbl->rate of the table in use
  IsVht,                \* lq_sta->is_vht
  Tpt,                  \* tbl->expected_tpt[RateIndex]
  MaxInFlight,          \* statuses sent and not yet reported
  MaxLqQueue,           \* LQ commands sent and not yet taken by the firmware
  LqMayFail             \* an asynchronous LQ command may fail and be lost

ASSUME MaxInFlight \in Nat \ {0} /\ MaxLqQueue \in Nat \ {0} /\ Tpt \in Nat
ASSUME LqMayFail \in BOOLEAN

VARIABLES
  tpc_win,      \* tbl->tpc_win[] of the table in use
  reduced_tpc,  \* lq_sta->lq.reduced_tpc
  power_ok,     \* power management or BT coex allows TPC (rs_tpc_allowed)
  lq_queue,     \* reduced_tpc of the LQ commands in transit
  fw_tpc,       \* reduction the firmware applies
  inflight,     \* statuses in delivery order: [txp, ack]
  lq_lost       \* ghost: an LQ command has failed and been lost

vars == <<tpc_win, reduced_tpc, power_ok, lq_queue, fw_tpc, inflight, lq_lost>>

Status == [txp : Levels, ack : BOOLEAN]

Init ==
  /\ tpc_win = [l \in Levels |-> ClearWindow]
  /\ reduced_tpc = TPC_NO_REDUCTION
  /\ power_ok \in BOOLEAN
  /\ lq_queue = <<>>
  /\ fw_tpc = TPC_NO_REDUCTION
  /\ inflight = <<>>
  /\ lq_lost = FALSE

\* iwl_mvm_send_lq_cmd (async) when rs_rate_scale_perform updates the LQ
SendLq(update, tpc) ==
  /\ update => Len(lq_queue) < MaxLqQueue
  /\ lq_queue' = IF update THEN Append(lq_queue, tpc) ELSE lq_queue

\* rs_tx_status for one frame at the probe rate: count it in the window of
\* the reduction it was sent with, then, when the rate action is a stay in
\* STAY_IN_COLUMN (evaluate), run rs_tpc_perform on the updated windows.
TpcStatus(evaluate) ==
  /\ inflight # <<>>
  /\ inflight' = Tail(inflight)
  /\ UNCHANGED <<power_ok, fw_tpc, lq_lost>>
  /\ LET st == Head(inflight) IN
     /\ tpc_win' = CollectTpcData(tpc_win, st.txp, 1, IF st.ack THEN 1 ELSE 0, Tpt)
     /\ IF evaluate
        THEN LET r == TpcPerform(reduced_tpc, tpc_win',
                                 TpcAllowed(RateType, RateIndex, IsVht, power_ok))
             IN  /\ reduced_tpc' = r.tpc
                 /\ SendLq(r.update, r.tpc)
        ELSE UNCHANGED <<reduced_tpc, lq_queue>>

TpcTxStatus == \E evaluate \in BOOLEAN : TpcStatus(evaluate)

\* The firmware sends a frame at its current reduction.
FwTransmit ==
  /\ Len(inflight) < MaxInFlight
  /\ \E ack \in BOOLEAN : inflight' = Append(inflight, [txp |-> fw_tpc, ack |-> ack])
  /\ UNCHANGED <<tpc_win, reduced_tpc, power_ok, lq_queue, fw_tpc, lq_lost>>

\* The firmware takes the oldest LQ command.
FwApplyLq ==
  /\ lq_queue # <<>>
  /\ fw_tpc' = Head(lq_queue)
  /\ lq_queue' = Tail(lq_queue)
  /\ UNCHANGED <<tpc_win, reduced_tpc, power_ok, inflight, lq_lost>>

\* An asynchronous LQ command fails and is lost.
FwDropLq ==
  /\ LqMayFail
  /\ lq_queue # <<>>
  /\ lq_queue' = Tail(lq_queue)
  /\ lq_lost' = TRUE
  /\ UNCHANGED <<tpc_win, reduced_tpc, power_ok, fw_tpc, inflight>>

\* rs_rate_scale_clear_tbl_windows on the table in use (rs_stay_in_table
\* every table_count_limit calls) clears the tpc windows too.
ClearWindows ==
  /\ tpc_win' = [l \in Levels |-> ClearWindow]
  /\ UNCHANGED <<reduced_tpc, power_ok, lq_queue, fw_tpc, inflight, lq_lost>>

\* Another LQ command of the engine for the same rate (a missed-rate
\* resync): rs_fill_lq_cmd leaves lq.reduced_tpc as it is.
ResendLq ==
  /\ SendLq(TRUE, reduced_tpc)
  /\ UNCHANGED <<tpc_win, reduced_tpc, power_ok, fw_tpc, inflight, lq_lost>>

\* The power-save state of the vif or the BT coex grade changes.
PowerChange ==
  /\ power_ok' = ~power_ok
  /\ UNCHANGED <<tpc_win, reduced_tpc, lq_queue, fw_tpc, inflight, lq_lost>>

Next ==
  \/ TpcTxStatus
  \/ FwTransmit
  \/ FwApplyLq
  \/ FwDropLq
  \/ ClearWindows
  \/ ResendLq
  \/ PowerChange

Spec == Init /\ [][Next]_vars

\* The firmware keeps transmitting and takes the LQ commands it is sent
\* (a lost one is taken off by FwDropLq instead).  Statuses of frames at
\* the probe rate keep reaching rs_rate_scale_perform with a stay decision
\* in STAY_IN_COLUMN: strong fairness, since a status is only intermittently
\* pending.  Clears, resends of the engine and power changes are not assumed.
Fairness ==
  /\ WF_vars(FwTransmit)
  /\ WF_vars(FwApplyLq)
  /\ SF_vars(TpcStatus(TRUE))

LiveSpec == Spec /\ Fairness

TypeOK ==
  /\ tpc_win \in [Levels -> Window]
  /\ reduced_tpc \in Levels /\ fw_tpc \in Levels /\ power_ok \in BOOLEAN
  /\ lq_queue \in Seq(Levels) /\ Len(lq_queue) <= MaxLqQueue
  /\ inflight \in Seq(Status) /\ Len(inflight) <= MaxInFlight
  /\ lq_lost \in BOOLEAN

(***************************************************************************)
(* Unless LQ commands keep failing forever, the firmware transmits at the *)
(* driver's lq.reduced_tpc again and again: every change rs_tpc_perform   *)
(* makes is sent with the LQ command, and a command that failed is sent  *)
(* again by the resync of rs_tx_status, so the power-control loop never   *)
(* settles on a level the firmware does not use.                         *)
(***************************************************************************)
TpcFirmwareFollows == []<><<FwDropLq>>_vars \/ []<>(fw_tpc = reduced_tpc)

(***************************************************************************)
(* In every behaviour in which no LQ command is lost, the firmware         *)
(* transmits at the driver's lq.reduced_tpc again and again: each change   *)
(* rs_tpc_perform makes reaches the firmware in order, and statuses at    *)
(* the new level keep rs_tpc_perform deciding from the right window.  The *)
(* same run lets commands be lost, so the type invariant is checked on    *)
(* the lossy channel while this property speaks of the reliable one.      *)
(***************************************************************************)
TpcFollowsWhileNoneLost == <>[]lq_lost \/ []<>(fw_tpc = reduced_tpc)

=============================================================================
