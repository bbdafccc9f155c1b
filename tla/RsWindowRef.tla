---------------------------- MODULE RsWindowRef ----------------------------
(***************************************************************************)
(* Reference definition of a history window: what the counters, success   *)
(* ratio and throughput estimate of struct iwl_rate_scale_data should be  *)
(* for the outcomes of the last RATE_MAX_WINDOW attempts.  Not a model of *)
(* code: the specifications that drive the windows of rs.c keep a ghost   *)
(* history and compare the incremental window with this one.              *)
(***************************************************************************)
EXTENDS RsWindow, Sequences, SequencesExt

\* The last n outcomes of a sequence.
LastN(s, n) == IF Len(s) <= n THEN s ELSE SubSeq(s, Len(s) - n + 1, Len(s))

Successes(h) == Len(SelectSeq(h, LAMBDA b : b))

\* Append a batch of outcomes to a history and keep the window's length.
Record(h, outcomes) == LastN(h \o outcomes, RATE_MAX_WINDOW)

\* The window a correct implementation keeps for the history h (oldest
\* first) of a rate whose expected throughput is tpt.
RefWindow(h, tpt) ==
  LET n  == Len(h)
      sc == Successes(h)
      sr == IF n > 0 THEN (128 * 100 * sc) \div n ELSE INVALID_VALUE
      enough == n - sc >= RATE_MIN_FAILURE_TH \/ sc >= RATE_MIN_SUCCESS_TH
  IN  [data |-> FoldLeftDomain(LAMBDA acc, k : acc + IF h[k] THEN 2^(n - k) ELSE 0, 0, h),
       success_counter |-> sc,
       success_ratio |-> sr,
       counter |-> n,
       average_tpt |-> IF enough THEN (sr * tpt + 64) \div 128 ELSE INVALID_VALUE]

=============================================================================
