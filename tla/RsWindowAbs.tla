---------------------------- MODULE RsWindowAbs ----------------------------
(***************************************************************************)
(* What a history window of rs.c promises, stated without the bitmap: it  *)
(* is the sequence of the outcomes of the last RATE_MAX_WINDOW attempts,  *)
(* and its counters, success ratio and throughput estimate are always     *)
(* those of that sequence.  A status appends a batch of outcomes in any  *)
(* order; a clear forgets them all.                                       *)
(***************************************************************************)
EXTENDS RsWindowRef

CONSTANTS
  MaxBatch,   \* largest batch one status reports
  Tpt         \* expected throughput of the rate

VARIABLES
  outcomes,   \* the last attempts, oldest first
  window      \* the statistics a reader of the window sees

Init ==
  /\ outcomes = <<>>
  /\ window = RefWindow(<<>>, Tpt)

\* A status reports a batch of 1..MaxBatch attempts.
Report ==
  \E batch \in BoundedSeq(BOOLEAN, MaxBatch) :
    /\ batch # <<>>
    /\ outcomes' = Record(outcomes, batch)
    /\ window' = RefWindow(outcomes', Tpt)

\* The window is reset.
Forget ==
  /\ outcomes' = <<>>
  /\ window' = RefWindow(<<>>, Tpt)

Spec == Init /\ [][Report \/ Forget]_<<outcomes, window>>

=============================================================================
