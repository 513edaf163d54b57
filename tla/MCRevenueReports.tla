-------------------------- MODULE MCRevenueReports --------------------------
(***************************************************************************)
(* The instance of RevenueReports for TLC.                                 *)
(***************************************************************************)
EXTENDS RevenueReports

\* The contract refuses the first.
SomeAmounts == {-1, 9}

\* One that turns amounts negative and saturates, and one that does neither.
SomeRates == {-4, 1}

OneWindow == {[start |-> 1, end |-> 1]}

\* Enforced with an age limit, and enforced without one.
TwoLimits ==
  {[max_bps |-> 5000, enforce |-> TRUE, max_staleness_secs |-> age] : age \in {0, 1}}
=============================================================================
