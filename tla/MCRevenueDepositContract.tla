---------------------- MODULE MCRevenueDepositContract ----------------------
(***************************************************************************)
(* An instance of RevenueDepositContract for TLC: two periods that touch,  *)
(* and one span that overlaps both.                                        *)
(***************************************************************************)
EXTENDS RevenueDepositContract

TouchingSpans == {[start |-> 0, end |-> 1], [start |-> 1, end |-> 2],
                  [start |-> 2, end |-> 3]}
=============================================================================
