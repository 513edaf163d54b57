------------------------ MODULE MCSnapshotGovernance ------------------------
(***************************************************************************)
(* An instance of SnapshotGovernance for TLC: two holders, batches of one  *)
(* holder, of both, and of one holder twice.  The empty sets of inputs of  *)
(* the .cfg switch off the calls of the money path that other runs cover.  *)
(***************************************************************************)
EXTENDS SnapshotGovernance, TLC

CONSTANTS h1, h2

NoSupplyCap == [o \in Offerings |-> 0]

W(h, bps) == [bps |-> bps, holder |-> h]

FewBatches == {<<W(h1, 7000)>>, <<W(h2, 6000), W(h2, 4000)>>}
=============================================================================
