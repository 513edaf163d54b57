--------------------------- MODULE MCControlPlane ---------------------------
(***************************************************************************)
(* Instances of ControlPlane for TLC: the actions owners may propose.      *)
(***************************************************************************)
EXTENDS ControlPlane, TLC

OwnerChanges ==
  [kind : {"AddOwner", "RemoveOwner"}, address : Addresses]

\* A duration of 3 lets proposals expire past MAX_TIMESTAMP = 3 from time 1 on.
AnyAction ==
  OwnerChanges
    \cup [kind : {"SetAdmin"}, address : Addresses]
    \cup [kind : {"SetThreshold"}, value : {2, 3}]
    \cup [kind : {"SetProposalDuration"}, value : {3}]
    \cup [kind : {"Freeze"}]

AddressSymmetry == Permutations(Addresses)
=============================================================================
