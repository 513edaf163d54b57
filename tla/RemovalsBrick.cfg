SPECIFICATION Spec
CONSTANTS
  Addresses = {a1, a2, a3}
  NoAddress = NoAddress
  Proposable <- OwnerChanges
  Thresholds = {1}
  Durations = {1}
  Quorums = {5100}
  MAX_MULTISIG_OWNERS = 3
  MAX_PROPOSAL_DURATION = 2
  MAX_TIMESTAMP = 3
  MaxTime = 0
  MaxProposals = 2
SYMMETRY AddressSymmetry
INVARIANTS
  RemovalsNeverBrick
CHECK_DEADLOCK FALSE
