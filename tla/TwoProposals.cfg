SPECIFICATION Spec
CONSTANTS
  Addresses = {a1, a2, a3}
  NoAddress = NoAddress
  Proposable <- AnyAction
  Thresholds = {1}
  Durations = {1}
  Quorums = {5100}
  MAX_MULTISIG_OWNERS = 3
  MAX_PROPOSAL_DURATION = 2
  MAX_TIMESTAMP = 3
  MaxTime = 1
  MaxProposals = 2
SYMMETRY AddressSymmetry
INVARIANTS
  TypeOK
PROPERTIES
  ChangesAreVoted
  FreezeEndsRotation
  LockoutIsFinal
  ImplementsCouncil
CHECK_DEADLOCK FALSE
