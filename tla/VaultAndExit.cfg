SPECIFICATION Spec
CONSTANTS
  Offerings = {o1, o2}
  Holders = {h1}
  PayTokens = {usd, eur}
  NoToken = NoToken
  FreezeReasons = {court}
  NoReason = NoReason
  Initialized = TRUE
  RedeemShares = {6000}
  Shares = {0, 10000}
  ShareCaps = {}
  Amounts = {7}
  Delays = {1}
  Windows <- OneWindow
  NoWindow = NoWindow
  Decimals = {8}
  BatchSizes = {0}
  SupplyCap <- OneSupplyCap
  BlacklistLimit = 1
  MAX_CLAIM_PERIODS = 2
  MAX_CHUNK_PERIODS = 2
  E18 = 10000
  MaxTime = 1
  MaxPeriods = 2
SYMMETRY TokenSymmetry
CONSTRAINT SharedOrAlone
INVARIANTS
  VaultBalanced
  Solvent
  HolderCanExit
PROPERTIES
  HaltIsFinal
  ImplementsPool
CHECK_DEADLOCK FALSE
