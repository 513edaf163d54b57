SPECIFICATION Spec
CONSTANTS
  Offerings = {o1}
  Holders = {h1, h2}
  PayTokens = {usd}
  NoToken = NoToken
  FreezeReasons = {}
  NoReason = NoReason
  Initialized = FALSE
  RedeemShares = {2000}
  Shares = {0, 5000}
  ShareCaps = {}
  Amounts = {7}
  Delays = {1}
  Windows = {}
  NoWindow = NoWindow
  Decimals = {7}
  BatchSizes = {0, 1}
  SupplyCap <- NoSupplyCap
  BlacklistLimit = 0
  MAX_CLAIM_PERIODS = 2
  MAX_CHUNK_PERIODS = 2
  E18 = 10000
  MaxTime = 1
  MaxPeriods = 2
SYMMETRY HolderSymmetry
INVARIANTS
  TypeOK
  TotalsExact
  SettledOnceInOrder
  PeriodNeverOversubscribed
  ChunksAddUp
PROPERTIES
  DepositedPeriodsKeepTheirShare
CHECK_DEADLOCK FALSE
