SPECIFICATION Spec
CONSTANTS
  Offerings = {o1}
  Holders = {h1}
  PayTokens = {usd}
  NoToken = NoToken
  FreezeReasons = {}
  NoReason = NoReason
  Initialized = FALSE
  RedeemShares = {6000}
  Shares = {0, 5000, 10000}
  ShareCaps = {}
  Amounts = {7}
  Delays = {}
  Windows = {}
  NoWindow = NoWindow
  Decimals = {7}
  BatchSizes = {0}
  SupplyCap <- NoSupplyCap
  BlacklistLimit = 0
  MAX_CLAIM_PERIODS = 2
  MAX_CHUNK_PERIODS = 2
  E18 = 10000
  MaxTime = 0
  MaxPeriods = 2
INVARIANTS
  PreviewNeverOverstates
CHECK_DEADLOCK FALSE
