SPECIFICATION SystemSpec
CONSTANTS
  Offerings = {o1}
  h1 = h1
  h2 = h2
  Holders = {h1, h2}
  PayTokens = {usd}
  NoToken = NoToken
  FreezeReasons = {}
  NoReason = NoReason
  Initialized = FALSE
  RedeemShares = {}
  Shares = {0}
  ShareCaps = {12000}
  Amounts = {20}
  Delays = {}
  Windows = {}
  NoWindow = NoWindow
  Decimals = {}
  BatchSizes = {1}
  SupplyCap <- NoSupplyCap
  BlacklistLimit = 0
  MAX_CLAIM_PERIODS = 2
  MAX_CHUNK_PERIODS = 2
  E18 = 10000
  MaxTime = 0
  MaxPeriods = 1
  SnapshotSettings = {TRUE}
  SnapshotRefs = {1, 2}
  Hashes = {digest}
  Batches <- FewBatches
  StartIndexes = {1}
  MAX_SNAPSHOT_BATCH = 2
  MaxBatches = 2
  MaxProposals = 1
INVARIANTS
  SystemTypeOK
  SharesAddUp
  SnapshotNeverUnderstated
  PinnedSnapshotDecides
PROPERTIES
  RecordsAreFinal
CHECK_DEADLOCK FALSE
