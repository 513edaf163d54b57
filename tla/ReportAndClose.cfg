SPECIFICATION Spec
CONSTANTS
  Issuers = {primary, co}
  Amounts <- SomeAmounts
  Thresholds = {5}
  Windows <- OneWindow
  ConcentrationLimits <- TwoLimits
  Concentrations = {4000, 6000}
  QuoteAges = {1}
  Rates <- SomeRates
  None = None
  BPS_DENOMINATOR = 2
  E18 = 4
  I128_MAX = 14
  U64_MAX = 3
  MAX_CHUNK_PERIODS = 2
  MaxTime = 2
  MaxPeriods = 2
  MaxSettings = 2
INVARIANTS
  TypeOK
  AuditMatchesReports
  BooksAgree
  AccrualCountsEveryReport
  RangePagesAddUp
PROPERTIES
  BookedOnFreshFigures
  ImplementsLedger
CHECK_DEADLOCK FALSE
