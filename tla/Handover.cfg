SPECIFICATION FairSpec
CONSTANTS
  i1 = i1
  i2 = i2
  i3 = i3
  n1 = n1
  n2 = n2
  Issuers = {i1, i2, i3}
  Namespaces = {n1, n2}
  None = None
  Offered <- TwoNamespaces
  IndexedIssuers <- FirstIssuer
  IndexedNamespace = n1
  LegacyOfferings <- FirstLegacy
  Heirs <- SomeHeirs
  Expiries = {0, 9}
  MaxProposals = 2
  Delays = {1}
  ISSUER_TRANSFER_EXPIRY_SECS = 1
  MIN_ISSUER_TRANSFER_EXPIRY_SECS = 1
  MAX_ISSUER_TRANSFER_EXPIRY_SECS = 2
  Beneficiaries = {b1}
  Granters = {i1}
  Plans <- OnePlan
  Triggers = {t1}
  Accelerations = {1}
  BPS = 4
  I128_MAX = 9
  MaxTime = 4
INVARIANTS
  TypeOK
  ClaimedWithinTotal
  ScheduleIndexExact
  RegistryCoherent
PROPERTIES
  VestedNeverShrinks
  HandoverByConsent
  ImplementsTitles
  EverythingIsClaimed
CHECK_DEADLOCK FALSE
