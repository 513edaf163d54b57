SPECIFICATION FairSpec
CONSTANTS
  DepositOfferings = {offering}
  Beneficiaries = {b1, b2}
  Spans <- TouchingSpans
  Revenues = {1, 3}
  MaxLedger = 4
  MaxPeriods = 2
  MaxRevenue = 4
INVARIANTS
  TypeOK
  PeriodsCoverTheirClaims
PROPERTIES
  EveryBeneficiaryIsPaid
CHECK_DEADLOCK FALSE
