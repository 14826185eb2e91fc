CONSTANTS
  vb = vb
  h = h
  v1 = v1
  r1 = r1
  NoMinter = NoMinter
  NoCaller = NoCaller
  NoRecord = NoRecord
  Addr <- MCAddr
  VerificationBody = vb
  InitialMinter = vb
  InitialBalances <- MCInitialBalances
  InitialInfo <- MCInitialInfo
  VerificationIds <- MCVerificationIds
  RetirementIds <- MCRetirementIds
  Amounts = {0, 1, 2}
  Uint128Max = 3
  Cap = 3
SPECIFICATION Spec
INVARIANTS
  TypeOK
  CreditConservation
  LedgerSupply
  RecordsWithinAggregate
PROPERTIES
  CapacityRefinement
  HolderConsent
