CONSTANTS
  ec = ec
  au = au
  x1 = x1
  a1 = a1
  t1 = t1
  NoMinter = NoMinter
  NoCaller = NoCaller
  NoRecord = NoRecord
  Addr <- MCAddr
  ExtractionCompany = ec
  ReserveAuditor = au
  InitialMinter = ec
  InitialBalances <- MCInitialBalances
  InitialReserve <- MCInitialReserve
  ExtractionIds = {x1}
  AuditIds = {a1}
  TradeIds = {t1}
  BptNum = 1
  BptDen = 2
  Amounts = {0, 1, 2}
  Uint128Max = 3
  Cap = 3
SPECIFICATION Spec
INVARIANT
  SupplyBackedByExtraction
