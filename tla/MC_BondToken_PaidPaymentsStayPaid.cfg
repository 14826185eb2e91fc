CONSTANTS
  pa = pa
  h = h
  p1 = p1
  r1 = r1
  t1 = t1
  c1 = c1
  NoMinter = NoMinter
  NoCaller = NoCaller
  NoRecord = NoRecord
  Addr <- MCAddr
  Issuer = pa
  PayingAgent = pa
  Trustee = h
  InitialMinter = pa
  InitialBalances <- MCInitialBalances
  InitialBond <- MCInitialBond
  FaceValue = 1
  CouponRate = 50
  DecimalFractional = 100
  CouponFrequency = "Quarterly"
  DateMax = 180
  Ratings = {"AAA", "D"}
  Days = {365}
  PaymentIds = {p1}
  RedemptionIds = {r1}
  TransferIds = {}
  CalculationIds = {}
  Amounts = {0, 1}
  Uint128Max = 2
  Cap = 2
SPECIFICATION Spec
INVARIANT
  PaidPaymentsStayPaid
