-------------------------- MODULE BondTokenProofs --------------------------
(***************************************************************************)
(* Proofs about the bond-token model, for every value of the constants    *)
(* that satisfies Cw20Assumption and BondAssumption.                       *)
(***************************************************************************)
EXTENDS BondToken, Cw20Proofs, TLAPS

USE Cw20Assumption, BondAssumption

(* Uint128 * Decimal of naturals is a natural: the divisor is positive. *)
LEMMA MulDecimalNat ==
  ASSUME NEW x \in Nat, NEW a \in Nat
  PROVE  MulDecimal(x, a) \in Nat
BY DEF MulDecimal

(* Decimal::from_ratio of naturals over a positive divisor is a natural. *)
LEMMA FromRatioNat ==
  ASSUME NEW n \in Nat, NEW d \in Nat \ {0}
  PROVE  DecimalFromRatio(n, d) \in Nat
BY DEF DecimalFromRatio

(* The day-count basis is 365 or 360. *)
LEMMA DayBasisPos ==
  ASSUME NEW m
  PROVE  DayBasis(m) \in Nat \ {0}
BY DEF DayBasis

(* The stored interest is a natural number. *)
LEMMA AccruedInterestNat ==
  \A held, days \in Nat, m \in CalculationMethod :
    AccruedInterest(held, days, m) \in Nat
<1> SUFFICES ASSUME NEW held \in Nat, NEW days \in Nat, NEW m \in CalculationMethod
             PROVE  AccruedInterest(held, days, m) \in Nat
  OBVIOUS
<1>1. PrincipalAtRate(held) \in Nat
  <2>1. Principal(held) \in Nat
    BY DEF Principal
  <2> QED
    BY <2>1, MulDecimalNat DEF PrincipalAtRate
<1>2. DecimalFromRatio(days, DayBasis(m)) \in Nat
  BY DayBasisPos, FromRatioNat
<1> QED
  BY <1>1, <1>2, MulDecimalNat DEF AccruedInterest

(* calculate_next_coupon_date gives a natural offset. *)
LEMMA CouponOffsetNat == CouponOffset \in Nat
BY DEF CouponOffset, Frequencies

-----------------------------------------------------------------------------
(* Type correctness of the bond model. *)

LEMMA InitTypeOK == Init => TypeOK
BY DEF Init, Cw20Init, TypeOK, Cw20TypeOK, Uint128

LEMMA NextTypeOK == TypeOK /\ [Next]_vars => TypeOK'
<1> SUFFICES ASSUME TypeOK, [Next]_vars PROVE TypeOK'
  OBVIOUS
<1>1. ASSUME NEW s \in Addr, NEW c \in Amounts, NEW p \in Amounts,
             NEW id \in PaymentIds, PayCoupon(s, id, c, p)
      PROVE  TypeOK'
  <2>1. bond' \in BondInfo
    <3>1. bond' = [outstanding_principal |-> bond.outstanding_principal - p,
                   total_coupons_paid |-> bond.total_coupons_paid + c,
                   total_principal_repaid |-> bond.total_principal_repaid + p,
                   next_coupon_date |-> bond.next_coupon_date + CouponOffset,
                   bond_rating |-> bond.bond_rating,
                   collateral_value |-> bond.collateral_value]
      BY <1>1 DEF PayCoupon, TypeOK, BondInfo
    <3> QED
      BY <1>1, <3>1, CouponOffsetNat DEF PayCoupon, Fits, TypeOK, BondInfo, Uint128
  <2>2. couponPayments' \in [PaymentIds -> CouponPayment \cup {NoRecord}]
    BY <1>1 DEF PayCoupon, TypeOK, CouponPayment, PaymentStatus, Uint128
  <2> QED
    BY <1>1, <2>1, <2>2 DEF PayCoupon, TypeOK, Cw20TypeOK, ledgerVars
<1>2. ASSUME NEW s \in Addr, NEW n \in Amounts, NEW h \in Addr,
             NEW id \in RedemptionIds, RedeemBonds(s, id, h, n)
      PROVE  TypeOK'
  <2>1. bond' \in BondInfo
    <3>1. bond' = [outstanding_principal |-> bond.outstanding_principal - n * FaceValue,
                   total_coupons_paid |-> bond.total_coupons_paid,
                   total_principal_repaid |-> bond.total_principal_repaid,
                   next_coupon_date |-> bond.next_coupon_date,
                   bond_rating |-> bond.bond_rating,
                   collateral_value |-> bond.collateral_value]
      BY <1>2 DEF RedeemBonds, TypeOK, BondInfo
    <3> QED
      BY <1>2, <3>1 DEF RedeemBonds, TypeOK, BondInfo, Uint128
  <2>2. Cw20TypeOK'
    BY <1>2 DEF RedeemBonds, TypeOK, Cw20TypeOK, Uint128
  <2>3. redemptionRecords' \in [RedemptionIds -> RedemptionRecord \cup {NoRecord}]
    BY <1>2 DEF RedeemBonds, TypeOK, RedemptionRecord, Uint128
  <2> QED
    BY <1>2, <2>1, <2>2, <2>3 DEF RedeemBonds, TypeOK
<1>3. ASSUME NEW s \in Addr, NEW n \in Amounts, NEW id \in TransferIds,
             RecordTransfer(s, id, n)
      PROVE  TypeOK'
  BY <1>3 DEF RecordTransfer, TypeOK, Cw20TypeOK, BondTransfer, Uint128, ledgerVars
<1>4. ASSUME NEW s \in Addr, NEW n \in Amounts, NEW id \in CalculationIds,
             NEW d \in Days, NEW m \in CalculationMethod,
             CalculateInterest(s, id, n, d, m)
      PROVE  TypeOK'
  <2>1. AccruedInterest(n, d, m) \in Nat
    BY AccruedInterestNat DEF Uint128
  <2> QED
    BY <1>4, <2>1 DEF CalculateInterest, TypeOK, Cw20TypeOK, InterestCalculation,
                      Uint128, ledgerVars
<1>5. ASSUME NEW s \in Addr, NEW n \in Amounts, UpdateCollateralValue(s, n)
      PROVE  TypeOK'
  BY <1>5 DEF UpdateCollateralValue, TypeOK, Cw20TypeOK, BondInfo, Uint128, ledgerVars
<1>6. ASSUME NEW s \in Addr, NEW id \in PaymentIds, NEW st \in PaymentStatus,
             UpdatePaymentStatus(s, id, st)
      PROVE  TypeOK'
  BY <1>6 DEF UpdatePaymentStatus, TypeOK, Cw20TypeOK, CouponPayment, ledgerVars
<1>7. ASSUME NEW s \in Addr, NEW r \in Ratings, UpdateBondRating(s, r)
      PROVE  TypeOK'
  BY <1>7 DEF UpdateBondRating, TypeOK, Cw20TypeOK, BondInfo, ledgerVars
<1>8. CASE LedgerStep
  BY <1>8, Cw20NextTypeOK DEF LedgerStep, TypeOK, bondVars
<1>9. CASE UNCHANGED vars
  BY <1>9 DEF vars, bondVars, ledgerVars, TypeOK, Cw20TypeOK
<1> QED
  BY <1>1, <1>2, <1>3, <1>4, <1>5, <1>6, <1>7, <1>8, <1>9 DEF Next

(* TypeOK holds in every state of every behaviour of the bond model. *)
THEOREM TypeCorrect == Spec => []TypeOK
BY InitTypeOK, NextTypeOK, PTL DEF Spec

-----------------------------------------------------------------------------
(***************************************************************************)
(* Integer division rounds down by less than one divisor: each Uint128 *   *)
(* Decimal product and each Decimal::from_ratio of calculate_interest.    *)
(***************************************************************************)
LEMMA DivBounds ==
  ASSUME NEW a \in Nat, NEW b \in Nat \ {0}
  PROVE  /\ a \div b \in Nat
         /\ (a \div b) * b <= a
         /\ a < (a \div b + 1) * b
BY SMT

(* Multiplying both sides of an inequality by a natural keeps it. *)
LEMMA MulLeq ==
  ASSUME NEW u \in Int, NEW v \in Int, NEW w \in Nat, u <= v
  PROVE  u * w <= v * w
BY SMT

(* Multiplying both sides of a strict inequality by a positive natural. *)
LEMMA MulLess ==
  ASSUME NEW u \in Int, NEW v \in Int, NEW w \in Nat \ {0}, u < v
  PROVE  u * w < v * w
BY SMT

(***************************************************************************)
(* The arithmetic of three floored steps: a = floor(x*R/F),               *)
(* q = floor(d*F/B) and s = floor(a*q/F), given by their defining bounds.  *)
(* Then s never exceeds the exact x*R*d/(F*B), and falls short of it by    *)
(* less than 1 + x*R/F^2 + d/B + 1/F, multiplied out by F*F*B.             *)
(***************************************************************************)
LEMMA FloorChainBounds ==
  ASSUME NEW x \in Nat, NEW R \in Nat, NEW d \in Nat,
         NEW a \in Nat, NEW q \in Nat, NEW s \in Nat,
         NEW F \in Nat \ {0}, NEW B \in Nat \ {0},
         a * F <= x * R, x * R < (a + 1) * F,
         q * B <= d * F, d * F < (q + 1) * B,
         s * F <= a * q, a * q < (s + 1) * F
  PROVE  /\ s * F * B <= x * R * d
         /\ x * R * d * F < (s + 1) * F * F * B + x * R * B + d * F * F + F * B
<1>1. s * F * B <= x * R * d
  <2>1. s * F * B <= a * q * B
    BY MulLeq
  <2>2. a * (q * B) <= a * (d * F)
    BY MulLeq
  <2>3. (a * F) * d <= (x * R) * d
    BY MulLeq
  <2> QED
    BY <2>1, <2>2, <2>3
<1>2. x * R * d * F < (s + 1) * F * F * B + x * R * B + d * F * F + F * B
  <2>1. (x * R) * (d * F) <= ((a + 1) * F) * (d * F)
    BY MulLeq
  <2>2. (d * F) * ((a + 1) * F) < ((q + 1) * B) * ((a + 1) * F)
    BY MulLess
  <2>3. (a * q) * (F * B) < ((s + 1) * F) * (F * B)
    BY MulLess
  <2>4. (a * F) * B <= (x * R) * B
    BY MulLeq
  <2>5. (q * B) * F <= (d * F) * F
    BY MulLeq
  <2> QED
    BY <2>1, <2>2, <2>3, <2>4, <2>5
<1> QED
  BY <1>1, <1>2

(* The same bounds for the floors computed by integer division. *)
LEMMA ChainedFloor ==
  ASSUME NEW x \in Nat, NEW R \in Nat, NEW d \in Nat,
         NEW F \in Nat \ {0}, NEW B \in Nat \ {0}
  PROVE  LET s == (((x * R) \div F) * ((d * F) \div B)) \div F
         IN  /\ s * F * B <= x * R * d
             /\ x * R * d * F < (s + 1) * F * F * B + x * R * B + d * F * F + F * B
<1>1. PICK a \in Nat : a = (x * R) \div F
  BY DivBounds
<1>2. PICK q \in Nat : q = (d * F) \div B
  BY DivBounds
<1>3. a * q \in Nat
  BY <1>1, <1>2
<1>4. PICK s \in Nat : s = (a * q) \div F
  BY <1>3, DivBounds
<1>5. /\ a * F <= x * R /\ x * R < (a + 1) * F
  BY <1>1, DivBounds
<1>6. /\ q * B <= d * F /\ d * F < (q + 1) * B
  BY <1>2, DivBounds
<1>7. /\ s * F <= a * q /\ a * q < (s + 1) * F
  BY <1>3, <1>4, DivBounds
<1> QED
  BY <1>1, <1>2, <1>4, <1>5, <1>6, <1>7, FloorChainBounds

(* One saved calculation record meets the bound of InterestWithinRounding. *)
LEMMA RecordWithinRounding ==
  ASSUME NEW held \in Nat, NEW days \in Nat, NEW m \in CalculationMethod
  PROVE  LET ai    == AccruedInterest(held, days, m)
             F     == DecimalFractional
             B     == DayBasis(m)
             xR    == held * FaceValue * CouponRate
             exact == xR * days
         IN  IF m = "CompoundInterest" THEN ai = 0
             ELSE /\ ai * F * B <= exact
                  /\ exact * F < (ai + 1) * F * F * B + xR * B + days * F * F + F * B
<1>1. CASE m = "CompoundInterest"
  BY <1>1 DEF AccruedInterest
<1>2. CASE m # "CompoundInterest"
  <2> DEFINE x == held * FaceValue
  <2>1. x \in Nat /\ DayBasis(m) \in Nat \ {0}
    BY DayBasisPos
  <2>2. AccruedInterest(held, days, m) =
          (((x * CouponRate) \div DecimalFractional)
             * ((days * DecimalFractional) \div DayBasis(m))) \div DecimalFractional
    BY <1>2 DEF AccruedInterest, MulDecimal, DecimalFromRatio, PrincipalAtRate, Principal
  <2>3. x * CouponRate = held * FaceValue * CouponRate
    OBVIOUS
  <2> QED
    BY <1>2, <2>1, <2>2, <2>3, ChainedFloor
<1> QED
  BY <1>1, <1>2

(***************************************************************************)
(* Every recorded interest calculation is within the rounding bound of the *)
(* spec's exact formula, for every instance.  Only calculate_interest      *)
(* writes INTEREST_CALCULATIONS, and it stores the chained floors it       *)
(* computes; TypeOK makes the stored fields naturals and the method one of *)
(* the five conventions.                                                   *)
(***************************************************************************)
THEOREM InterestWithinRoundingHolds == Spec => []InterestWithinRounding
<1>1. Init => InterestWithinRounding
  BY DEF Init, InterestWithinRounding
<1>2. TypeOK /\ InterestWithinRounding /\ [Next]_vars => InterestWithinRounding'
  <2> SUFFICES ASSUME TypeOK, InterestWithinRounding, [Next]_vars
               PROVE  InterestWithinRounding'
    OBVIOUS
  <2>1. CASE UNCHANGED interestCalculations
    BY <2>1 DEF InterestWithinRounding
  <2>2. ASSUME NEW s \in Addr, NEW n \in Amounts, NEW id \in CalculationIds,
               NEW d \in Days, NEW m \in CalculationMethod,
               CalculateInterest(s, id, n, d, m)
        PROVE  InterestWithinRounding'
    <3> SUFFICES ASSUME NEW j \in CalculationIds
                 PROVE  InterestWithinRounding!(j)'
      BY DEF InterestWithinRounding
    <3>1. CASE j = id
      <4>1. interestCalculations'[j] =
              [bonds_held |-> n, days_held |-> d,
               accrued_interest |-> AccruedInterest(n, d, m),
               calculation_method |-> m]
        BY <2>2, <3>1 DEF CalculateInterest, TypeOK
      <4>2. n \in Nat /\ d \in Nat
        BY DEF Uint128
      <4> QED
        BY <4>1, <4>2, RecordWithinRounding
    <3>2. CASE j # id
      <4>1. interestCalculations'[j] = interestCalculations[j]
        BY <2>2, <3>2 DEF CalculateInterest, TypeOK
      <4> QED
        BY <4>1 DEF InterestWithinRounding
    <3> QED
      BY <3>1, <3>2
  <2>3. CASE LedgerStep
    BY <2>3 DEF LedgerStep, bondVars, InterestWithinRounding
  <2>4. CASE \E s \in Addr, n \in Amounts :
               \/ \E id \in PaymentIds, p \in Amounts : PayCoupon(s, id, n, p)
               \/ \E id \in RedemptionIds, h \in Addr : RedeemBonds(s, id, h, n)
               \/ \E id \in TransferIds : RecordTransfer(s, id, n)
               \/ UpdateCollateralValue(s, n)
    BY <2>1, <2>4 DEF PayCoupon, RedeemBonds, RecordTransfer, UpdateCollateralValue
  <2>5. CASE \/ \E s \in Addr, id \in PaymentIds, st \in PaymentStatus :
                  UpdatePaymentStatus(s, id, st)
             \/ \E s \in Addr, r \in Ratings : UpdateBondRating(s, r)
    BY <2>1, <2>5 DEF UpdatePaymentStatus, UpdateBondRating
  <2>6. CASE UNCHANGED vars
    BY <2>1, <2>6 DEF vars, bondVars
  <2> QED
    BY <2>2, <2>3, <2>4, <2>5, <2>6 DEF Next
<1> QED
  BY <1>1, <1>2, TypeCorrect, PTL DEF Spec

=============================================================================
