----------------------------- MODULE BondToken ------------------------------
(***************************************************************************)
(* The bond-token contract (src/contracts/bond-token/src/contract.rs): a  *)
(* cw20 ledger (module Cw20) with the BOND_INFO aggregate and the          *)
(* COUPON_PAYMENTS, REDEMPTION_RECORDS, BOND_TRANSFERS and                 *)
(* INTEREST_CALCULATIONS collections.                                      *)
(*                                                                         *)
(* BondInfo keeps the fields some handler writes: outstanding_principal,   *)
(* total_coupons_paid, total_principal_repaid, next_coupon_date,           *)
(* bond_rating and collateral_value.  face_value, coupon_rate,             *)
(* coupon_frequency and the role addresses never change after instantiate *)
(* and are constants.  A stored Decimal amount is whole units bounded like *)
(* Uint128; the Decimal factors of calculate_interest keep their atomics   *)
(* over DecimalFractional (10^18 in cosmwasm-std); a timestamp is a        *)
(* number of days, bounded by DateMax (u64 seconds overflow panics).       *)
(***************************************************************************)
EXTENDS Cw20

CONSTANTS
  Issuer, Trustee, PayingAgent,  \* BondInfo.issuer, .trustee, .paying_agent
  FaceValue,                     \* BondInfo.face_value
  CouponRate,                    \* BondInfo.coupon_rate, its Decimal atomics
  DecimalFractional,             \* Decimal::DECIMAL_FRACTIONAL, scaled down
  CouponFrequency,               \* BondInfo.coupon_frequency
  DateMax,                       \* u64::MAX seconds, in days, scaled down
  Ratings,                       \* the BondRating values messages carry
  Days,                          \* the days_held values messages carry
  PaymentIds, RedemptionIds, TransferIds, CalculationIds,
  InitialBond,                   \* InstantiateMsg.bond_info, the fields above
  NoRecord

Frequencies == {"Monthly", "Quarterly", "SemiAnnually", "Annually", "AtMaturity"}

PaymentStatus == {"Pending", "Paid", "Failed", "Cancelled"}

CalculationMethod ==
  {"SimpleInterest", "CompoundInterest", "Actual365", "Actual360", "Thirty360"}

BondInfo ==
  [outstanding_principal : Uint128, total_coupons_paid : Uint128,
   total_principal_repaid : Uint128, next_coupon_date : 0..DateMax,
   bond_rating : Ratings, collateral_value : Uint128]

CouponPayment ==
  [coupon_amount : Uint128, principal_amount : Uint128,
   payment_status : PaymentStatus]

RedemptionRecord == [bondholder : Addr, redemption_value : Uint128]

BondTransfer == [bonds_transferred : Uint128]

InterestCalculation ==
  [bonds_held : Uint128, days_held : Days, accrued_interest : Nat,
   calculation_method : CalculationMethod]

ASSUME BondAssumption ==
  /\ {Issuer, Trustee, PayingAgent} \subseteq Addr
  /\ FaceValue \in Nat /\ CouponRate \in Nat /\ DecimalFractional \in Nat \ {0}
  /\ CouponFrequency \in Frequencies
  /\ DateMax \in Nat
  /\ Days \subseteq Nat
  /\ InitialBond \in BondInfo
  /\ NoRecord \notin CouponPayment \cup RedemptionRecord \cup BondTransfer
                       \cup InterestCalculation

VARIABLES
  bond,                  \* BOND_INFO
  couponPayments,        \* COUPON_PAYMENTS: id -> record or NoRecord
  redemptionRecords,     \* REDEMPTION_RECORDS
  bondTransfers,         \* BOND_TRANSFERS
  interestCalculations   \* INTEREST_CALCULATIONS

bondVars == <<bond, couponPayments, redemptionRecords, bondTransfers,
              interestCalculations>>

vars == <<bondVars, ledgerVars, caller>>

TypeOK ==
  /\ Cw20TypeOK
  /\ bond \in BondInfo
  /\ couponPayments \in [PaymentIds -> CouponPayment \cup {NoRecord}]
  /\ redemptionRecords \in [RedemptionIds -> RedemptionRecord \cup {NoRecord}]
  /\ bondTransfers \in [TransferIds -> BondTransfer \cup {NoRecord}]
  /\ interestCalculations \in [CalculationIds -> InterestCalculation \cup {NoRecord}]

\* instantiate: BOND_INFO is saved as given, then cw20 instantiate runs.
Init ==
  /\ bond = InitialBond
  /\ couponPayments = [id \in PaymentIds |-> NoRecord]
  /\ redemptionRecords = [id \in RedemptionIds |-> NoRecord]
  /\ bondTransfers = [id \in TransferIds |-> NoRecord]
  /\ interestCalculations = [id \in CalculationIds |-> NoRecord]
  /\ Cw20Init

(***************************************************************************)
(* calculate_next_coupon_date: a fixed offset per frequency, none for      *)
(* AtMaturity.                                                             *)
(***************************************************************************)
CouponOffset ==
  [Monthly |-> 30, Quarterly |-> 90, SemiAnnually |-> 180, Annually |-> 365,
   AtMaturity |-> 0][CouponFrequency]

\* Mutant of PayCoupon: total_principal_repaid is not increased.
PayCouponNoRepaid(s, id, c, p) ==
  /\ s = PayingAgent
  /\ Fits(c, p)
  /\ Fits(bond.total_coupons_paid, c)
  /\ bond.outstanding_principal >= p
  /\ bond.next_coupon_date + CouponOffset <= DateMax
  /\ couponPayments' = [couponPayments EXCEPT ![id] =
       [coupon_amount |-> c, principal_amount |-> p, payment_status |-> "Paid"]]
  /\ bond' = [bond EXCEPT !.total_coupons_paid = @ + c,
                          !.outstanding_principal = @ - p,
                          !.next_coupon_date = @ + CouponOffset]
  /\ caller' = s
  /\ UNCHANGED <<redemptionRecords, bondTransfers, interestCalculations, ledgerVars>>

(***************************************************************************)
(* pay_coupon: only the paying agent.  total_payment = c + p must not      *)
(* overflow.  The payment is saved as Paid; the coupon and principal       *)
(* totals grow, outstanding_principal is checked_sub'ed by p, and the next *)
(* coupon date moves on by the frequency's offset.  No tokens move.        *)
(***************************************************************************)
PayCoupon(s, id, c, p) ==
  /\ s = PayingAgent
  /\ Fits(c, p)
  /\ Fits(bond.total_coupons_paid, c)
  /\ Fits(bond.total_principal_repaid, p)
  /\ bond.outstanding_principal >= p
  /\ bond.next_coupon_date + CouponOffset <= DateMax
  /\ couponPayments' = [couponPayments EXCEPT ![id] =
       [coupon_amount |-> c, principal_amount |-> p, payment_status |-> "Paid"]]
  /\ bond' = [bond EXCEPT !.total_coupons_paid = @ + c,
                          !.total_principal_repaid = @ + p,
                          !.outstanding_principal = @ - p,
                          !.next_coupon_date = @ + CouponOffset]
  /\ caller' = s
  /\ UNCHANGED <<redemptionRecords, bondTransfers, interestCalculations, ledgerVars>>

\* Mutant of RedeemBonds: the bonds are burned but total_supply is not updated.
RedeemBondsKeepSupply(s, id, h, n) ==
  /\ h \in accounts
  /\ balances[h] >= n
  /\ bond.outstanding_principal >= n * FaceValue
  /\ balances' = [balances EXCEPT ![h] = @ - n]
  /\ redemptionRecords' = [redemptionRecords EXCEPT ![id] =
       [bondholder |-> h, redemption_value |-> n * FaceValue]]
  /\ bond' = [bond EXCEPT !.outstanding_principal = @ - n * FaceValue]
  /\ caller' = s
  /\ UNCHANGED <<accounts, supply, minter, allowances, couponPayments,
                 bondTransfers, interestCalculations>>

(***************************************************************************)
(* redeem_bonds: no authorisation check.  The bondholder named in the      *)
(* message, whoever sends it, must have a BALANCES entry covering n.  The  *)
(* handler burns n from that balance and from total_supply by writing     *)
(* cw20's storage, saves the record, and checked_subs the redemption value *)
(* n * face_value from outstanding_principal (reverting everything if it   *)
(* does not cover it).                                                     *)
(***************************************************************************)
RedeemBonds(s, id, h, n) ==
  /\ h \in accounts
  /\ balances[h] >= n
  /\ supply >= n
  /\ n * FaceValue <= Uint128Max
  /\ bond.outstanding_principal >= n * FaceValue
  /\ balances' = [balances EXCEPT ![h] = @ - n]
  /\ supply' = supply - n
  /\ redemptionRecords' = [redemptionRecords EXCEPT ![id] =
       [bondholder |-> h, redemption_value |-> n * FaceValue]]
  /\ bond' = [bond EXCEPT !.outstanding_principal = @ - n * FaceValue]
  /\ caller' = s
  /\ UNCHANGED <<accounts, minter, allowances, couponPayments, bondTransfers,
                 interestCalculations>>

(***************************************************************************)
(* record_transfer: no authorisation; from and to only need to be valid    *)
(* addresses.  Saves a record; no tokens move.                             *)
(***************************************************************************)
RecordTransfer(s, id, n) ==
  /\ bondTransfers' = [bondTransfers EXCEPT ![id] = [bonds_transferred |-> n]]
  /\ caller' = s
  /\ UNCHANGED <<bond, couponPayments, redemptionRecords, interestCalculations,
                 ledgerVars>>

(***************************************************************************)
(* calculate_interest: bonds_held * face_value * coupon_rate *             *)
(* Decimal::from_ratio(days_held, 365) (SimpleInterest, Actual365) or over *)
(* 360 (Actual360, Thirty360), evaluated left to right; Decimal::zero()    *)
(* for CompoundInterest.  Uint128 * Uint128 is checked; Uint128 * Decimal  *)
(* is multiply_ratio(atomics, DECIMAL_FRACTIONAL), which rounds down and   *)
(* panics when the result leaves Uint128; from_ratio rounds the atomics    *)
(* down.  So every product of the chain is floored on its own.            *)
(***************************************************************************)
DayBasis(method) == IF method \in {"SimpleInterest", "Actual365"} THEN 365 ELSE 360

\* Decimal::from_ratio(n, d): the atomics of n / d.
DecimalFromRatio(n, d) == (n * DecimalFractional) \div d

\* Mutant of MulDecimal: the product with a Decimal is rounded up.
MulDecimalCeil(x, atomics) ==
  (x * atomics + DecimalFractional - 1) \div DecimalFractional

\* Uint128 * Decimal, for a Decimal with the given atomics.
MulDecimal(x, atomics) == (x * atomics) \div DecimalFractional

\* The three products of the chain, in the order the code takes them.
Principal(held) == held * FaceValue
PrincipalAtRate(held) == MulDecimal(Principal(held), CouponRate)

AccruedInterest(held, days, method) ==
  IF method = "CompoundInterest" THEN 0
  ELSE MulDecimal(PrincipalAtRate(held), DecimalFromRatio(days, DayBasis(method)))

\* No product of the chain leaves Uint128 (else calculate_interest panics).
InterestFits(held, days, method) ==
  /\ Principal(held) <= Uint128Max
  /\ PrincipalAtRate(held) <= Uint128Max
  /\ AccruedInterest(held, days, method) <= Uint128Max

\* calculate_interest: no authorisation; saves the calculation record only.
CalculateInterest(s, id, held, days, method) ==
  /\ InterestFits(held, days, method)
  /\ interestCalculations' = [interestCalculations EXCEPT ![id] =
       [bonds_held |-> held, days_held |-> days,
        accrued_interest |-> AccruedInterest(held, days, method),
        calculation_method |-> method]]
  /\ caller' = s
  /\ UNCHANGED <<bond, couponPayments, redemptionRecords, bondTransfers, ledgerVars>>

\* update_payment_status: no authorisation; the payment must exist.
UpdatePaymentStatus(s, id, st) ==
  /\ couponPayments[id] # NoRecord
  /\ couponPayments' = [couponPayments EXCEPT ![id].payment_status = st]
  /\ caller' = s
  /\ UNCHANGED <<bond, redemptionRecords, bondTransfers, interestCalculations,
                 ledgerVars>>

\* update_bond_rating: only the issuer or the trustee.
UpdateBondRating(s, r) ==
  /\ s \in {Issuer, Trustee}
  /\ bond' = [bond EXCEPT !.bond_rating = r]
  /\ caller' = s
  /\ UNCHANGED <<couponPayments, redemptionRecords, bondTransfers,
                 interestCalculations, ledgerVars>>

\* update_collateral_value: only the trustee.
UpdateCollateralValue(s, v) ==
  /\ s = Trustee
  /\ bond' = [bond EXCEPT !.collateral_value = v]
  /\ caller' = s
  /\ UNCHANGED <<couponPayments, redemptionRecords, bondTransfers,
                 interestCalculations, ledgerVars>>

LedgerStep == Cw20Next /\ UNCHANGED bondVars

Next ==
  \/ \E s \in Addr, n \in Amounts :
       \/ \E id \in PaymentIds, p \in Amounts : PayCoupon(s, id, n, p)
       \/ \E id \in RedemptionIds, h \in Addr : RedeemBonds(s, id, h, n)
       \/ \E id \in TransferIds : RecordTransfer(s, id, n)
       \/ \E id \in CalculationIds, d \in Days, m \in CalculationMethod :
            CalculateInterest(s, id, n, d, m)
       \/ UpdateCollateralValue(s, n)
  \/ \E s \in Addr, id \in PaymentIds, st \in PaymentStatus :
       UpdatePaymentStatus(s, id, st)
  \/ \E s \in Addr, r \in Ratings : UpdateBondRating(s, r)
  \/ LedgerStep

Spec == Init /\ [][Next]_vars

-----------------------------------------------------------------------------
SumRecords(recs, ids, F(_)) ==
  SumFunction([id \in ids |-> IF recs[id] = NoRecord THEN 0 ELSE F(recs[id])])

CouponsInRecords == SumRecords(couponPayments, PaymentIds, LAMBDA r : r.coupon_amount)

PrincipalInRecords == SumRecords(couponPayments, PaymentIds, LAMBDA r : r.principal_amount)

RedeemedInRecords ==
  SumRecords(redemptionRecords, RedemptionIds, LAMBDA r : r.redemption_value)

(* The balances always sum to the total supply, though redeem_bonds burns by hand. *)
LedgerSupply == SumFunction(balances) = supply

(***************************************************************************)
(* The records never claim more than the aggregate accounts for: the      *)
(* coupons and the principal in the payment records are at most what      *)
(* pay_coupon added to the totals, and the principal repaid or redeemed    *)
(* according to the records is at most the principal that has left        *)
(* outstanding_principal since instantiation.                              *)
(***************************************************************************)
RecordsWithinAggregate ==
  /\ CouponsInRecords <= bond.total_coupons_paid - InitialBond.total_coupons_paid
  /\ PrincipalInRecords <=
       bond.total_principal_repaid - InitialBond.total_principal_repaid
  /\ PrincipalInRecords + RedeemedInRecords <=
       InitialBond.outstanding_principal - bond.outstanding_principal

(***************************************************************************)
(* Spec 3: a payment goes Pending -> Paid / Failed / Cancelled, so one     *)
(* that pay_coupon saved as Paid, and counted in the totals, stays Paid.   *)
(* Checked in a violation run: update_payment_status lets any sender set   *)
(* any status.                                                             *)
(***************************************************************************)
PaidPaymentsStayPaid ==
  \A id \in PaymentIds :
    couponPayments[id] # NoRecord => couponPayments[id].payment_status = "Paid"

(***************************************************************************)
(* Spec 4.3 (authorization precedes every transition) and spec 8: a       *)
(* holder's balance only goes down in a message the holder sent, or one   *)
(* sent by a spender it approved for the amount.  Checked in a violation  *)
(* run: redeem_bonds burns the balance of whichever bondholder the         *)
(* message names.                                                          *)
(***************************************************************************)
HolderConsent == [][ConsentedDebits]_vars

(***************************************************************************)
(* Every bond in circulation can be redeemed at face value: the           *)
(* outstanding principal covers the supply.  Checked in a violation run:   *)
(* pay_coupon repays principal without burning any bond, and redeem_bonds  *)
(* then fails its checked_sub on outstanding_principal for a holder whose  *)
(* balance covers the redemption.                                          *)
(***************************************************************************)
AllBondsRedeemable == supply * FaceValue <= bond.outstanding_principal

(***************************************************************************)
(* Spec 4.3 step 4: interest is units * face_value * rate * days / basis   *)
(* with basis 365 or 360 by day-count convention, and zero for the         *)
(* unsupported compound method; spec section 6 asks for exact precision.   *)
(* The chained floors of calculate_interest never overstate that value,    *)
(* and fall short of it by less than 1 + days/basis + principal*rate/F^2   *)
(* + 1/F units (F = DecimalFractional): the loss of one whole unit in      *)
(* principal*rate, scaled by days/basis, plus the last floor.  Stated      *)
(* multiplied out by F*F*basis, over the integers.                         *)
(***************************************************************************)
InterestWithinRounding ==
  \A id \in CalculationIds :
    LET c     == interestCalculations[id]
        F     == DecimalFractional
        B     == DayBasis(c.calculation_method)
        xR    == c.bonds_held * FaceValue * CouponRate
        exact == xR * c.days_held
    IN  c # NoRecord =>
          IF c.calculation_method = "CompoundInterest" THEN c.accrued_interest = 0
          ELSE /\ c.accrued_interest * F * B <= exact
               /\ exact * F < (c.accrued_interest + 1) * F * F * B
                               + xR * B + c.days_held * F * F + F * B

=============================================================================
