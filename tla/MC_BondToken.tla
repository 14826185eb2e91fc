----------------------------- MODULE MC_BondToken -----------------------------
(***************************************************************************)
(* A small bond instance: pa is the issuer, the paying agent and the cw20  *)
(* minter; the trustee h holds the two bonds issued, at a face value of 1, *)
(* so the outstanding principal is 2.  Coupons are quarterly and the date  *)
(* range allows two payments; amounts go up to 2 against a Uint128 of      *)
(* 0..3; one id per collection; a coupon rate of one half.                 *)
(***************************************************************************)
EXTENDS BondToken, TLC

CONSTANTS pa, h, p1, r1, t1, c1

MCAddr == {pa, h}
MCInitialBalances == h :> 2
MCInitialBond ==
  [outstanding_principal |-> 2, total_coupons_paid |-> 0,
   total_principal_repaid |-> 0, next_coupon_date |-> 0,
   bond_rating |-> "AAA", collateral_value |-> 0]

=============================================================================
