--------------------------- MODULE MC_CarbonCredit ---------------------------
(***************************************************************************)
(* A small carbon-credit instance: the verification body vb, which also   *)
(* holds the cw20 minter role, and one holder h.  Amounts up to 2 against *)
(* a Uint128 of 0..3, so that overflow, exact-zero balances and partial   *)
(* retirements all occur; one id per collection, so that resubmission     *)
(* under a used id occurs.                                                 *)
(***************************************************************************)
EXTENDS CarbonCredit, TLC

CONSTANTS vb, h, v1, r1

MCAddr == {vb, h}
MCInitialBalances == h :> 1
MCInitialInfo ==
  [total_credits_issued |-> 1, credits_retired |-> 0, credits_available |-> 1]
MCVerificationIds == {v1}
MCRetirementIds == {r1}

=============================================================================
