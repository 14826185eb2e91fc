---------------------------- MODULE MC_OilReserve ----------------------------
(***************************************************************************)
(* A small oil-reserve instance: the extraction company ec, which holds   *)
(* the cw20 minter role as record_extraction requires, and the reserve    *)
(* auditor au, who also holds one token and trades.  A reserve of 3       *)
(* barrels, half a token per barrel (so that a one-barrel extraction       *)
(* rounds to zero tokens), amounts up to 2 against a Uint128 of 0..3, one  *)
(* id per collection.                                                      *)
(***************************************************************************)
EXTENDS OilReserve, TLC

CONSTANTS ec, au, x1, a1, t1

MCAddr == {ec, au}
MCInitialBalances == au :> 1
MCInitialReserve ==
  [total_reserves_barrels |-> 3, extracted_barrels |-> 0, available_barrels |-> 3]

=============================================================================
