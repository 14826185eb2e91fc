-------------------------------- MODULE Cw20 --------------------------------
(***************************************************************************)
(* The cw20-base token ledger that each of the three contracts wraps, as   *)
(* far as the contracts' ExecuteMsg passthrough arms expose it: Transfer   *)
(* and Send, Burn, Mint, UpdateMinter, IncreaseAllowance,                  *)
(* DecreaseAllowance, TransferFrom and SendFrom.  Each arm forwards the    *)
(* message verbatim to cw20_base::contract::execute; the effect on the     *)
(* ledger's storage (BALANCES, TOKEN_INFO.total_supply, the minter, and    *)
(* ALLOWANCES) is the one the cw20 interface promises.                     *)
(*                                                                         *)
(* A CosmWasm execute call is a transaction: when the handler returns Err  *)
(* or panics (Uint128 overflow), every storage write it made is discarded. *)
(* A failing call is therefore no step at all, and each action below is    *)
(* the conjunction of every condition under which the call returns Ok.    *)
(*                                                                         *)
(* The variable caller records info.sender of the last committed message;  *)
(* it is what the action properties about authorisation talk about.       *)
(***************************************************************************)
EXTENDS Naturals, Functions

CONSTANTS
  Addr,            \* the addresses that send messages or hold tokens
  Amounts,         \* the Uint128 amounts a message may carry
  Uint128Max,      \* Uint128::MAX, scaled down to keep the model finite
  Cap,             \* MinterData.cap; Cap = Uint128Max models cap: None
  InitialBalances, \* InstantiateMsg.initial_balances, a function on a subset of Addr
  InitialMinter,   \* InstantiateMsg.mint.minter, or NoMinter
  NoMinter,        \* the minter is None
  NoCaller         \* no message has been executed yet

ASSUME Cw20Assumption ==
  /\ Uint128Max \in Nat
  /\ Amounts \subseteq 0..Uint128Max
  /\ Cap \in 0..Uint128Max
  /\ DOMAIN InitialBalances \subseteq Addr
  /\ \A a \in DOMAIN InitialBalances : InitialBalances[a] \in 0..Uint128Max
  /\ SumFunction(InitialBalances) \in 0..Cap
  /\ InitialMinter \in Addr \cup {NoMinter}
  /\ NoMinter \notin Addr
  /\ NoCaller \notin Addr

VARIABLES
  balances,    \* BALANCES: the token balance of every address (0 if no entry)
  accounts,    \* the addresses that have an entry in BALANCES
  supply,      \* TOKEN_INFO.total_supply
  minter,      \* TOKEN_INFO.mint.minter
  allowances,  \* ALLOWANCES: allowances[<<owner, spender>>]
  caller       \* info.sender of the last committed message

ledgerVars == <<balances, accounts, supply, minter, allowances>>

Uint128 == 0..Uint128Max

\* A Uint128 addition that would overflow panics, and the call reverts.
Fits(x, n) == x + n <= Uint128Max

Cw20TypeOK ==
  /\ balances \in [Addr -> Uint128]
  /\ accounts \subseteq Addr
  /\ supply \in Uint128
  /\ minter \in Addr \cup {NoMinter}
  /\ allowances \in [Addr \X Addr -> Uint128]
  /\ caller \in Addr \cup {NoCaller}

(***************************************************************************)
(* cw20 instantiate: one BALANCES entry per initial balance, total supply  *)
(* their sum, which must not exceed the cap.  No allowances.               *)
(***************************************************************************)
Cw20Init ==
  /\ balances = [a \in Addr |-> IF a \in DOMAIN InitialBalances
                                THEN InitialBalances[a] ELSE 0]
  /\ accounts = DOMAIN InitialBalances
  /\ supply = SumFunction(InitialBalances)
  /\ minter = InitialMinter
  /\ allowances = [p \in Addr \X Addr |-> 0]
  /\ caller = NoCaller

(***************************************************************************)
(* Credit n tokens to r in the balances b (the ones left after the debit,  *)
(* if any): the addition must not overflow, and r gets a BALANCES entry.   *)
(***************************************************************************)
Credit(b, r, n) ==
  /\ b[r] + n <= Uint128Max
  /\ balances' = [b EXCEPT ![r] = @ + n]
  /\ accounts' = accounts \cup {r}

(***************************************************************************)
(* Transfer { recipient, amount } and Send { contract, amount, msg }: a    *)
(* zero amount is rejected, the sender's balance is checked_sub'ed and the *)
(* recipient's added to.  Send also emits a callback to the receiving      *)
(* contract; if that callback fails the whole transaction reverts, so its  *)
(* committed effect on this ledger is the transfer.                        *)
(***************************************************************************)
\* Mutant of Transfer: the credit reads the balance from before the debit.
TransferStaleCredit(s, r, n) ==
  /\ n # 0
  /\ balances[s] >= n
  /\ Credit(balances, r, n)
  /\ balances' = [balances EXCEPT ![s] = @ - n, ![r] = balances[r] + n]
  /\ caller' = s
  /\ UNCHANGED <<supply, minter, allowances>>

Transfer(s, r, n) ==
  /\ n # 0
  /\ balances[s] >= n
  /\ Credit([balances EXCEPT ![s] = @ - n], r, n)
  /\ caller' = s
  /\ UNCHANGED <<supply, minter, allowances>>

\* Burn { amount }: the sender's balance and the total supply are checked_sub'ed.
Burn(s, n) ==
  /\ n # 0
  /\ balances[s] >= n
  /\ supply >= n
  /\ balances' = [balances EXCEPT ![s] = @ - n]
  /\ supply' = supply - n
  /\ caller' = s
  /\ UNCHANGED <<accounts, minter, allowances>>

(***************************************************************************)
(* Mint { recipient, amount }: only the minter may mint, the new total     *)
(* supply must not exceed the cap, and the recipient is credited.          *)
(***************************************************************************)
\* Mutant of Mint: the cap is not checked.
MintUncapped(s, r, n) ==
  /\ n # 0
  /\ minter = s
  /\ supply' = supply + n
  /\ Credit(balances, r, n)
  /\ caller' = s
  /\ UNCHANGED <<minter, allowances>>

Mint(s, r, n) ==
  /\ n # 0
  /\ minter = s
  /\ supply + n <= Cap
  /\ supply' = supply + n
  /\ Credit(balances, r, n)
  /\ caller' = s
  /\ UNCHANGED <<minter, allowances>>

\* UpdateMinter { new_minter }: only the current minter may hand the role on.
UpdateMinter(s, m) ==
  /\ minter = s
  /\ minter' = m
  /\ caller' = s
  /\ UNCHANGED <<balances, accounts, supply, allowances>>

(***************************************************************************)
(* IncreaseAllowance / DecreaseAllowance { spender, amount, expires }: an  *)
(* owner cannot approve itself; an increase adds (and may overflow), a     *)
(* decrease loads the allowance (and fails when there is none), then       *)
(* subtracts or, at or below zero, removes it.  The model keeps no entry   *)
(* of zero apart from a missing one: a decrease of an entry left at zero   *)
(* would change nothing here but the caller, and is left out.  Expiration  *)
(* is Never in every message the model sends.                              *)
(***************************************************************************)
IncreaseAllowance(s, sp, n) ==
  /\ sp # s
  /\ allowances[<<s, sp>>] + n <= Uint128Max
  /\ allowances' = [allowances EXCEPT ![<<s, sp>>] = @ + n]
  /\ caller' = s
  /\ UNCHANGED <<balances, accounts, supply, minter>>

DecreaseAllowance(s, sp, n) ==
  /\ sp # s
  /\ allowances[<<s, sp>>] > 0
  /\ allowances' = [allowances EXCEPT ![<<s, sp>>] =
                      IF n < @ THEN @ - n ELSE 0]
  /\ caller' = s
  /\ UNCHANGED <<balances, accounts, supply, minter>>

(***************************************************************************)
(* TransferFrom { owner, recipient, amount } and SendFrom: the sender      *)
(* spends n of the allowance the owner granted it, then the transfer       *)
(* proceeds as above from the owner's balance.                             *)
(***************************************************************************)
\* Mutant of TransferFrom: the allowance is looked up as <<spender, owner>>.
TransferFromSwapped(s, o, r, n) ==
  /\ n # 0
  /\ allowances[<<s, o>>] >= n
  /\ balances[o] >= n
  /\ allowances' = [allowances EXCEPT ![<<s, o>>] = @ - n]
  /\ Credit([balances EXCEPT ![o] = @ - n], r, n)
  /\ caller' = s
  /\ UNCHANGED <<supply, minter>>

TransferFrom(s, o, r, n) ==
  /\ n # 0
  /\ allowances[<<o, s>>] >= n
  /\ balances[o] >= n
  /\ allowances' = [allowances EXCEPT ![<<o, s>>] = @ - n]
  /\ Credit([balances EXCEPT ![o] = @ - n], r, n)
  /\ caller' = s
  /\ UNCHANGED <<supply, minter>>

\* Every passthrough message any sender may send.
Cw20Next ==
  \E s \in Addr, n \in Amounts :
    \/ \E r \in Addr : Transfer(s, r, n) \/ Mint(s, r, n)
    \/ Burn(s, n)
    \/ \E m \in Addr \cup {NoMinter} : UpdateMinter(s, m)
    \/ \E sp \in Addr : IncreaseAllowance(s, sp, n) \/ DecreaseAllowance(s, sp, n)
    \/ \E o, r \in Addr : TransferFrom(s, o, r, n)

-----------------------------------------------------------------------------
(***************************************************************************)
(* The step formula of the HolderConsent action properties: in a step, a   *)
(* balance falls only if the message came from its holder, or from a      *)
(* spender whose allowance from the holder covers what was taken.          *)
(***************************************************************************)
ConsentedDebits ==
  \A h \in Addr :
    balances'[h] < balances[h] =>
      \/ caller' = h
      \/ /\ caller' \in Addr
         /\ allowances[<<h, caller'>>] >= balances[h] - balances'[h]

=============================================================================
