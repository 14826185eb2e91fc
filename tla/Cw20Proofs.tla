------------------------------ MODULE Cw20Proofs ------------------------------
(***************************************************************************)
(* Facts about the cw20 passthrough ledger that every contract model       *)
(* uses: each passthrough message keeps the ledger well typed.             *)
(***************************************************************************)
EXTENDS Cw20, TLAPS

USE Cw20Assumption

(* Type correctness of the cw20 passthrough steps: every message keeps     *)
(* balances, supply and allowances within Uint128.                         *)
LEMMA Cw20NextTypeOK ==
  ASSUME Cw20TypeOK, Cw20Next
  PROVE  Cw20TypeOK'
<1> PICK s \in Addr, n \in Amounts :
      \/ \E r \in Addr : Transfer(s, r, n) \/ Mint(s, r, n)
      \/ Burn(s, n)
      \/ \E m \in Addr \cup {NoMinter} : UpdateMinter(s, m)
      \/ \E sp \in Addr : IncreaseAllowance(s, sp, n) \/ DecreaseAllowance(s, sp, n)
      \/ \E o, r \in Addr : TransferFrom(s, o, r, n)
  BY DEF Cw20Next
<1> n \in Uint128
  BY DEF Uint128
<1>1. CASE \E r \in Addr : Transfer(s, r, n)
  BY <1>1 DEF Transfer, Credit, Cw20TypeOK, Uint128
<1>2. CASE \E r \in Addr : Mint(s, r, n)
  BY <1>2 DEF Mint, Credit, Cw20TypeOK, Uint128
<1>3. CASE Burn(s, n)
  BY <1>3 DEF Burn, Cw20TypeOK, Uint128
<1>4. CASE \E m \in Addr \cup {NoMinter} : UpdateMinter(s, m)
  BY <1>4 DEF UpdateMinter, Cw20TypeOK
<1>5. CASE \E sp \in Addr : IncreaseAllowance(s, sp, n)
  BY <1>5 DEF IncreaseAllowance, Cw20TypeOK, Uint128
<1>6. CASE \E sp \in Addr : DecreaseAllowance(s, sp, n)
  BY <1>6 DEF DecreaseAllowance, Cw20TypeOK, Uint128
<1>7. CASE \E o, r \in Addr : TransferFrom(s, o, r, n)
  BY <1>7 DEF TransferFrom, Credit, Cw20TypeOK, Uint128
<1> QED
  BY <1>1, <1>2, <1>3, <1>4, <1>5, <1>6, <1>7

(***************************************************************************)
(* Holder consent in one cw20 passthrough step: a balance only goes down   *)
(* in Transfer, Send or Burn by its holder, or in TransferFrom or SendFrom *)
(* by a spender whose allowance from the holder covers the amount taken.   *)
(***************************************************************************)
LEMMA Cw20HolderConsent ==
  ASSUME Cw20TypeOK, Cw20Next
  PROVE  ConsentedDebits
<1> SUFFICES ASSUME NEW h \in Addr, balances'[h] < balances[h], caller' # h
             PROVE  /\ caller' \in Addr
                    /\ allowances[<<h, caller'>>] >= balances[h] - balances'[h]
  BY DEF ConsentedDebits
<1> PICK s \in Addr, n \in Amounts :
      \/ \E r \in Addr : Transfer(s, r, n) \/ Mint(s, r, n)
      \/ Burn(s, n)
      \/ \E m \in Addr \cup {NoMinter} : UpdateMinter(s, m)
      \/ \E sp \in Addr : IncreaseAllowance(s, sp, n) \/ DecreaseAllowance(s, sp, n)
      \/ \E o, r \in Addr : TransferFrom(s, o, r, n)
  BY DEF Cw20Next
<1> n \in Uint128
  BY DEF Uint128
<1>1. CASE \E r \in Addr : Transfer(s, r, n)
  BY <1>1 DEF Transfer, Credit, Cw20TypeOK, Uint128
<1>2. CASE \E r \in Addr : Mint(s, r, n)
  BY <1>2 DEF Mint, Credit, Cw20TypeOK, Uint128
<1>3. CASE Burn(s, n)
  BY <1>3 DEF Burn, Cw20TypeOK, Uint128
<1>4. CASE \E m \in Addr \cup {NoMinter} : UpdateMinter(s, m)
  BY <1>4 DEF UpdateMinter, Cw20TypeOK, Uint128
<1>5. CASE \E sp \in Addr : IncreaseAllowance(s, sp, n)
  BY <1>5 DEF IncreaseAllowance, Cw20TypeOK, Uint128
<1>6. CASE \E sp \in Addr : DecreaseAllowance(s, sp, n)
  BY <1>6 DEF DecreaseAllowance, Cw20TypeOK, Uint128
<1>7. CASE \E o, r \in Addr : TransferFrom(s, o, r, n)
  <2> PICK o, r \in Addr : TransferFrom(s, o, r, n)
    BY <1>7
  <2>1. h = o
    BY DEF TransferFrom, Credit, Cw20TypeOK, Uint128
  <2>2. balances'[h] \in Int /\ balances[h] - balances'[h] <= n
    BY <2>1 DEF TransferFrom, Credit, Cw20TypeOK, Uint128
  <2>3. caller' = s /\ allowances[<<o, s>>] >= n
    BY DEF TransferFrom
  <2>4. allowances[<<h, caller'>>] = allowances[<<o, s>>]
    BY <2>1, <2>3
  <2>5. allowances[<<o, s>>] \in Nat /\ balances[h] \in Nat
    BY <2>1 DEF Cw20TypeOK, Uint128
  <2>6. allowances[<<h, caller'>>] >= balances[h] - balances'[h]
    BY <2>2, <2>3, <2>4, <2>5 DEF Uint128
  <2> QED
    BY <2>3, <2>6
<1> QED
  BY <1>1, <1>2, <1>3, <1>4, <1>5, <1>6, <1>7

=============================================================================
