-------------------------- MODULE OilReserveProofs --------------------------
(***************************************************************************)
(* Proofs about the oil-reserve-token model, for every value of the        *)
(* constants that satisfies Cw20Assumption and OilAssumption.              *)
(***************************************************************************)
EXTENDS OilReserve, Cw20Proofs, TLAPS

USE Cw20Assumption, OilAssumption

(* The tokens minted for b barrels are a natural number. *)
LEMMA TokensToMintNat == \A b \in Nat : TokensToMint(b) \in Nat
BY DEF TokensToMint

-----------------------------------------------------------------------------
(* Type correctness of the oil reserve model. *)

LEMMA InitTypeOK == Init => TypeOK
BY DEF Init, Cw20Init, TypeOK, Cw20TypeOK, Uint128

LEMMA NextTypeOK == TypeOK /\ [Next]_vars => TypeOK'
<1> SUFFICES ASSUME TypeOK, [Next]_vars PROVE TypeOK'
  OBVIOUS
<1>1. ASSUME NEW s \in Addr, NEW b \in Amounts, NEW id \in ExtractionIds,
             RecordExtraction(s, id, b)
      PROVE  TypeOK'
  <2> DEFINE t == TokensToMint(b)
  <2>1. t \in Nat
    BY TokensToMintNat DEF Uint128
  <2>2. Cw20TypeOK'
    BY <1>1, <2>1 DEF RecordExtraction, Mint, Credit, TypeOK, Cw20TypeOK, Uint128
  <2>3. reserve' \in ReserveInfo
    <3>1. reserve' = [total_reserves_barrels |-> reserve.total_reserves_barrels,
                      extracted_barrels |-> reserve.extracted_barrels + b,
                      available_barrels |-> reserve.available_barrels - b]
      BY <1>1 DEF RecordExtraction, TypeOK, ReserveInfo
    <3>2. /\ reserve.total_reserves_barrels \in Uint128
          /\ reserve.extracted_barrels + b \in Uint128
          /\ reserve.available_barrels - b \in Uint128
      BY <1>1 DEF RecordExtraction, Fits, TypeOK, ReserveInfo, Uint128
    <3> QED
      BY <3>1, <3>2 DEF ReserveInfo
  <2>4. extractionRecords' \in [ExtractionIds -> ExtractionRecord \cup {NoRecord}]
    BY <1>1 DEF RecordExtraction, TypeOK, ExtractionRecord, Uint128
  <2>5. UNCHANGED <<reserveAudits, tradingRecords>>
    BY <1>1 DEF RecordExtraction
  <2> QED
    BY <2>2, <2>3, <2>4, <2>5 DEF TypeOK
<1>2. ASSUME NEW s \in Addr, NEW r \in Amounts, NEW id \in AuditIds,
             ConductReserveAudit(s, id, r)
      PROVE  TypeOK'
  BY <1>2 DEF ConductReserveAudit, TypeOK, Cw20TypeOK, ReserveAudit, AuditStatus,
              Uint128, ledgerVars
<1>3. ASSUME NEW s \in Addr, NEW id \in AuditIds, NEW st \in AuditStatus,
             UpdateAuditStatus(s, id, st)
      PROVE  TypeOK'
  BY <1>3 DEF UpdateAuditStatus, TypeOK, Cw20TypeOK, ReserveAudit, ledgerVars
<1>4. ASSUME NEW s \in Addr, NEW n \in Amounts, NEW id \in TradeIds,
             RecordTrade(s, id, n)
      PROVE  TypeOK'
  BY <1>4 DEF RecordTrade, TypeOK, Cw20TypeOK, TradingRecord, TradeStatus,
              Uint128, ledgerVars
<1>5. ASSUME NEW s \in Addr, NEW id \in TradeIds, NEW st \in TradeStatus,
             UpdateTradeStatus(s, id, st)
      PROVE  TypeOK'
  BY <1>5 DEF UpdateTradeStatus, TypeOK, Cw20TypeOK, TradingRecord, ledgerVars
<1>6. CASE LedgerStep
  BY <1>6, Cw20NextTypeOK DEF LedgerStep, TypeOK, oilVars
<1>7. CASE UNCHANGED vars
  BY <1>7 DEF vars, oilVars, ledgerVars, TypeOK, Cw20TypeOK
<1> QED
  BY <1>1, <1>2, <1>3, <1>4, <1>5, <1>6, <1>7 DEF Next

(* TypeOK holds in every state of every behaviour. *)
THEOREM TypeCorrect == Spec => []TypeOK
BY InitTypeOK, NextTypeOK, PTL DEF Spec

-----------------------------------------------------------------------------
(***************************************************************************)
(* Refinement: record_extraction is a Remove of b barrels; audits, trades  *)
(* and cw20 messages leave the reserve aggregate unchanged.                *)
(***************************************************************************)
LEMMA NextRefines ==
  TypeOK /\ [Next]_vars => [Capacity!CapacityNext]_Capacity!cvars
<1> SUFFICES ASSUME TypeOK, [Next]_vars
             PROVE  [Capacity!CapacityNext]_Capacity!cvars
  OBVIOUS
<1>1. ASSUME NEW s \in Addr, NEW b \in Amounts, NEW id \in ExtractionIds,
             RecordExtraction(s, id, b)
      PROVE  Capacity!Remove(b) /\ b \in 0..Uint128Max
  BY <1>1 DEF RecordExtraction, Fits, Capacity!Remove, TypeOK, ReserveInfo, Uint128
<1>2. ASSUME NEW s \in Addr, NEW r \in Amounts, NEW id \in AuditIds,
             ConductReserveAudit(s, id, r)
      PROVE  UNCHANGED Capacity!cvars
  BY <1>2 DEF ConductReserveAudit, Capacity!cvars
<1>3. ASSUME NEW s \in Addr, NEW id \in AuditIds, NEW st \in AuditStatus,
             UpdateAuditStatus(s, id, st)
      PROVE  UNCHANGED Capacity!cvars
  BY <1>3 DEF UpdateAuditStatus, Capacity!cvars
<1>4. ASSUME NEW s \in Addr, NEW n \in Amounts, NEW id \in TradeIds,
             RecordTrade(s, id, n)
      PROVE  UNCHANGED Capacity!cvars
  BY <1>4 DEF RecordTrade, Capacity!cvars
<1>5. ASSUME NEW s \in Addr, NEW id \in TradeIds, NEW st \in TradeStatus,
             UpdateTradeStatus(s, id, st)
      PROVE  UNCHANGED Capacity!cvars
  BY <1>5 DEF UpdateTradeStatus, Capacity!cvars
<1>6. CASE LedgerStep
  BY <1>6 DEF LedgerStep, oilVars, Capacity!cvars
<1>7. CASE UNCHANGED vars
  BY <1>7 DEF vars, oilVars, Capacity!cvars
<1> QED
  BY <1>1, <1>2, <1>3, <1>4, <1>5, <1>6, <1>7 DEF Next, Capacity!CapacityNext

(* The oil-reserve model implements CapacityLedger. *)
THEOREM Refinement == Spec => CapacityRefinement
<1>1. Init => Capacity!CapacityInit
  BY DEF Init, Capacity!CapacityInit
<1> QED
  BY <1>1, NextRefines, TypeCorrect, PTL
  DEF Spec, CapacityRefinement, Capacity!CapacitySpec

(***************************************************************************)
(* Reserve conservation, for every instance whose InstantiateMsg carries a *)
(* consistent oil_reserve_info (instantiate does not check it): it follows *)
(* from the refinement and the conservation theorem of CapacityLedger.     *)
(***************************************************************************)
THEOREM Conservation ==
  ASSUME InitialReserve.total_reserves_barrels =
           InitialReserve.extracted_barrels + InitialReserve.available_barrels
  PROVE  Spec => []ReserveConservation
<1>1. Capacity!CapacitySpec => [](Capacity!CapacityTypeOK /\ Capacity!Conserved)
  BY Capacity!CapacityConserved DEF ReserveInfo, Uint128
<1>2. TypeOK /\ Capacity!Conserved => ReserveConservation
  BY DEF Capacity!Conserved, ReserveConservation, TypeOK, ReserveInfo, Uint128
<1> QED
  BY <1>1, <1>2, Refinement, TypeCorrect, PTL DEF CapacityRefinement

-----------------------------------------------------------------------------
(***************************************************************************)
(* Holder consent: no oil handler debits a balance.  record_extraction     *)
(* only credits the extraction company through the nested Mint; audits     *)
(* and trades leave BALANCES alone; the cw20 passthrough steps follow from *)
(* Cw20HolderConsent.                                                      *)
(***************************************************************************)
LEMMA ConsentStep ==
  ASSUME TypeOK, [Next]_vars
  PROVE  ConsentedDebits
<1> SUFFICES ASSUME NEW h \in Addr, balances'[h] < balances[h]
             PROVE  \/ caller' = h
                    \/ /\ caller' \in Addr
                       /\ allowances[<<h, caller'>>] >= balances[h] - balances'[h]
  BY DEF ConsentedDebits
<1>1. ASSUME NEW s \in Addr, NEW b \in Amounts, NEW id \in ExtractionIds,
             RecordExtraction(s, id, b)
      PROVE  FALSE
  <2>1. TokensToMint(b) \in Nat
    BY TokensToMintNat DEF Uint128
  <2> QED
    BY <1>1, <2>1 DEF RecordExtraction, Mint, Credit, TypeOK, Cw20TypeOK, Uint128
<1>2. ASSUME NEW s \in Addr, NEW r \in Amounts, NEW id \in AuditIds,
             ConductReserveAudit(s, id, r)
      PROVE  FALSE
  BY <1>2 DEF ConductReserveAudit, ledgerVars, TypeOK, Cw20TypeOK, Uint128
<1>3. ASSUME NEW s \in Addr, NEW id \in AuditIds, NEW st \in AuditStatus,
             UpdateAuditStatus(s, id, st)
      PROVE  FALSE
  BY <1>3 DEF UpdateAuditStatus, ledgerVars, TypeOK, Cw20TypeOK, Uint128
<1>4. ASSUME NEW s \in Addr, NEW n \in Amounts, NEW id \in TradeIds,
             RecordTrade(s, id, n)
      PROVE  FALSE
  BY <1>4 DEF RecordTrade, ledgerVars, TypeOK, Cw20TypeOK, Uint128
<1>5. ASSUME NEW s \in Addr, NEW id \in TradeIds, NEW st \in TradeStatus,
             UpdateTradeStatus(s, id, st)
      PROVE  FALSE
  BY <1>5 DEF UpdateTradeStatus, ledgerVars, TypeOK, Cw20TypeOK, Uint128
<1>6. CASE LedgerStep
  BY <1>6, Cw20HolderConsent DEF LedgerStep, TypeOK, ConsentedDebits
<1>7. CASE UNCHANGED vars
  BY <1>7 DEF vars, ledgerVars, TypeOK, Cw20TypeOK, Uint128
<1> QED
  BY <1>1, <1>2, <1>3, <1>4, <1>5, <1>6, <1>7 DEF Next

(* The action property HolderConsent holds of every behaviour. *)
THEOREM HolderConsentHolds == Spec => HolderConsent
<1>1. TypeOK /\ [Next]_vars => [ConsentedDebits]_vars
  BY ConsentStep
<1> QED
  BY <1>1, TypeCorrect, PTL DEF Spec, HolderConsent

=============================================================================
