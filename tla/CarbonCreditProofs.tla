------------------------- MODULE CarbonCreditProofs -------------------------
(***************************************************************************)
(* Proofs about the carbon-credit-token model, for every value of the      *)
(* constants that satisfies Cw20Assumption and CarbonAssumption.           *)
(***************************************************************************)
EXTENDS CarbonCredit, Cw20Proofs, TLAPS

USE Cw20Assumption, CarbonAssumption

-----------------------------------------------------------------------------
(* Type correctness of the carbon credit model. *)

LEMMA InitTypeOK == Init => TypeOK
BY DEF Init, Cw20Init, TypeOK, Cw20TypeOK, Uint128

LEMMA NextTypeOK == TypeOK /\ [Next]_vars => TypeOK'
<1> SUFFICES ASSUME TypeOK, [Next]_vars PROVE TypeOK'
  OBVIOUS
<1>1. ASSUME NEW s \in Addr, NEW n \in Amounts, NEW id \in VerificationIds,
             VerifyCredits(s, id, n)
      PROVE  TypeOK'
  <2>1. Cw20TypeOK'
    BY <1>1 DEF VerifyCredits, TypeOK, Cw20TypeOK, ledgerVars
  <2>2. info' \in CreditInfo
    <3>1. info' = [total_credits_issued |-> info.total_credits_issued + n,
                   credits_retired |-> info.credits_retired,
                   credits_available |-> info.credits_available + n]
      BY <1>1 DEF VerifyCredits, TypeOK, CreditInfo
    <3>2. /\ info.total_credits_issued + n \in Uint128
          /\ info.credits_retired \in Uint128
          /\ info.credits_available + n \in Uint128
      BY <1>1 DEF VerifyCredits, Fits, TypeOK, CreditInfo, Uint128
    <3> QED
      BY <3>1, <3>2 DEF CreditInfo
  <2>3. verificationRecords' \in [VerificationIds -> VerificationRecord \cup {NoRecord}]
    BY <1>1 DEF VerifyCredits, TypeOK, VerificationRecord, VerificationStatus, Uint128
  <2>4. retirementRecords' = retirementRecords
    BY <1>1 DEF VerifyCredits
  <2> QED
    BY <2>1, <2>2, <2>3, <2>4 DEF TypeOK
<1>2. ASSUME NEW s \in Addr, NEW n \in Amounts, NEW id \in RetirementIds,
             RetireCredits(s, id, n)
      PROVE  TypeOK'
  <2>1. Cw20TypeOK'
    BY <1>2 DEF RetireCredits, TypeOK, Cw20TypeOK, Uint128
  <2>2. info' \in CreditInfo
    <3>1. info' = [total_credits_issued |-> info.total_credits_issued,
                   credits_retired |-> info.credits_retired + n,
                   credits_available |-> info.credits_available - n]
      BY <1>2 DEF RetireCredits, TypeOK, CreditInfo
    <3>2. /\ info.total_credits_issued \in Uint128
          /\ info.credits_retired + n \in Uint128
          /\ info.credits_available - n \in Uint128
      BY <1>2 DEF RetireCredits, Fits, TypeOK, CreditInfo, Uint128
    <3> QED
      BY <3>1, <3>2 DEF CreditInfo
  <2>3. retirementRecords' \in [RetirementIds -> RetirementRecord \cup {NoRecord}]
    BY <1>2 DEF RetireCredits, TypeOK, RetirementRecord, Uint128
  <2>4. verificationRecords' = verificationRecords
    BY <1>2 DEF RetireCredits
  <2> QED
    BY <2>1, <2>2, <2>3, <2>4 DEF TypeOK
<1>3. ASSUME NEW s \in Addr, NEW id \in VerificationIds,
             NEW st \in VerificationStatus,
             UpdateVerificationStatus(s, id, st)
      PROVE  TypeOK'
  BY <1>3 DEF UpdateVerificationStatus, TypeOK, Cw20TypeOK,
              VerificationRecord, ledgerVars
<1>4. CASE LedgerStep
  BY <1>4, Cw20NextTypeOK DEF LedgerStep, TypeOK
<1>5. CASE UNCHANGED vars
  BY <1>5 DEF vars, ledgerVars, TypeOK, Cw20TypeOK
<1> QED
  BY <1>1, <1>2, <1>3, <1>4, <1>5 DEF Next

(* TypeOK holds in every state of every behaviour. *)
THEOREM TypeCorrect == Spec => []TypeOK
BY InitTypeOK, NextTypeOK, PTL DEF Spec

-----------------------------------------------------------------------------
(***************************************************************************)
(* Credit conservation, for every instance whose InstantiateMsg carries a  *)
(* consistent carbon_credit_info (instantiate itself does not check it).   *)
(* verify_credits adds n to both total_credits_issued and                  *)
(* credits_available; retire_credits moves n from credits_available to     *)
(* credits_retired; nothing else writes CARBON_CREDIT_INFO.  TypeOK is the *)
(* only strengthening needed: it makes the fields naturals.                *)
(***************************************************************************)
THEOREM Conservation ==
  ASSUME InitialInfo.total_credits_issued =
           InitialInfo.credits_available + InitialInfo.credits_retired
  PROVE  Spec => []CreditConservation
<1>1. Init => CreditConservation
  BY DEF Init, CreditConservation
<1>2. TypeOK /\ CreditConservation /\ [Next]_vars => CreditConservation'
  <2> SUFFICES ASSUME TypeOK, CreditConservation, [Next]_vars
               PROVE  CreditConservation'
    OBVIOUS
  <2>1. ASSUME NEW s \in Addr, NEW n \in Amounts, NEW id \in VerificationIds,
               VerifyCredits(s, id, n)
        PROVE  CreditConservation'
    BY <2>1 DEF VerifyCredits, CreditConservation, TypeOK, CreditInfo, Uint128
  <2>2. ASSUME NEW s \in Addr, NEW n \in Amounts, NEW id \in RetirementIds,
               RetireCredits(s, id, n)
        PROVE  CreditConservation'
    BY <2>2 DEF RetireCredits, CreditConservation, TypeOK, CreditInfo, Uint128
  <2>3. ASSUME NEW s \in Addr, NEW id \in VerificationIds,
               NEW st \in VerificationStatus,
               UpdateVerificationStatus(s, id, st)
        PROVE  CreditConservation'
    BY <2>3 DEF UpdateVerificationStatus, CreditConservation
  <2>4. CASE LedgerStep
    BY <2>4 DEF LedgerStep, CreditConservation
  <2>5. CASE UNCHANGED vars
    BY <2>5 DEF vars, CreditConservation
  <2> QED
    BY <2>1, <2>2, <2>3, <2>4, <2>5 DEF Next
<1> QED
  BY <1>1, <1>2, TypeCorrect, PTL DEF Spec

-----------------------------------------------------------------------------
(***************************************************************************)
(* Refinement: every behaviour of the carbon-credit model is a behaviour   *)
(* of CapacityLedger under the mapping in CarbonCredit: verify_credits is  *)
(* an Issue, retire_credits a Remove, and every other message (status      *)
(* updates, cw20 passthrough) a stuttering step of the aggregate.  TypeOK  *)
(* gives the amount its range 0..Uint128Max.                               *)
(***************************************************************************)
LEMMA NextRefines ==
  TypeOK /\ [Next]_vars => [Capacity!CapacityNext]_Capacity!cvars
<1> SUFFICES ASSUME TypeOK, [Next]_vars
             PROVE  [Capacity!CapacityNext]_Capacity!cvars
  OBVIOUS
<1>1. ASSUME NEW s \in Addr, NEW n \in Amounts, NEW id \in VerificationIds,
             VerifyCredits(s, id, n)
      PROVE  Capacity!Issue(n) /\ n \in 0..Uint128Max
  BY <1>1 DEF VerifyCredits, Fits, Capacity!Issue, TypeOK, CreditInfo, Uint128
<1>2. ASSUME NEW s \in Addr, NEW n \in Amounts, NEW id \in RetirementIds,
             RetireCredits(s, id, n)
      PROVE  Capacity!Remove(n) /\ n \in 0..Uint128Max
  BY <1>2 DEF RetireCredits, Fits, Capacity!Remove, TypeOK, CreditInfo, Uint128
<1>3. ASSUME NEW s \in Addr, NEW id \in VerificationIds,
             NEW st \in VerificationStatus,
             UpdateVerificationStatus(s, id, st)
      PROVE  UNCHANGED Capacity!cvars
  BY <1>3 DEF UpdateVerificationStatus, Capacity!cvars
<1>4. CASE LedgerStep
  BY <1>4 DEF LedgerStep, Capacity!cvars
<1>5. CASE UNCHANGED vars
  BY <1>5 DEF vars, Capacity!cvars
<1> QED
  BY <1>1, <1>2, <1>3, <1>4, <1>5 DEF Next, Capacity!CapacityNext

(* The carbon-credit model implements CapacityLedger. *)
THEOREM Refinement == Spec => CapacityRefinement
<1>1. Init => Capacity!CapacityInit
  BY DEF Init, Capacity!CapacityInit
<1> QED
  BY <1>1, NextRefines, TypeCorrect, PTL
  DEF Spec, CapacityRefinement, Capacity!CapacitySpec

-----------------------------------------------------------------------------
(***************************************************************************)
(* Holder consent, for every instance: a holder's balance only goes down   *)
(* in a message the holder sent (retire_credits burns from info.sender,    *)
(* Transfer, Send and Burn debit the sender), or in TransferFrom or        *)
(* SendFrom by a spender whose allowance from the holder covers the        *)
(* amount.  verify_credits and update_verification_status do not touch     *)
(* BALANCES.  TypeOK is the invariant it rests on.                         *)
(***************************************************************************)
LEMMA ConsentStep ==
  ASSUME TypeOK, [Next]_vars
  PROVE  ConsentedDebits
<1> SUFFICES ASSUME NEW h \in Addr, balances'[h] < balances[h]
             PROVE  \/ caller' = h
                    \/ /\ caller' \in Addr
                       /\ allowances[<<h, caller'>>] >= balances[h] - balances'[h]
  BY DEF ConsentedDebits
<1>1. ASSUME NEW s \in Addr, NEW n \in Amounts, NEW id \in VerificationIds,
             VerifyCredits(s, id, n)
      PROVE  FALSE
  BY <1>1 DEF VerifyCredits, ledgerVars, TypeOK, Cw20TypeOK, Uint128
<1>2. ASSUME NEW s \in Addr, NEW n \in Amounts, NEW id \in RetirementIds,
             RetireCredits(s, id, n)
      PROVE  caller' = h
  BY <1>2 DEF RetireCredits, TypeOK, Cw20TypeOK, Uint128
<1>3. ASSUME NEW s \in Addr, NEW id \in VerificationIds,
             NEW st \in VerificationStatus,
             UpdateVerificationStatus(s, id, st)
      PROVE  FALSE
  BY <1>3 DEF UpdateVerificationStatus, ledgerVars, TypeOK, Cw20TypeOK, Uint128
<1>4. CASE LedgerStep
  BY <1>4, Cw20HolderConsent DEF LedgerStep, TypeOK, ConsentedDebits
<1>5. CASE UNCHANGED vars
  BY <1>5 DEF vars, ledgerVars, TypeOK, Cw20TypeOK, Uint128
<1> QED
  BY <1>1, <1>2, <1>3, <1>4, <1>5 DEF Next

(* The action property HolderConsent holds of every behaviour. *)
THEOREM HolderConsentHolds == Spec => HolderConsent
<1>1. TypeOK /\ [Next]_vars => [ConsentedDebits]_vars
  BY ConsentStep
<1> QED
  BY <1>1, TypeCorrect, PTL DEF Spec, HolderConsent

=============================================================================
