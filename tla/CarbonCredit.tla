---------------------------- MODULE CarbonCredit ----------------------------
(***************************************************************************)
(* The carbon-credit-token contract                                       *)
(* (src/contracts/carbon-credit-token/src/contract.rs): a cw20 ledger      *)
(* (module Cw20) with the CARBON_CREDIT_INFO aggregate and the             *)
(* VERIFICATION_RECORDS and RETIREMENT_RECORDS collections on top.         *)
(*                                                                         *)
(* The aggregate keeps only its capacity fields (total_credits_issued,     *)
(* credits_retired, credits_available); project metadata never changes    *)
(* after instantiate and no property reads it, and verification_body is   *)
(* the constant VerificationBody because no message changes it.  A record  *)
(* keeps the fields the handlers compute or that a later handler reads;   *)
(* dates, URLs and purposes are left out.  Each handler is one action:    *)
(* its guard is every condition under which it returns Ok (a failing      *)
(* handler is reverted by the runtime and is no step).                     *)
(***************************************************************************)
EXTENDS Cw20

CONSTANTS
  VerificationBody,  \* CarbonCreditInfo.verification_body
  VerificationIds,   \* the verification_id strings messages use
  RetirementIds,     \* the retirement_id strings messages use
  InitialInfo,       \* InstantiateMsg.carbon_credit_info, capacity fields
  NoRecord           \* the id has no entry in its collection

VerificationStatus == {"Pending", "Verified", "Rejected", "Expired"}

CreditInfo ==
  [total_credits_issued : Uint128, credits_retired : Uint128,
   credits_available : Uint128]

VerificationRecord == [credits_verified : Uint128, status : VerificationStatus]

RetirementRecord == [credits_retired : Uint128, retirement_entity : Addr]

ASSUME CarbonAssumption ==
  /\ VerificationBody \in Addr
  /\ InitialInfo \in CreditInfo
  /\ NoRecord \notin VerificationRecord \cup RetirementRecord

VARIABLES
  info,                 \* CARBON_CREDIT_INFO
  verificationRecords,  \* VERIFICATION_RECORDS: id -> record or NoRecord
  retirementRecords     \* RETIREMENT_RECORDS: id -> record or NoRecord

vars == <<info, verificationRecords, retirementRecords, ledgerVars, caller>>

TypeOK ==
  /\ Cw20TypeOK
  /\ info \in CreditInfo
  /\ verificationRecords \in [VerificationIds -> VerificationRecord \cup {NoRecord}]
  /\ retirementRecords \in [RetirementIds -> RetirementRecord \cup {NoRecord}]

(***************************************************************************)
(* instantiate: CARBON_CREDIT_INFO is saved as given (nothing checks that  *)
(* its capacity fields agree), then cw20 instantiate runs.                 *)
(***************************************************************************)
Init ==
  /\ info = InitialInfo
  /\ verificationRecords = [id \in VerificationIds |-> NoRecord]
  /\ retirementRecords = [id \in RetirementIds |-> NoRecord]
  /\ Cw20Init

(***************************************************************************)
(* verify_credits: only the verification body may verify.  The record is  *)
(* saved (overwriting any record under the same id) with status Verified, *)
(* and both total_credits_issued and credits_available grow by n.  No      *)
(* tokens are minted.                                                      *)
(***************************************************************************)
VerifyCredits(s, id, n) ==
  /\ s = VerificationBody
  /\ Fits(info.total_credits_issued, n)
  /\ Fits(info.credits_available, n)
  /\ verificationRecords' =
       [verificationRecords EXCEPT ![id] = [credits_verified |-> n, status |-> "Verified"]]
  /\ info' = [info EXCEPT !.total_credits_issued = @ + n,
                          !.credits_available = @ + n]
  /\ caller' = s
  /\ UNCHANGED <<retirementRecords, ledgerVars>>

\* Mutant of RetireCredits: the record stores the holder's balance, not n.
RetireCreditsRecordBalance(s, id, n) ==
  /\ s \in accounts
  /\ balances[s] >= n
  /\ supply >= n
  /\ Fits(info.credits_retired, n)
  /\ info.credits_available >= n
  /\ balances' = [balances EXCEPT ![s] = @ - n]
  /\ supply' = supply - n
  /\ retirementRecords' =
       [retirementRecords EXCEPT ![id] = [credits_retired |-> balances[s],
                                          retirement_entity |-> s]]
  /\ info' = [info EXCEPT !.credits_retired = @ + n, !.credits_available = @ - n]
  /\ caller' = s
  /\ UNCHANGED <<accounts, minter, allowances, verificationRecords>>

\* Mutant of RetireCredits: the balance is burned but total_supply is not updated.
RetireCreditsKeepSupply(s, id, n) ==
  /\ s \in accounts
  /\ balances[s] >= n
  /\ Fits(info.credits_retired, n)
  /\ info.credits_available >= n
  /\ balances' = [balances EXCEPT ![s] = @ - n]
  /\ retirementRecords' =
       [retirementRecords EXCEPT ![id] = [credits_retired |-> n, retirement_entity |-> s]]
  /\ info' = [info EXCEPT !.credits_retired = @ + n, !.credits_available = @ - n]
  /\ caller' = s
  /\ UNCHANGED <<accounts, supply, minter, allowances, verificationRecords>>

\* Mutant of RetireCredits: credits_available is not reduced.
RetireCreditsKeepAvailable(s, id, n) ==
  /\ s \in accounts
  /\ balances[s] >= n
  /\ supply >= n
  /\ Fits(info.credits_retired, n)
  /\ balances' = [balances EXCEPT ![s] = @ - n]
  /\ supply' = supply - n
  /\ retirementRecords' =
       [retirementRecords EXCEPT ![id] = [credits_retired |-> n, retirement_entity |-> s]]
  /\ info' = [info EXCEPT !.credits_retired = @ + n]
  /\ caller' = s
  /\ UNCHANGED <<accounts, minter, allowances, verificationRecords>>

(***************************************************************************)
(* retire_credits: BALANCES.load(sender) fails unless the sender has an    *)
(* entry; its balance must cover n.  The handler then writes cw20's        *)
(* storage directly (balance and total_supply checked_sub), saves the      *)
(* retirement record, adds n to credits_retired and checked_subs n from    *)
(* credits_available.  That last check comes after the burn; the runtime's *)
(* revert is what keeps a failing retirement from burning anything.        *)
(***************************************************************************)
RetireCredits(s, id, n) ==
  /\ s \in accounts
  /\ balances[s] >= n
  /\ supply >= n
  /\ Fits(info.credits_retired, n)
  /\ info.credits_available >= n
  /\ balances' = [balances EXCEPT ![s] = @ - n]
  /\ supply' = supply - n
  /\ retirementRecords' =
       [retirementRecords EXCEPT ![id] = [credits_retired |-> n, retirement_entity |-> s]]
  /\ info' = [info EXCEPT !.credits_retired = @ + n, !.credits_available = @ - n]
  /\ caller' = s
  /\ UNCHANGED <<accounts, minter, allowances, verificationRecords>>

\* Mutant of UpdateVerificationStatus: rejecting a verification withdraws its credits.
UpdateVerificationStatusRevoke(s, id, st) ==
  /\ s = VerificationBody
  /\ verificationRecords[id] # NoRecord
  /\ LET n == IF st = "Rejected" THEN verificationRecords[id].credits_verified ELSE 0
     IN  /\ info.credits_available >= n
         /\ info.total_credits_issued >= n
         /\ info' = [info EXCEPT !.total_credits_issued = @ - n,
                                 !.credits_available = @ - n]
  /\ verificationRecords' = [verificationRecords EXCEPT ![id].status = st]
  /\ caller' = s
  /\ UNCHANGED <<retirementRecords, ledgerVars>>

(***************************************************************************)
(* update_verification_status: only the verification body; the record     *)
(* must exist; only its status changes.  The aggregate is not touched, so  *)
(* a Rejected or Expired verification keeps its credits available.        *)
(***************************************************************************)
UpdateVerificationStatus(s, id, st) ==
  /\ s = VerificationBody
  /\ verificationRecords[id] # NoRecord
  /\ verificationRecords' = [verificationRecords EXCEPT ![id].status = st]
  /\ caller' = s
  /\ UNCHANGED <<info, retirementRecords, ledgerVars>>

\* A passthrough cw20 message leaves the carbon credit state alone.
LedgerStep ==
  /\ Cw20Next
  /\ UNCHANGED <<info, verificationRecords, retirementRecords>>

Next ==
  \/ \E s \in Addr, n \in Amounts :
       \/ \E id \in VerificationIds : VerifyCredits(s, id, n)
       \/ \E id \in RetirementIds : RetireCredits(s, id, n)
  \/ \E s \in Addr, id \in VerificationIds, st \in VerificationStatus :
       UpdateVerificationStatus(s, id, st)
  \/ LedgerStep

Spec == Init /\ [][Next]_vars

-----------------------------------------------------------------------------
(* Credits recorded in the record collections. *)
VerifiedInRecords ==
  SumFunction([id \in VerificationIds |->
                 IF verificationRecords[id] = NoRecord THEN 0
                 ELSE verificationRecords[id].credits_verified])

RetiredInRecords ==
  SumFunction([id \in RetirementIds |->
                 IF retirementRecords[id] = NoRecord THEN 0
                 ELSE retirementRecords[id].credits_retired])

(***************************************************************************)
(* Conservation (spec 3, 4.3): the credits ever issued are those still     *)
(* available plus those retired.  verify_credits and retire_credits must   *)
(* move both sides of the pair by the same amount, in the same call.       *)
(***************************************************************************)
CreditConservation ==
  info.total_credits_issued = info.credits_available + info.credits_retired

(***************************************************************************)
(* The token ledger stays conserved although retire_credits bypasses cw20  *)
(* and writes BALANCES and TOKEN_INFO.total_supply itself: the balances    *)
(* always sum to the total supply.                                         *)
(***************************************************************************)
LedgerSupply == SumFunction(balances) = supply

(***************************************************************************)
(* The records never claim more than the aggregate counts: since           *)
(* instantiation, the credits in the verification (retirement) records     *)
(* are at most what verify_credits (retire_credits) added to               *)
(* total_credits_issued (credits_retired).  Overwriting a record under a   *)
(* reused id loses evidence but must never fabricate it.                   *)
(***************************************************************************)
RecordsWithinAggregate ==
  /\ VerifiedInRecords <= info.total_credits_issued - InitialInfo.total_credits_issued
  /\ RetiredInRecords <= info.credits_retired - InitialInfo.credits_retired

(***************************************************************************)
(* Spec 4.3 step 3 and the retirement scenario of spec 8: a holder whose   *)
(* balance covers n may retire n.  retire_credits also needs               *)
(* credits_available >= n, so this holds only while no holder owns more    *)
(* tokens than there are available credits.  Checked in a violation run:  *)
(* the minter mints tokens that no verification backs.                     *)
(***************************************************************************)
HoldingsRetirable == \A h \in Addr : balances[h] <= info.credits_available

(***************************************************************************)
(* Action property: a holder's balance only goes down in a message the     *)
(* holder sent, or one sent by a spender the holder had approved for at    *)
(* least the amount taken.  retire_credits burns from info.sender only.   *)
(***************************************************************************)
HolderConsent == [][ConsentedDebits]_vars

(***************************************************************************)
(* Refinement: the carbon credit aggregate implements CapacityLedger, with *)
(* verify_credits as Issue and retire_credits as Remove, every other       *)
(* message leaving the three fields alone.                                 *)
(***************************************************************************)
Capacity == INSTANCE CapacityLedger WITH
  Max <- Uint128Max,
  InitialIssued <- InitialInfo.total_credits_issued,
  InitialAvailable <- InitialInfo.credits_available,
  InitialRemoved <- InitialInfo.credits_retired,
  issued <- info.total_credits_issued,
  available <- info.credits_available,
  removed <- info.credits_retired

(* The carbon-credit model implements the capacity ledger specification. *)
CapacityRefinement == Capacity!CapacitySpec

=============================================================================
