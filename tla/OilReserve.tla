----------------------------- MODULE OilReserve -----------------------------
(***************************************************************************)
(* The oil-reserve-token contract                                         *)
(* (src/contracts/oil-reserve-token/src/contract.rs): a cw20 ledger        *)
(* (module Cw20) with the OIL_RESERVE_INFO aggregate and the               *)
(* EXTRACTION_RECORDS, RESERVE_AUDITS and TRADING_RECORDS collections.     *)
(*                                                                         *)
(* The aggregate keeps its capacity fields; barrels_per_token, a Decimal,  *)
(* is the constant ratio BptNum / BptDen, and the role addresses are       *)
(* constants because no message changes them.  Quality data, dates, URLs,  *)
(* prices and methods are left out: no handler reads them back, and the    *)
(* Decimal arithmetic on prices only matters where it could overflow.      *)
(***************************************************************************)
EXTENDS Cw20

CONSTANTS
  ExtractionCompany,  \* OilReserveInfo.extraction_company
  ReserveAuditor,     \* OilReserveInfo.reserve_auditor
  BptNum, BptDen,     \* OilReserveInfo.barrels_per_token = BptNum / BptDen
  ExtractionIds,      \* the extraction_id strings messages use
  AuditIds,           \* the audit_id strings messages use
  TradeIds,           \* the trade_id strings messages use
  InitialReserve,     \* InstantiateMsg.oil_reserve_info, capacity fields
  NoRecord            \* the id has no entry in its collection

AuditStatus == {"Pending", "Approved", "Rejected", "RequiresReview"}

TradeStatus == {"Pending", "Executed", "Settled", "Cancelled"}

ReserveInfo ==
  [total_reserves_barrels : Uint128, extracted_barrels : Uint128,
   available_barrels : Uint128]

ExtractionRecord == [barrels_extracted : Uint128]

ReserveAudit == [audited_reserves : Uint128, audit_status : AuditStatus]

TradingRecord == [tokens_traded : Uint128, trade_status : TradeStatus]

ASSUME OilAssumption ==
  /\ {ExtractionCompany, ReserveAuditor} \subseteq Addr
  /\ BptNum \in Nat /\ BptDen \in Nat \ {0}
  /\ InitialReserve \in ReserveInfo
  /\ NoRecord \notin ExtractionRecord \cup ReserveAudit \cup TradingRecord

VARIABLES
  reserve,            \* OIL_RESERVE_INFO
  extractionRecords,  \* EXTRACTION_RECORDS: id -> record or NoRecord
  reserveAudits,      \* RESERVE_AUDITS: id -> record or NoRecord
  tradingRecords      \* TRADING_RECORDS: id -> record or NoRecord

oilVars == <<reserve, extractionRecords, reserveAudits, tradingRecords>>

vars == <<oilVars, ledgerVars, caller>>

TypeOK ==
  /\ Cw20TypeOK
  /\ reserve \in ReserveInfo
  /\ extractionRecords \in [ExtractionIds -> ExtractionRecord \cup {NoRecord}]
  /\ reserveAudits \in [AuditIds -> ReserveAudit \cup {NoRecord}]
  /\ tradingRecords \in [TradeIds -> TradingRecord \cup {NoRecord}]

\* instantiate: OIL_RESERVE_INFO is saved as given, then cw20 instantiate runs.
Init ==
  /\ reserve = InitialReserve
  /\ extractionRecords = [id \in ExtractionIds |-> NoRecord]
  /\ reserveAudits = [id \in AuditIds |-> NoRecord]
  /\ tradingRecords = [id \in TradeIds |-> NoRecord]
  /\ Cw20Init

\* Uint128 * Decimal: the product, rounded down.
TokensToMint(b) == (b * BptNum) \div BptDen

\* Mutant of RecordExtraction: available_barrels is not reduced.
RecordExtractionNoDebit(s, id, b) ==
  /\ s = ExtractionCompany
  /\ b <= reserve.available_barrels
  /\ Fits(reserve.extracted_barrels, b)
  /\ extractionRecords' = [extractionRecords EXCEPT ![id] = [barrels_extracted |-> b]]
  /\ reserve' = [reserve EXCEPT !.extracted_barrels = @ + b]
  /\ Mint(s, s, TokensToMint(b))
  /\ UNCHANGED <<reserveAudits, tradingRecords>>

\* Mutant of RecordExtraction: extracted_barrels is not increased.
RecordExtractionNoCount(s, id, b) ==
  /\ s = ExtractionCompany
  /\ b <= reserve.available_barrels
  /\ extractionRecords' = [extractionRecords EXCEPT ![id] = [barrels_extracted |-> b]]
  /\ reserve' = [reserve EXCEPT !.available_barrels = @ - b]
  /\ Mint(s, s, TokensToMint(b))
  /\ UNCHANGED <<reserveAudits, tradingRecords>>

(***************************************************************************)
(* record_extraction: only the extraction company; b may not exceed the    *)
(* available barrels.  The record is saved, extracted_barrels grows and    *)
(* available_barrels shrinks by b, and then cw20's Mint runs with the      *)
(* same MessageInfo, minting TokensToMint(b) to the company.  That Mint    *)
(* succeeds only if the company is the cw20 minter, the amount is not      *)
(* zero and the cap holds; otherwise the whole extraction reverts.         *)
(***************************************************************************)
RecordExtraction(s, id, b) ==
  /\ s = ExtractionCompany
  /\ b <= reserve.available_barrels
  /\ Fits(reserve.extracted_barrels, b)
  /\ extractionRecords' = [extractionRecords EXCEPT ![id] = [barrels_extracted |-> b]]
  /\ reserve' = [reserve EXCEPT !.extracted_barrels = @ + b,
                                !.available_barrels = @ - b]
  /\ Mint(s, s, TokensToMint(b))
  /\ UNCHANGED <<reserveAudits, tradingRecords>>

\* Mutant of ConductReserveAudit: the audited figure replaces the available barrels.
ConductReserveAuditAdjust(s, id, r) ==
  /\ s = ReserveAuditor
  /\ Fits(reserve.extracted_barrels, r)
  /\ reserveAudits' = [reserveAudits EXCEPT ![id] =
                         [audited_reserves |-> r, audit_status |-> "Pending"]]
  /\ reserve' = [reserve EXCEPT !.total_reserves_barrels = reserve.extracted_barrels + r,
                                !.available_barrels = r]
  /\ caller' = s
  /\ UNCHANGED <<extractionRecords, tradingRecords, ledgerVars>>

(***************************************************************************)
(* conduct_reserve_audit: only the reserve auditor; saves a Pending audit  *)
(* record.  The aggregate is not touched.                                  *)
(***************************************************************************)
ConductReserveAudit(s, id, r) ==
  /\ s = ReserveAuditor
  /\ reserveAudits' = [reserveAudits EXCEPT ![id] =
                         [audited_reserves |-> r, audit_status |-> "Pending"]]
  /\ caller' = s
  /\ UNCHANGED <<reserve, extractionRecords, tradingRecords, ledgerVars>>

\* update_audit_status: only the reserve auditor; the audit must exist.
UpdateAuditStatus(s, id, st) ==
  /\ s = ReserveAuditor
  /\ reserveAudits[id] # NoRecord
  /\ reserveAudits' = [reserveAudits EXCEPT ![id].audit_status = st]
  /\ caller' = s
  /\ UNCHANGED <<reserve, extractionRecords, tradingRecords, ledgerVars>>

(***************************************************************************)
(* record_trade: no authorisation; seller and buyer only need to be valid  *)
(* addresses.  Saves a Pending trading record (overwriting any under the  *)
(* id).  No tokens move.                                                   *)
(***************************************************************************)
RecordTrade(s, id, n) ==
  /\ tradingRecords' = [tradingRecords EXCEPT ![id] =
                          [tokens_traded |-> n, trade_status |-> "Pending"]]
  /\ caller' = s
  /\ UNCHANGED <<reserve, extractionRecords, reserveAudits, ledgerVars>>

\* update_trade_status: no authorisation; the trade must exist.
UpdateTradeStatus(s, id, st) ==
  /\ tradingRecords[id] # NoRecord
  /\ tradingRecords' = [tradingRecords EXCEPT ![id].trade_status = st]
  /\ caller' = s
  /\ UNCHANGED <<reserve, extractionRecords, reserveAudits, ledgerVars>>

LedgerStep == Cw20Next /\ UNCHANGED oilVars

Next ==
  \/ \E s \in Addr, n \in Amounts :
       \/ \E id \in ExtractionIds : RecordExtraction(s, id, n)
       \/ \E id \in AuditIds : ConductReserveAudit(s, id, n)
       \/ \E id \in TradeIds : RecordTrade(s, id, n)
  \/ \E s \in Addr, id \in AuditIds, st \in AuditStatus : UpdateAuditStatus(s, id, st)
  \/ \E s \in Addr, id \in TradeIds, st \in TradeStatus : UpdateTradeStatus(s, id, st)
  \/ LedgerStep

Spec == Init /\ [][Next]_vars

-----------------------------------------------------------------------------
ExtractedInRecords ==
  SumFunction([id \in ExtractionIds |->
                 IF extractionRecords[id] = NoRecord THEN 0
                 ELSE extractionRecords[id].barrels_extracted])

(***************************************************************************)
(* Conservation (spec 3): the reserve is the barrels extracted plus those  *)
(* still available; record_extraction moves b from one to the other.       *)
(***************************************************************************)
ReserveConservation ==
  reserve.total_reserves_barrels =
    reserve.extracted_barrels + reserve.available_barrels

(* The balances always sum to the total supply (extraction mints through cw20). *)
LedgerSupply == SumFunction(balances) = supply

(***************************************************************************)
(* The extraction records never claim more barrels than record_extraction  *)
(* added to extracted_barrels since instantiation, whatever ids are reused.*)
(***************************************************************************)
ExtractionsWithinAggregate ==
  ExtractedInRecords <= reserve.extracted_barrels - InitialReserve.extracted_barrels

(***************************************************************************)
(* Spec 3: a trade goes Pending -> Executed -> Settled, or to Cancelled,   *)
(* and a settled or cancelled trade stays so.  Checked in a violation run: *)
(* update_trade_status sets any status from any status, for any sender,    *)
(* and record_trade under a used id resets the trade to Pending.           *)
(***************************************************************************)
TradeTransition ==
  {<<"Pending", "Executed">>, <<"Executed", "Settled">>,
   <<"Pending", "Cancelled">>, <<"Executed", "Cancelled">>}

TradeLifecycle ==
  [][\A id \in TradeIds :
       /\ tradingRecords[id] # NoRecord
       /\ tradingRecords'[id].trade_status # tradingRecords[id].trade_status
       => <<tradingRecords[id].trade_status, tradingRecords'[id].trade_status>>
            \in TradeTransition]_vars

(***************************************************************************)
(* Spec 4.3: tokens are minted for extracted barrels, TokensToMint of      *)
(* them.  The total supply minted since instantiation never exceeds the    *)
(* value of the barrels extracted since.  Checked in a violation run: the  *)
(* extraction company must be the cw20 minter for record_extraction to    *)
(* work, and as minter it can also Mint through the passthrough with no    *)
(* extraction behind it.                                                   *)
(***************************************************************************)
SupplyBackedByExtraction ==
  supply - SumFunction(InitialBalances)
    <= TokensToMint(reserve.extracted_barrels - InitialReserve.extracted_barrels)

(***************************************************************************)
(* Action property: an oil token holder's balance only goes down in a      *)
(* message the holder sent (Transfer, Send, Burn), or in TransferFrom or   *)
(* SendFrom by a spender the holder approved for the amount.               *)
(* record_extraction only mints, and no oil handler debits a balance.      *)
(***************************************************************************)
HolderConsent == [][ConsentedDebits]_vars

(***************************************************************************)
(* Refinement: the oil reserve aggregate implements CapacityLedger, with   *)
(* total_reserves_barrels as issued (nothing issues barrels after          *)
(* instantiate), available_barrels as available, and record_extraction as  *)
(* Remove of extracted_barrels.                                            *)
(***************************************************************************)
Capacity == INSTANCE CapacityLedger WITH
  Max <- Uint128Max,
  InitialIssued <- InitialReserve.total_reserves_barrels,
  InitialAvailable <- InitialReserve.available_barrels,
  InitialRemoved <- InitialReserve.extracted_barrels,
  issued <- reserve.total_reserves_barrels,
  available <- reserve.available_barrels,
  removed <- reserve.extracted_barrels

(* The oil-reserve model implements the capacity ledger specification. *)
CapacityRefinement == Capacity!CapacitySpec


-----------------------------------------------------------------------------
(***************************************************************************)
(* Liveness.  The extraction company is an outside party that submits     *)
(* RecordExtraction whenever it wants; the assumption is that it keeps     *)
(* doing so: an extraction that stays possible is eventually committed.   *)
(* Nothing else is assumed of the other parties, which may keep sending    *)
(* any message.                                                            *)
(***************************************************************************)
ExtractionFairness ==
  WF_vars(\E id \in ExtractionIds, b \in Amounts :
            RecordExtraction(ExtractionCompany, id, b))

LiveSpec == Spec /\ ExtractionFairness

=============================================================================
