--------------------------- MODULE CapacityLedger ---------------------------
(***************************************************************************)
(* What the lifecycle layer of every asset contract promises about its    *)
(* aggregate (spec 3, "Aggregate" and the conservation rule of spec 4.3):  *)
(* three non-negative capacity fields, issued units, available units and   *)
(* removed (retired, extracted) units.  Units are only ever issued, which  *)
(* adds the same amount to issued and available, or removed, which moves   *)
(* an amount from available to removed.  Nothing else changes the fields.  *)
(* Fields are bounded by Max, the Uint128 range.                           *)
(***************************************************************************)
EXTENDS Naturals, TLAPS

CONSTANTS
  Max,                  \* the largest value a capacity field can hold
  InitialIssued,        \* the capacity fields instantiate stores
  InitialAvailable,
  InitialRemoved

VARIABLES issued, available, removed

cvars == <<issued, available, removed>>

CapacityTypeOK ==
  /\ issued \in 0..Max
  /\ available \in 0..Max
  /\ removed \in 0..Max

CapacityInit ==
  /\ issued = InitialIssued
  /\ available = InitialAvailable
  /\ removed = InitialRemoved

\* Issue n units: issued and available both grow by n, neither overflows.
Issue(n) ==
  /\ issued + n <= Max
  /\ available + n <= Max
  /\ issued' = issued + n
  /\ available' = available + n
  /\ UNCHANGED removed

\* Remove n available units: they leave available and are counted as removed.
Remove(n) ==
  /\ n <= available
  /\ removed + n <= Max
  /\ available' = available - n
  /\ removed' = removed + n
  /\ UNCHANGED issued

CapacityNext == \E n \in 0..Max : Issue(n) \/ Remove(n)

CapacitySpec == CapacityInit /\ [][CapacityNext]_cvars

(* Conservation: issued = available + removed, from a consistent start. *)
Conserved == issued = available + removed

-----------------------------------------------------------------------------
(***************************************************************************)
(* Conservation is a consequence of the abstract specification alone: an  *)
(* Issue adds n to both sides, a Remove moves n within the right-hand side.*)
(* Together with a refinement theorem it gives conservation for every      *)
(* contract model that implements CapacityLedger.                          *)
(***************************************************************************)
THEOREM CapacityConserved ==
  ASSUME Max \in Nat,
         InitialIssued \in 0..Max, InitialAvailable \in 0..Max,
         InitialRemoved \in 0..Max,
         InitialIssued = InitialAvailable + InitialRemoved
  PROVE  CapacitySpec => [](CapacityTypeOK /\ Conserved)
<1> DEFINE Inv == CapacityTypeOK /\ Conserved
<1>1. CapacityInit => Inv
  BY DEF CapacityInit, Inv, CapacityTypeOK, Conserved
<1>2. Inv /\ [CapacityNext]_cvars => Inv'
  <2> SUFFICES ASSUME Inv, [CapacityNext]_cvars PROVE Inv'
    OBVIOUS
  <2>1. ASSUME NEW n \in 0..Max, Issue(n) PROVE Inv'
    BY <2>1 DEF Issue, Inv, CapacityTypeOK, Conserved
  <2>2. ASSUME NEW n \in 0..Max, Remove(n) PROVE Inv'
    BY <2>2 DEF Remove, Inv, CapacityTypeOK, Conserved
  <2>3. CASE UNCHANGED cvars
    BY <2>3 DEF cvars, Inv, CapacityTypeOK, Conserved
  <2> QED
    BY <2>1, <2>2, <2>3 DEF CapacityNext
<1> QED
  BY <1>1, <1>2, PTL DEF CapacitySpec, Inv

=============================================================================
