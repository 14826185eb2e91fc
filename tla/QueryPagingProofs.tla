------------------------- MODULE QueryPagingProofs -------------------------
(***************************************************************************)
(* Proofs about the paging protocol of the query_all_* functions, for      *)
(* every finite set of ids and every cap.  The theorem separates the two   *)
(* halves of paging: what a single query returns (PageCorrect, a fact      *)
(* about sorting a finite set, which TLC checks and which the provers      *)
(* cannot reach, since it needs induction over the set), and what the      *)
(* client's sequence of queries adds up to while handlers keep saving      *)
(* records (PagingExact), proved here from PageCorrect holding in every    *)
(* state.                                                                  *)
(***************************************************************************)
EXTENDS QueryPaging, SequenceTheorems, FiniteSetTheorems, TLAPS

USE QueryAssumption

-----------------------------------------------------------------------------
(* Lemmas about the sequence and set operators the model is built from. *)

(* The ids of a concatenation are the ids of its two parts. *)
LEMMA ToSetConcat ==
  ASSUME NEW S, NEW s \in Seq(S), NEW t \in Seq(S)
  PROVE  ToSet(s \o t) = ToSet(s) \cup ToSet(t)
<1>1. ToSet(s \o t) \subseteq ToSet(s) \cup ToSet(t)
  <2> SUFFICES ASSUME NEW i \in 1..(Len(s) + Len(t))
               PROVE  (s \o t)[i] \in ToSet(s) \cup ToSet(t)
    BY DEF ToSet
  <2>1. CASE i <= Len(s)
    BY <2>1 DEF ToSet
  <2>2. CASE i > Len(s)
    <3>1. i - Len(s) \in 1..Len(t) /\ (s \o t)[i] = t[i - Len(s)]
      BY <2>2
    <3> QED
      BY <3>1 DEF ToSet
  <2> QED
    BY <2>1, <2>2
<1>2. ToSet(s) \subseteq ToSet(s \o t)
  <2> SUFFICES ASSUME NEW i \in 1..Len(s) PROVE s[i] \in ToSet(s \o t)
    BY DEF ToSet
  <2>1. i \in DOMAIN (s \o t) /\ (s \o t)[i] = s[i]
    OBVIOUS
  <2> QED
    BY <2>1 DEF ToSet
<1>3. ToSet(t) \subseteq ToSet(s \o t)
  <2> SUFFICES ASSUME NEW i \in 1..Len(t) PROVE t[i] \in ToSet(s \o t)
    BY DEF ToSet
  <2>1. Len(s) + i \in DOMAIN (s \o t) /\ (s \o t)[Len(s) + i] = t[i]
    OBVIOUS
  <2> QED
    BY <2>1 DEF ToSet
<1> QED
  BY <1>1, <1>2, <1>3

(* A concatenation ends where its second, non-empty part ends. *)
LEMMA LastConcat ==
  ASSUME NEW S, NEW s \in Seq(S), NEW t \in Seq(S), t # <<>>
  PROVE  Last(s \o t) = Last(t)
<1>1. Len(t) \in Nat \ {0}
  BY EmptySeq
<1> QED
  BY <1>1 DEF Last

(***************************************************************************)
(* Two ascending sequences of naturals, the first ending below the start  *)
(* of the second, concatenate to an ascending sequence.                    *)
(***************************************************************************)
LEMMA AscendingConcat ==
  ASSUME NEW s \in Seq(Nat), NEW t \in Seq(Nat),
         Ascending(s), Ascending(t),
         s # <<>> /\ t # <<>> => Last(s) < t[1]
  PROVE  Ascending(s \o t)
<1> SUFFICES ASSUME NEW i \in 1..(Len(s \o t) - 1)
             PROVE  (s \o t)[i] < (s \o t)[i + 1]
  BY Zenon DEF Ascending
<1>0. i \in 1..(Len(s) + Len(t) - 1)
  OBVIOUS
<1> USE <1>0
<1>1. CASE i < Len(s)
  BY <1>1 DEF Ascending
<1>2. CASE i = Len(s)
  <2>1. s # <<>> /\ t # <<>>
    BY <1>2, EmptySeq
  <2>2. (s \o t)[i] = Last(s) /\ (s \o t)[i + 1] = t[1]
    BY <1>2 DEF Last
  <2>3. Last(s) < t[1]
    BY <2>1
  <2> QED
    BY <2>2, <2>3
<1>3. CASE i > Len(s)
  <2>1. i - Len(s) \in 1..(Len(t) - 1)
    BY <1>3
  <2>2. t[i - Len(s)] < t[i - Len(s) + 1]
    BY <2>1 DEF Ascending
  <2>3. (s \o t)[i] = t[i - Len(s)]
    BY <1>3, <2>1
  <2>4. (s \o t)[i + 1] = t[(i + 1) - Len(s)]
    BY <1>3, <2>1
  <2>5. (i + 1) - Len(s) = i - Len(s) + 1
    BY <1>3
  <2> QED
    BY <2>2, <2>3, <2>4, <2>5
<1> QED
  BY <1>1, <1>2, <1>3

(***************************************************************************)
(* An empty page means nothing is left after the cursor: the limit and the *)
(* cap are both at least one, so the length of a page is zero only when no *)
(* id lies after the cursor.                                               *)
(***************************************************************************)
LEMMA EmptyPageExhausts ==
  ASSUME NEW ks \in SUBSET Ids, NEW c, NEW l \in LimitRequests,
         IsPage(<<>>, ks, c, l)
  PROVE  {k \in ks : c = NoCursor \/ k > c} = {}
<1> DEFINE rest == {k \in ks : c = NoCursor \/ k > c}
           lim  == IF l = NoLimit THEN MaxLimit ELSE l
<1>1. IsFiniteSet(rest) /\ Cardinality(rest) \in Nat
  BY FS_Subset, FS_CardinalityType
<1>2. lim \in Nat \ {0}
  BY DEF LimitRequests
<1>3. Min({lim, MaxLimit, Cardinality(rest)}) = 0
  BY DEF IsPage
<1>4. Min({lim, MaxLimit, Cardinality(rest)}) \in {lim, MaxLimit, Cardinality(rest)}
  <2>1. \E x \in {lim, MaxLimit, Cardinality(rest)} :
          \A y \in {lim, MaxLimit, Cardinality(rest)} : x <= y
    BY <1>1, <1>2
  <2> QED
    BY <2>1 DEF Min
<1>5. Cardinality(rest) = 0
  BY <1>1, <1>2, <1>3, <1>4
<1> QED
  BY <1>1, <1>5, FS_EmptySet

-----------------------------------------------------------------------------
(* Each step of the paging protocol preserves PagingInv. *)

LEMMA InitInv == Init => PagingInv
BY DEF Init, PagingInv, TypeOK, PagingExact, Ascending, ToSet, Cursors

LEMMA SaveInv ==
  ASSUME PagingInv, NEW id \in Ids, Save(id)
  PROVE  PagingInv'
BY DEF Save, PagingInv, TypeOK, PagingExact, Ascending

LEMMA StartPagingInv ==
  ASSUME PagingInv, StartPaging
  PROVE  PagingInv'
BY DEF StartPaging, PagingInv, TypeOK, PagingExact, Ascending, ToSet, Cursors

LEMMA RestartInv ==
  ASSUME PagingInv, Restart
  PROVE  PagingInv'
BY DEF Restart, PagingInv, TypeOK, PagingExact

(***************************************************************************)
(* An empty page ends paging with every snapshot id received: nothing is  *)
(* left after the cursor, so every snapshot id lies at or before it.       *)
(***************************************************************************)
LEMMA EmptyPageInv ==
  ASSUME PagingInv, NEW l \in LimitRequests,
         IsPage(Page(keys, cursor, l), keys, cursor, l),
         Page(keys, cursor, l) = <<>>,
         phase' = "done", UNCHANGED <<keys, cursor, returned, snapshot>>
  PROVE  PagingInv'
<1>1. {k \in keys : cursor = NoCursor \/ k > cursor} = {}
  BY EmptyPageExhausts DEF PagingInv, TypeOK
<1>2. snapshot \subseteq ToSet(returned)
  <2> SUFFICES ASSUME NEW k \in snapshot PROVE k \in ToSet(returned)
    OBVIOUS
  <2>1. k \in keys /\ k \in Nat
    BY DEF PagingInv, TypeOK
  <2>2. cursor # NoCursor /\ ~(k > cursor)
    BY <1>1, <2>1
  <2>3. cursor \in Nat
    BY <2>2 DEF PagingInv, TypeOK, Cursors
  <2> QED
    BY <2>1, <2>2, <2>3 DEF PagingInv
<1> QED
  BY <1>2 DEF PagingInv, TypeOK, PagingExact

(***************************************************************************)
(* A non-empty page extends what the client received and moves the cursor *)
(* to its last id.  The page lies after the old cursor, so the received    *)
(* ids stay ascending; a snapshot id at or before the new cursor is either *)
(* at or before the old one, or after it and so in the page: a page never  *)
(* skips an id after the cursor that lies before one it returns.           *)
(***************************************************************************)
LEMMA PageInv ==
  ASSUME PagingInv, NEW l \in LimitRequests,
         IsPage(Page(keys, cursor, l), keys, cursor, l),
         Page(keys, cursor, l) # <<>>,
         returned' = returned \o Page(keys, cursor, l),
         cursor' = Last(Page(keys, cursor, l)),
         UNCHANGED <<keys, phase, snapshot>>
  PROVE  PagingInv'
<1> DEFINE p    == Page(keys, cursor, l)
           rest == {k \in keys : cursor = NoCursor \/ k > cursor}
<1>1. p \in Seq(rest) /\ Ascending(p)
  BY DEF IsPage
<1>2. \A k \in rest \ ToSet(p) : \A i \in DOMAIN p : p[i] < k
  BY DEF IsPage
<1>3. rest \subseteq Ids /\ Ids \subseteq Nat
  BY DEF PagingInv, TypeOK
<1>4. p \in Seq(Ids) /\ p \in Seq(Nat) /\ returned \in Seq(Ids) /\ returned \in Seq(Nat)
  BY <1>1, <1>3, SeqMonotonic DEF PagingInv, TypeOK
<1>5. Len(p) \in Nat \ {0} /\ Last(p) \in rest
  BY <1>1, EmptySeq DEF Last
<1>6. ToSet(returned') = ToSet(returned) \cup ToSet(p)
  BY <1>4, ToSetConcat
<1>7. ToSet(p) \subseteq rest
  BY <1>1 DEF ToSet
<1>8. TypeOK'
  BY <1>3, <1>4, <1>5, ConcatProperties DEF PagingInv, TypeOK, Cursors
<1>9. Ascending(returned')
  <2>1. returned # <<>> => Last(returned) < p[1]
    <3> SUFFICES ASSUME returned # <<>> PROVE Last(returned) < p[1]
      OBVIOUS
    <3>1. cursor = Last(returned) /\ cursor # NoCursor
      BY DEF PagingInv, Last, TypeOK
    <3>2. p[1] \in rest
      BY <1>1, <1>5
    <3> QED
      BY <3>1, <3>2
  <2> QED
    BY <1>1, <1>4, <2>1, AscendingConcat DEF PagingInv, PagingExact
<1>10. ToSet(returned') \subseteq keys'
  BY <1>6, <1>7 DEF PagingInv, PagingExact
<1>11. cursor' = Last(returned') /\ returned' # <<>>
  <2>1. Last(returned') = Last(p)
    BY <1>4, LastConcat
  <2>2. Len(returned') = Len(returned) + Len(p)
    BY <1>4, ConcatProperties
  <2> QED
    BY <1>5, <2>1, <2>2
<1>12. \A k \in snapshot' :
         cursor' # NoCursor /\ k <= cursor' => k \in ToSet(returned')
  <2> SUFFICES ASSUME NEW k \in snapshot, k <= Last(p)
               PROVE  k \in ToSet(returned) \cup ToSet(p)
    BY <1>6
  <2>1. k \in keys /\ k \in Nat /\ Last(p) \in Nat
    BY <1>3, <1>5 DEF PagingInv, TypeOK
  <2>2. CASE cursor # NoCursor /\ k <= cursor
    BY <2>2 DEF PagingInv
  <2>3. CASE cursor = NoCursor \/ ~(k <= cursor)
    <3>1. cursor # NoCursor => cursor \in Nat
      BY DEF PagingInv, TypeOK, Cursors
    <3>2. k \in rest
      BY <2>1, <2>3, <3>1
    <3>3. ~(Last(p) < k)
      BY <2>1
    <3>4. Len(p) \in DOMAIN p
      BY <1>5
    <3> QED
      BY <1>2, <3>2, <3>3, <3>4 DEF Last
  <2> QED
    BY <2>2, <2>3
<1>13. /\ phase' = "done" => snapshot' \subseteq ToSet(returned')
       /\ snapshot' \subseteq keys'
  BY <1>6 DEF PagingInv, PagingExact
<1> QED
  BY <1>8, <1>9, <1>10, <1>11, <1>12, <1>13 DEF PagingInv, PagingExact

LEMMA NextInv ==
  ASSUME PagingInv, PageCorrect, [Next]_vars
  PROVE  PagingInv'
<1>1. CASE \E id \in Ids : Save(id)
  BY <1>1, SaveInv
<1>2. CASE StartPaging
  BY <1>2, StartPagingInv
<1>3. CASE \E l \in LimitRequests : QueryPage(l)
  <2> PICK l \in LimitRequests : QueryPage(l)
    BY <1>3
  <2>1. IsPage(Page(keys, cursor, l), keys, cursor, l)
    BY DEF PageCorrect
  <2> QED
    BY <2>1, EmptyPageInv, PageInv DEF QueryPage
<1>4. CASE Restart
  BY <1>4, RestartInv
<1>5. CASE UNCHANGED vars
  BY <1>5 DEF vars, PagingInv, TypeOK, PagingExact, Ascending
<1> QED
  BY <1>1, <1>2, <1>3, <1>4, <1>5 DEF Next

(***************************************************************************)
(* PagingInv, for every finite set of ids and every cap: as long as each   *)
(* single query returns a correct page, the cursor is the last id returned *)
(* (or none before the first page), what was returned is ascending and     *)
(* saved, and every id of the starting snapshot at or below the cursor has *)
(* already been returned.  It is the inductive invariant of the paging     *)
(* loop over query_verification_records / query_retirement_records.        *)
(***************************************************************************)
THEOREM PagingInvariant == Spec /\ []PageCorrect => []PagingInv
<1>1. PagingInv /\ PageCorrect /\ [Next]_vars => PagingInv'
  BY NextInv
<1> QED
  BY <1>1, InitInv, PTL DEF Spec

(***************************************************************************)
(* PagingExact, for every finite set of ids and every cap: as long as each *)
(* single query returns a correct page, the client paging with the         *)
(* exclusive cursor while handlers save records receives ids in strictly   *)
(* ascending order, only ids that have a record, and, when an empty page   *)
(* ends paging, every id that had a record when it started.                *)
(***************************************************************************)
THEOREM PagingExactFromPages == Spec /\ []PageCorrect => []PagingExact
<1>1. PagingInv => PagingExact
  BY DEF PagingInv
<1> QED
  BY <1>1, PagingInvariant, PTL

=============================================================================
