----------------------------- MODULE QueryPaging -----------------------------
(***************************************************************************)
(* The paginated range queries of the three contracts (the query_all_*    *)
(* functions): each takes an optional exclusive cursor start_after and an  *)
(* optional limit, caps the limit at 30 (also the default) and returns the *)
(* first limit entries of the record Map after the cursor, in ascending    *)
(* key order.  All nine functions have the same body, so one module models *)
(* them, against one record collection.                                    *)
(*                                                                         *)
(* Record ids are caller-chosen strings, ordered in storage by their      *)
(* bytes; the model takes a finite set of naturals, whose order stands for *)
(* that one.  The record payload plays no part in paging and is left out.  *)
(* Handlers only ever save records (none removes one), and a save under a *)
(* used id overwrites in place.  A client pages through the collection,    *)
(* one query per call, while handlers keep saving records between its      *)
(* calls: no cursor is held in the contract, so each call sees the         *)
(* storage as it is then.                                                  *)
(***************************************************************************)
EXTENDS Naturals, Sequences, SequencesExt

CONSTANTS
  Ids,        \* the record ids, ordered as storage orders their keys
  MaxLimit,   \* the cap and default of the limit argument: 30
  NoCursor,   \* start_after = None
  NoLimit     \* limit = None

LimitRequests == {NoLimit} \cup 1..(MaxLimit + 1)

Cursors == {NoCursor} \cup Ids

ASSUME QueryAssumption ==
  /\ IsFiniteSet(Ids) /\ Ids \subseteq Nat
  /\ MaxLimit \in Nat \ {0}
  /\ NoCursor \notin Ids
  /\ NoLimit \notin Nat

VARIABLES
  keys,       \* the ids that have an entry in the record Map
  phase,      \* the client: "idle", "paging" or "done"
  cursor,     \* the start_after the client passes next
  returned,   \* the ids the client has received, in order
  snapshot    \* keys when the client started paging

vars == <<keys, phase, cursor, returned, snapshot>>

TypeOK ==
  /\ keys \subseteq Ids
  /\ phase \in {"idle", "paging", "done"}
  /\ cursor \in Cursors
  /\ returned \in Seq(Ids)
  /\ snapshot \subseteq Ids

\* Mutant of PageLimit: the requested limit is not capped.
PageLimitUncapped(l) == IF l = NoLimit THEN MaxLimit ELSE l

\* limit.unwrap_or(30).min(30)
PageLimit(l) == IF l = NoLimit THEN MaxLimit ELSE Min({l, MaxLimit})

\* Mutant of After: Bound::inclusive instead of Bound::exclusive.
AfterInclusive(ks, c) == IF c = NoCursor THEN ks ELSE {k \in ks : k >= c}

\* start_after.map(Bound::exclusive): the keys strictly after the cursor.
After(ks, c) == IF c = NoCursor THEN ks ELSE {k \in ks : k > c}

\* .range(storage, start, None, Ascending).take(limit).collect()
Page(ks, c, l) ==
  LET asc == SetToSortSeq(After(ks, c), <)
  IN  SubSeq(asc, 1, Min({PageLimit(l), Len(asc)}))

\* A sequence of ids in strictly ascending order (so without repetition).
Ascending(s) == \A i \in 1..(Len(s) - 1) : s[i] < s[i + 1]

(***************************************************************************)
(* What a page is, stated without computing it: at most the capped limit  *)
(* of keys strictly after the cursor, strictly ascending, as many as there *)
(* are up to that limit, and no key after the cursor that it skips lies    *)
(* before one it returns.                                                  *)
(***************************************************************************)
IsPage(p, ks, c, l) ==
  LET rest == {k \in ks : c = NoCursor \/ k > c}
  IN  /\ p \in Seq(rest)
      /\ Ascending(p)
      /\ Len(p) = Min({IF l = NoLimit THEN MaxLimit ELSE l, MaxLimit,
                       Cardinality(rest)})
      /\ \A k \in rest \ ToSet(p) : \A i \in DOMAIN p : p[i] < k

Init ==
  /\ keys = {}
  /\ phase = "idle"
  /\ cursor = NoCursor
  /\ returned = <<>>
  /\ snapshot = {}

\* A handler saves a record under id (verify_credits, record_extraction, ...).
Save(id) ==
  /\ keys' = keys \cup {id}
  /\ UNCHANGED <<phase, cursor, returned, snapshot>>

\* Mutant of StartPaging: the client keeps the cursor of its previous pass.
StartPagingKeepCursor ==
  /\ phase = "idle"
  /\ phase' = "paging"
  /\ returned' = <<>>
  /\ snapshot' = keys
  /\ UNCHANGED <<keys, cursor>>

\* The client starts paging from the beginning: start_after = None.
StartPaging ==
  /\ phase = "idle"
  /\ phase' = "paging"
  /\ cursor' = NoCursor
  /\ returned' = <<>>
  /\ snapshot' = keys
  /\ UNCHANGED keys

(***************************************************************************)
(* One query_all_* call with the client's cursor and a limit l.  An empty  *)
(* page ends paging; otherwise the client keeps the entries and resumes    *)
(* after the last id of the page.                                          *)
(***************************************************************************)
QueryPage(l) ==
  /\ phase = "paging"
  /\ LET p == Page(keys, cursor, l)
     IN  \/ /\ p = <<>>
            /\ phase' = "done"
            /\ UNCHANGED <<cursor, returned>>
         \/ /\ p # <<>>
            /\ returned' = returned \o p
            /\ cursor' = Last(p)
            /\ UNCHANGED phase
  /\ UNCHANGED <<keys, snapshot>>

\* The client is done and may page again later.
Restart ==
  /\ phase = "done"
  /\ phase' = "idle"
  /\ UNCHANGED <<keys, cursor, returned, snapshot>>

Next ==
  \/ \E id \in Ids : Save(id)
  \/ StartPaging
  \/ \E l \in LimitRequests : QueryPage(l)
  \/ Restart

Spec == Init /\ [][Next]_vars

-----------------------------------------------------------------------------
(***************************************************************************)
(* Spec 4.2 and 4.4: every query the client can issue now, with its       *)
(* cursor and any limit, returns exactly the page the reference describes: *)
(* the cap of 30 applies whatever limit is asked for, the cursor is        *)
(* exclusive and the order is ascending.                                   *)
(***************************************************************************)
PageCorrect ==
  \A l \in LimitRequests : IsPage(Page(keys, cursor, l), keys, cursor, l)

(***************************************************************************)
(* Spec 4.2: the pages form a restartable sequence.  Paging with the       *)
(* exclusive cursor, while handlers save records between the calls,        *)
(* returns every id strictly ascending (so none twice), only ids that have *)
(* a record, and, once an empty page ends it, every id that had a record   *)
(* when paging started.                                                    *)
(***************************************************************************)
PagingExact ==
  /\ Ascending(returned)
  /\ ToSet(returned) \subseteq keys
  /\ phase = "done" => snapshot \subseteq ToSet(returned)

(***************************************************************************)
(* The inductive invariant behind PagingExact.  The client's cursor is the *)
(* last id it received (none before the first page), and every id that had *)
(* a record when paging started and lies at or before the cursor has been  *)
(* received: the exclusive start_after never skips a snapshot id that an   *)
(* earlier page did not return.  Ids saved behind the cursor after paging   *)
(* started are not covered, and are indeed missed.                          *)
(***************************************************************************)
PagingInv ==
  /\ TypeOK
  /\ PagingExact
  /\ snapshot \subseteq keys
  /\ \/ cursor = NoCursor /\ returned = <<>>
     \/ returned # <<>> /\ cursor = Last(returned)
  /\ \A k \in snapshot :
       cursor # NoCursor /\ k <= cursor => k \in ToSet(returned)

=============================================================================
