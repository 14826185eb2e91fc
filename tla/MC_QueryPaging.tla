---------------------------- MODULE MC_QueryPaging ----------------------------
(***************************************************************************)
(* Five record ids and a page cap of 2, so that a collection takes two or  *)
(* three pages, a requested limit of 3 exceeds the cap, and saves can land *)
(* before, at and after the client's cursor.                               *)
(***************************************************************************)
EXTENDS QueryPaging, TLC

=============================================================================
