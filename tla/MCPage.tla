------------------------------- MODULE MCPage -------------------------------
(* The page in one tab, for TLC. *)
EXTENDS Page

Bounded == Cardinality(requests) <= 4
=============================================================================
