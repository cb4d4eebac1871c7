---------------------------- MODULE MCSQLiteStore ---------------------------
(* Model values and symmetry for the runs of SQLiteStore. *)
EXTENDS SQLiteStore, TLC

Symmetric == Permutations(Id)
=============================================================================
