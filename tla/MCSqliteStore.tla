---------------------------- MODULE MCSqliteStore ----------------------------
(***************************************************************************)
(* Instances of the SQLite store for TLC.                                  *)
(***************************************************************************)
EXTENDS SqliteStoreProperties, TLC

Symmetry == Permutations(Tickets)
==============================================================================
