--------------------------- MODULE MCTransTables ---------------------------
(***************************************************************************)
(* Module TransTables for model checking: two extended tables behind a     *)
(* base table, one record in each, so that a few changes fill both.        *)
(***************************************************************************)
EXTENDS TransTables
=============================================================================
