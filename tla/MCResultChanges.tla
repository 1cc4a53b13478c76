--------------------------- MODULE MCResultChanges ---------------------------
(***************************************************************************)
(* An instance of ResultChanges for TLC.                                   *)
(***************************************************************************)
EXTENDS ResultChanges
==============================================================================
