---------------------------- MODULE MCListChanges ----------------------------
(***************************************************************************)
(* An instance of ListChanges for TLC.                                     *)
(***************************************************************************)
EXTENDS ListChanges
==============================================================================
