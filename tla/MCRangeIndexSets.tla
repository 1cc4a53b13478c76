-------------------------- MODULE MCRangeIndexSets --------------------------
(***************************************************************************)
(* An instance of RangeIndexSets for TLC.                                  *)
(***************************************************************************)
EXTENDS RangeIndexSets
==============================================================================
