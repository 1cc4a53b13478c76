---------------------------- MODULE MCMainScreen ----------------------------
(* Instances of MainScreen for TLC.  Hits are interchangeable, and so are   *)
(* rows: the properties checked with Symmetry are all safety properties. *)
EXTENDS MainScreen, TLC

Symmetry == Permutations(Hits) \cup Permutations(Rows)
=============================================================================
