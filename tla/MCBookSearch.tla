---------------------------- MODULE MCBookSearch ----------------------------
(* Instances of BookSearch for TLC: texts t1 and t2 that a search accepts,  *)
(* and bad, which URL(string:) refuses. *)
EXTENDS BookSearch, TLC

CONSTANTS t1, t2, bad
=============================================================================
