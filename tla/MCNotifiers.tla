---------------------------- MODULE MCNotifiers ----------------------------
(* Instances of Notifiers for TLC: two Realms, each in a thread of its own. *)
EXTENDS Notifiers, TLC

CONSTANTS r1, r2, n1, n2

Symmetry == Permutations(Realms)
=============================================================================
