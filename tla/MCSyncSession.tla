--------------------------- MODULE MCSyncSession ---------------------------
EXTENDS SyncSession, TLC

(* Threads, sessions and waiters are interchangeable. *)
Symmetry == Permutations(Sessions) \cup Permutations(Threads) \cup Permutations(Waiters)
=============================================================================
