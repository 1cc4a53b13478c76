----------------------------- MODULE MCWishlist -----------------------------
(* Instances of Wishlist for TLC: two covers, three hits of which two share *)
(* a cover, and rows enough that a fresh one is always free.                *)
EXTENDS Wishlist, TLC

CONSTANTS c1, c2, h1, h2, h3

(* Rows and pool threads are interchangeable; the covers and the hits are   *)
(* not, because of MCCoverOf.                                               *)
Interchangeable == Permutations(Rows) \cup Permutations(Threads)

MCCoverOf == (h1 :> c1) @@ (h2 :> c1) @@ (h3 :> c2)
=============================================================================
