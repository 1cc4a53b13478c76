----------------------------- MODULE Bookmarks -----------------------------
(***************************************************************************)
(* What the wishlist promises, whatever holds it: a set of bookmarked      *)
(* books, named by their Open Library cover id, that survives the process. *)
(* A press of a "Want to read" button becomes an intent for one book; the  *)
(* intent is served by making the set agree with it, or is lost when the   *)
(* process dies first.  Nothing else changes the set.                      *)
(*                                                                         *)
(* Override is the one concession to the code: the flag that carries the   *)
(* intent is also written by the search, from another thread, and always   *)
(* to TRUE (see MarkNext in Wishlist).                                     *)
(***************************************************************************)

CONSTANTS
    CoverIDs,    \* the cover ids of the books
    NoIntent     \* no press is being served

VARIABLES
    bookmarks,   \* the bookmarked books
    intent       \* the press being served, or NoIntent

bookmarkVars == <<bookmarks, intent>>

Intents == [coverID : CoverIDs, wanted : BOOLEAN]

BookmarksInit == bookmarks = {} /\ intent = NoIntent

Press ==
    /\ intent = NoIntent
    /\ intent' \in Intents
    /\ UNCHANGED bookmarks

Override ==
    /\ intent # NoIntent
    /\ intent' = [coverID |-> intent.coverID, wanted |-> TRUE]
    /\ UNCHANGED bookmarks

Serve ==
    /\ intent # NoIntent
    /\ bookmarks' = IF intent.wanted THEN bookmarks \cup {intent.coverID}
                                     ELSE bookmarks \ {intent.coverID}
    /\ intent' = NoIntent

Lose ==
    /\ intent # NoIntent
    /\ intent' = NoIntent
    /\ UNCHANGED bookmarks

BookmarksNext == Press \/ Override \/ Serve \/ Lose

BookmarksSpec == BookmarksInit /\ [][BookmarksNext]_bookmarkVars
=============================================================================
