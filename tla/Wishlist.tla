------------------------------ MODULE Wishlist ------------------------------
(***************************************************************************)
(* The wishlist of the app: WishlistManager, the Book table of the default *)
(* Realm behind it, the two buttons that toggle a book (in a list cell and *)
(* in the details popup), and determineWishlistBooks, which marks search   *)
(* results from a background thread.                                       *)
(*                                                                         *)
(* A Book is one of two kinds of object.  A HIT is an unmanaged object     *)
(* made by a search; its isInWishlist is a plain field in memory.  A ROW   *)
(* is the accessor of a record of the Realm table; it shares the stored    *)
(* fields, and using it after the record is deleted raises an exception    *)
(* that nothing catches.                                                   *)
(*                                                                         *)
(* The main thread handles a press in two steps, one per Realm commit: the *)
(* button's handler commits the flipped flag, then the observer of         *)
(* "Update_Wishlist", called synchronously, commits the insertion or the   *)
(* deletion.  Between the two, the background thread may run and the       *)
(* process may be killed.                                                  *)
(***************************************************************************)
EXTENDS Naturals, Sequences, FiniteSets

CONSTANTS
    CoverIDs,    \* values of Book.coverID
    Hits,        \* the Book objects of search results
    Rows,        \* identities of records of the Realm table
    CoverOf,     \* the coverID of each hit; two hits may share one
    Threads,     \* the pool threads that overlapping searches end on
    MaxHeld,     \* bound: row accessors the views hold at once
    None

ASSUME WishlistAssumption ==
    /\ CoverOf \in [Hits -> CoverIDs]
    /\ Hits \cap Rows = {}
    /\ None \notin Hits \cup Rows
    /\ None \notin [coverID : CoverIDs, wanted : BOOLEAN]
    /\ MaxHeld \in Nat

VARIABLES
    books,        \* the Book table, durable: a sequence of records
    process,      \* "off", "on", or "aborted" by an exception
    wishList,     \* WishlistManager.wishList: a sequence of row accessors
    isInWishlist, \* isInWishlist of each hit
    held,         \* the row accessors that cells and the popup hold
    pressed,      \* the Book whose press is being handled, or None
    snapshot,     \* of each thread: {}, or {the covers its Realm sees}
    marking,      \* of each thread: hits determineWishlistBooks has still
                  \* to visit
    cutShort      \* history: covers whose last press was a removal that a
                  \* kill interrupted

durableVars == <<books, cutShort>>
uiVars == <<held, pressed>>
workerVars == <<snapshot, marking>>
vars == <<books, process, wishList, isInWishlist, held, pressed,
          snapshot, marking, cutShort>>

running == process = "on"

Record == [row : Rows, coverID : CoverIDs, isInWishlist : BOOLEAN]

-----------------------------------------------------------------------------
(* The table and what can be read of it *)

Live == {books[i].row : i \in DOMAIN books}
StoredCovers == {books[i].coverID : i \in DOMAIN books}

(* Array(realm.objects(Book.self)): one accessor per record, in table order *)
Accessors(table) == [i \in DOMAIN table |-> table[i].row]

IndexOf(row) == CHOOSE i \in DOMAIN books : books[i].row = row

CoverIDOf(book) == IF book \in Hits THEN CoverOf[book]
                                    ELSE books[IndexOf(book)].coverID

Flagged(book) == IF book \in Hits THEN isInWishlist[book]
                                  ELSE books[IndexOf(book)].isInWishlist

(* Deleting a record moves the last one into its place. *)
MoveLastOver(table, i) ==
    [k \in 1 .. Len(table) - 1 |-> IF k = i THEN table[Len(table)] ELSE table[k]]

-----------------------------------------------------------------------------
(* The process *)

Init ==
    /\ books = << >>
    /\ process = "off"
    /\ wishList = << >>
    /\ isInWishlist = [h \in Hits |-> FALSE]
    /\ held = {}
    /\ pressed = None
    /\ snapshot = [t \in Threads |-> {}]
    /\ marking = [t \in Threads |-> {}]
    /\ cutShort = {}

(* WishlistManager.init, when the main screen is loaded *)
Launch ==
    /\ ~running
    /\ process' = "on"
    /\ wishList' = Accessors(books)
    /\ UNCHANGED <<durableVars, isInWishlist, uiVars, workerVars>>

(* All but the Realm file is lost. *)
Die ==
    /\ wishList' = << >>
    /\ isInWishlist' = [h \in Hits |-> FALSE]
    /\ held' = {}
    /\ pressed' = None
    /\ snapshot' = [t \in Threads |-> {}]
    /\ marking' = [t \in Threads |-> {}]
    /\ UNCHANGED books

Kill ==
    /\ running
    /\ Die
    /\ process' = "off"
    /\ cutShort' = IF pressed \in Rows /\ ~Flagged(pressed)
                   THEN cutShort \cup {CoverIDOf(pressed)} ELSE cutShort

-----------------------------------------------------------------------------
(* The views: cells and the popup take accessors from the wishlist, keep   *)
(* them after the record is gone, and drop them at a reload or a dismissal *)

GetBook(index) ==
    /\ running /\ pressed = None
    /\ Cardinality(held) < MaxHeld
    /\ held' = held \cup {wishList[index]}
    /\ UNCHANGED <<durableVars, process, wishList, isInWishlist, pressed,
                   workerVars>>

ReleaseBook(row) ==
    /\ running /\ pressed = None
    /\ held' = held \ {row}
    /\ UNCHANGED <<durableVars, process, wishList, isInWishlist, pressed,
                   workerVars>>

(* The button's handler, in a cell or in the popup: flip and commit, then   *)
(* post "Update_Wishlist".                                                  *)
FlipHit(hit) ==
    /\ isInWishlist' = [isInWishlist EXCEPT ![hit] = ~@]
    /\ UNCHANGED durableVars

FlipRow(row) ==
    /\ row \in held \cap Live
    /\ books' = [books EXCEPT ![IndexOf(row)].isInWishlist = ~@]
    /\ cutShort' = cutShort \ {CoverIDOf(row)}
    /\ UNCHANGED isInWishlist

UserPressedWishlistButton(book) ==
    /\ running /\ pressed = None
    /\ \/ book \in Hits /\ FlipHit(book)
       \/ book \in Rows /\ FlipRow(book)
    /\ pressed' = book
    /\ UNCHANGED <<process, wishList, held, workerVars>>

(* Reading or flipping a row whose record was deleted raises, and the       *)
(* process aborts.                                                          *)
TouchDeletedBook(row) ==
    /\ running /\ pressed = None
    /\ row \in held \ Live
    /\ Die
    /\ process' = "aborted"
    /\ UNCHANGED cutShort

-----------------------------------------------------------------------------
(* The observer of "Update_Wishlist" *)

(* Mutants of CopyOf: a second field is forgotten. *)
CopyWithoutMark(row, book) ==
    [row |-> row, coverID |-> CoverIDOf(book),
     isInWishlist |-> FALSE]

CopyWithoutCoverID(row, book) ==
    [row |-> row, coverID |-> None,
     isInWishlist |-> Flagged(book)]

(* Of the fields, the copy takes the two that decide anything. *)
CopyOf(row, book) ==
    [row |-> row, coverID |-> CoverIDOf(book),
     isInWishlist |-> Flagged(book)]

(* Mutant of AddBook: the table is not consulted first. *)
AddBookUnchecked ==
    /\ Flagged(pressed)
    /\ \E row \in Rows \ (Live \cup held) :
         books' = Append(books, CopyOf(row, pressed))
    /\ wishList' = Accessors(books')
    /\ UNCHANGED cutShort

AddBook ==
    /\ Flagged(pressed)
    /\ CoverIDOf(pressed) \notin StoredCovers
    /\ \E row \in Rows \ (Live \cup held) :
         books' = Append(books, CopyOf(row, pressed))
    /\ wishList' = Accessors(books')
    /\ UNCHANGED cutShort

KeepBook ==
    /\ Flagged(pressed)
    /\ CoverIDOf(pressed) \in StoredCovers
    /\ UNCHANGED <<durableVars, wishList>>

(* Mutants of DeleteBook: the array is not read again; the records to      *)
(* delete are those with their flag down, not those with the cover.        *)
DeleteBookOnly ==
    /\ ~Flagged(pressed)
    /\ \/ /\ CoverIDOf(pressed) \notin StoredCovers
          /\ UNCHANGED books
       \/ \E i \in DOMAIN books :
            /\ books[i].coverID = CoverIDOf(pressed)
            /\ books' = MoveLastOver(books, i)
    /\ cutShort' = cutShort \ {CoverIDOf(pressed)}
    /\ UNCHANGED wishList

DeleteUnmarked ==
    /\ ~Flagged(pressed)
    /\ books' = SelectSeq(books, LAMBDA record : record.isInWishlist)
    /\ wishList' = Accessors(books')
    /\ cutShort' = {}

(* realm.delete of every record with the cover; OneRowPerCover says there  *)
(* is at most one.                                                         *)
DeleteBook ==
    /\ ~Flagged(pressed)
    /\ \/ /\ CoverIDOf(pressed) \notin StoredCovers
          /\ UNCHANGED books
       \/ \E i \in DOMAIN books :
            /\ books[i].coverID = CoverIDOf(pressed)
            /\ books' = MoveLastOver(books, i)
    /\ wishList' = Accessors(books')
    /\ cutShort' = cutShort \ {CoverIDOf(pressed)}

AddOrDeleteBookFromWishlist ==
    /\ pressed # None
    /\ AddBook \/ KeepBook \/ DeleteBook
    /\ pressed' = None
    /\ UNCHANGED <<process, isInWishlist, held, workerVars>>

-----------------------------------------------------------------------------
(* The search, on its own threads.  Two searches may overlap, and then two *)
(* threads mark at once, the same books among them.                        *)

(* A search makes a new Book for a result. *)
NewResult(hit) ==
    /\ running
    /\ hit # pressed
    /\ \A t \in Threads : hit \notin marking[t]
    /\ isInWishlist' = [isInWishlist EXCEPT ![hit] = FALSE]
    /\ UNCHANGED <<durableVars, process, wishList, uiVars, workerVars>>

(* determineWishlistBooks opens a Realm on a pool thread.  An instance that *)
(* an earlier call left in the thread's autorelease pool is reused, and     *)
(* still sees the version it was opened at.                                 *)
StartMarking(t, results) ==
    /\ running
    /\ marking[t] = {} /\ results # {}
    /\ marking' = [marking EXCEPT ![t] = results]
    /\ snapshot' = IF snapshot[t] = {}
                   THEN [snapshot EXCEPT ![t] = {StoredCovers}] ELSE snapshot
    /\ UNCHANGED <<durableVars, process, wishList, isInWishlist, uiVars>>

(* One turn of its loop: a book is marked, never unmarked. *)
MarkNext(t, hit) ==
    /\ hit \in marking[t]
    /\ marking' = [marking EXCEPT ![t] = @ \ {hit}]
    /\ isInWishlist' = IF \E covers \in snapshot[t] : CoverOf[hit] \in covers
                       THEN [isInWishlist EXCEPT ![hit] = TRUE]
                       ELSE isInWishlist
    /\ UNCHANGED <<durableVars, process, wishList, uiVars, snapshot>>

(* The pool thread drains its autorelease pool, closing the Realm. *)
DrainAutoreleasePool(t) ==
    /\ marking[t] = {} /\ snapshot[t] # {}
    /\ snapshot' = [snapshot EXCEPT ![t] = {}]
    /\ UNCHANGED <<durableVars, process, wishList, isInWishlist, uiVars, marking>>

-----------------------------------------------------------------------------

Next ==
    \/ Launch
    \/ Kill
    \/ \E index \in DOMAIN wishList : GetBook(index)
    \/ \E row \in held : ReleaseBook(row)
    \/ \E book \in Hits \cup held : UserPressedWishlistButton(book)
    \/ \E row \in held : TouchDeletedBook(row)
    \/ AddOrDeleteBookFromWishlist
    \/ \E hit \in Hits : NewResult(hit)
    \/ \E t \in Threads, results \in SUBSET Hits : StartMarking(t, results)
    \/ \E t \in Threads, hit \in Hits : MarkNext(t, hit)
    \/ \E t \in Threads : DrainAutoreleasePool(t)

Spec == Init /\ [][Next]_vars

-----------------------------------------------------------------------------
(* Properties *)

(* Every variable keeps its type; an accessor in wishList is a row, a       *)
(* snapshot is a set of covers, a press is of a known Book.                 *)
TypeOK ==
    /\ books \in Seq(Record)
    /\ process \in {"off", "on", "aborted"}
    /\ wishList \in Seq(Rows)
    /\ isInWishlist \in [Hits -> BOOLEAN]
    /\ held \in SUBSET Rows
    /\ pressed \in Hits \cup Rows \cup {None}
    /\ snapshot \in [Threads -> SUBSET SUBSET CoverIDs]
    /\ marking \in [Threads -> SUBSET Hits]
    /\ cutShort \in SUBSET CoverIDs

(* The Realm table never holds two records of one cover, although coverID   *)
(* is no primary key: several Book objects share a cover, their flags go    *)
(* stale, and only the count in addOrDeleteBookFromWishlist stands between  *)
(* a press and a duplicate.                                                 *)
OneRowPerCover ==
    \A i, j \in DOMAIN books : books[i].coverID = books[j].coverID => i = j

(* WishlistManager.wishList, the array that row numbers of the list index,  *)
(* is the table at every moment the main thread could read it, so it never  *)
(* holds the accessor of a deleted record.                                  *)
WishListIsTable == running => wishList = Accessors(books)

(* A stored record has its flag down, outside the handling of a press on   *)
(* it, exactly when the last press on it was a removal that a kill cut      *)
(* short between the commit of the flag and the commit of the deletion.     *)
UnflaggedIffCutShort ==
    \A i \in DOMAIN books :
      books[i].row # pressed =>
        (books[i].coverID \in cutShort <=> ~books[i].isInWishlist)

(* Each press is served as one change of one bookmark, and nothing else, a  *)
(* restart included, changes the stored bookmarks.                          *)
Intent == IF pressed = None THEN None
          ELSE [coverID |-> CoverIDOf(pressed), wanted |-> Flagged(pressed)]

Promise == INSTANCE Bookmarks
               WITH bookmarks <- StoredCovers, intent <- Intent, NoIntent <- None

ImplementsBookmarks == Promise!BookmarksSpec
-----------------------------------------------------------------------------
(* What a comment of the repository says, and the code does not do *)

(* "Updating book's wishlist status": a press of the popup's button updates *)
(* the book it shows, also when it shows a book of the wishlist.  A second  *)
(* press there touches the deleted record and aborts. *)
EveryPressUpdatesStatus == process # "aborted"
=============================================================================
