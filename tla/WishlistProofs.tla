--------------------------- MODULE WishlistProofs ---------------------------
(***************************************************************************)
(* Proofs about Wishlist, for any sets of covers, hits and rows: an         *)
(* inductive invariant, and the safety properties the runs check.           *)
(***************************************************************************)
EXTENDS Wishlist, TLAPS

-----------------------------------------------------------------------------
(* The inductive invariant *)

(* Rows are identities: no two records share one. *)
RowsAreDistinct ==
    \A i, j \in DOMAIN books : books[i].row = books[j].row => i = j

(* A press is handled by a running process, and the main thread handles     *)
(* one at a time, so the record whose button was pressed is still there,    *)
(* and the flip has made its flag mean the press and nothing older.         *)
PressIsCurrent ==
    /\ pressed # None => running
    /\ pressed \in Rows =>
         \E i \in DOMAIN books :
           books[i].row = pressed /\ books[i].coverID \notin cutShort

(* A removal that was cut short left its record behind. *)
CutShortIsStored == cutShort \subseteq StoredCovers

IInv ==
    /\ TypeOK
    /\ RowsAreDistinct
    /\ OneRowPerCover
    /\ WishListIsTable
    /\ UnflaggedIffCutShort
    /\ PressIsCurrent
    /\ CutShortIsStored

-----------------------------------------------------------------------------
(* Lemmas about the table *)

(* Finding a row again by its identity. *)
LEMMA IndexOfRow ==
    ASSUME RowsAreDistinct, NEW i \in DOMAIN books
    PROVE  IndexOf(books[i].row) = i
BY DEF IndexOf, RowsAreDistinct

(* What the type of a table says of its records. *)
LEMMA TableRecords ==
    ASSUME NEW table \in Seq(Record)
    PROVE  /\ Len(table) \in Nat
           /\ DOMAIN table = 1 .. Len(table)
           /\ \A i \in DOMAIN table :
                /\ table[i].row \in Rows
                /\ table[i].coverID \in CoverIDs
                /\ table[i].isInWishlist \in BOOLEAN
<1>1. /\ Len(table) \in Nat
      /\ DOMAIN table = 1 .. Len(table)
      /\ \A i \in 1 .. Len(table) : table[i] \in Record
  OBVIOUS
<1>2. \A record \in Record :
        /\ record.row \in Rows
        /\ record.coverID \in CoverIDs
        /\ record.isInWishlist \in BOOLEAN
  BY DEF Record
<1> QED BY <1>1, <1>2

(* The accessors of a table are a sequence of its rows. *)
LEMMA AccessorsType ==
    ASSUME NEW table \in Seq(Record)
    PROVE  /\ Accessors(table) \in Seq(Rows)
           /\ DOMAIN Accessors(table) = DOMAIN table
           /\ \A i \in DOMAIN table : Accessors(table)[i] = table[i].row
BY TableRecords DEF Accessors

(* MoveLastOver takes record i away and keeps every other one, once. *)
LEMMA MoveLastOverKeeps ==
    ASSUME NEW table \in Seq(Record), NEW i \in DOMAIN table
    PROVE  /\ MoveLastOver(table, i) \in Seq(Record)
           /\ DOMAIN MoveLastOver(table, i) = 1 .. Len(table) - 1
           /\ \A k \in DOMAIN MoveLastOver(table, i) :
                MoveLastOver(table, i)[k]
                  = table[IF k = i THEN Len(table) ELSE k]
           /\ \A k \in DOMAIN table : k # i =>
                \E m \in DOMAIN MoveLastOver(table, i) :
                  MoveLastOver(table, i)[m] = table[k]
<1>1. /\ Len(table) \in Nat
      /\ DOMAIN table = 1 .. Len(table)
      /\ \A k \in 1 .. Len(table) : table[k] \in Record
  OBVIOUS
<1>2. \A k \in 1 .. Len(table) - 1 :
        (IF k = i THEN table[Len(table)] ELSE table[k]) \in Record
  BY <1>1
<1>3. MoveLastOver(table, i) \in Seq(Record)
  BY <1>1, <1>2 DEF MoveLastOver
<1>4. DOMAIN MoveLastOver(table, i) = 1 .. Len(table) - 1
  BY DEF MoveLastOver
<1>5. \A k \in DOMAIN MoveLastOver(table, i) :
        MoveLastOver(table, i)[k] = table[IF k = i THEN Len(table) ELSE k]
  BY <1>1 DEF MoveLastOver
<1>6. ASSUME NEW k \in DOMAIN table, k # i
      PROVE  \E m \in DOMAIN MoveLastOver(table, i) :
               MoveLastOver(table, i)[m] = table[k]
  <2>1. CASE k = Len(table)
    BY <1>1, <1>4, <1>5, <1>6, <2>1
  <2>2. CASE k # Len(table)
    BY <1>1, <1>4, <1>5, <1>6, <2>2
  <2> QED BY <2>1, <2>2
<1> QED BY <1>3, <1>4, <1>5, <1>6

-----------------------------------------------------------------------------
(* Initially *)

LEMMA InitHolds == Init => IInv
<1> SUFFICES ASSUME Init PROVE IInv
  OBVIOUS
<1>1. TypeOK
  BY DEF Init, TypeOK
<1>2. RowsAreDistinct /\ OneRowPerCover /\ UnflaggedIffCutShort
  BY DEF Init, RowsAreDistinct, OneRowPerCover, UnflaggedIffCutShort
<1>3. WishListIsTable /\ PressIsCurrent /\ CutShortIsStored
  BY WishlistAssumption
  DEF Init, WishListIsTable, PressIsCurrent, CutShortIsStored, running
<1> QED BY <1>1, <1>2, <1>3 DEF IInv

-----------------------------------------------------------------------------
(* Each action.  Most leave the table alone; this lemma carries over what   *)
(* the invariant says of the table for all of them. *)

(* A step that changes neither the table, the press nor the history keeps   *)
(* what the invariant says of them. *)
LEMMA TableUntouched ==
    ASSUME IInv, UNCHANGED <<books, pressed, cutShort>>
    PROVE  /\ RowsAreDistinct' /\ OneRowPerCover'
           /\ UnflaggedIffCutShort' /\ CutShortIsStored'
           /\ pressed \in Rows =>
                \E i \in DOMAIN books' :
                  books'[i].row = pressed' /\ books'[i].coverID \notin cutShort'
<1>1. /\ RowsAreDistinct /\ OneRowPerCover /\ UnflaggedIffCutShort
      /\ CutShortIsStored /\ PressIsCurrent
      /\ books' = books /\ pressed' = pressed /\ cutShort' = cutShort
  BY DEF IInv
<1>2. RowsAreDistinct' /\ OneRowPerCover'
  BY <1>1 DEF RowsAreDistinct, OneRowPerCover
<1>3. UnflaggedIffCutShort'
  BY <1>1 DEF UnflaggedIffCutShort
<1>4. CutShortIsStored'
  BY <1>1 DEF CutShortIsStored, StoredCovers
<1> QED BY <1>1, <1>2, <1>3, <1>4 DEF PressIsCurrent

LEMMA LaunchKeeps == IInv /\ Launch => IInv'
<1> SUFFICES ASSUME IInv, Launch PROVE IInv'
  OBVIOUS
<1> USE DEF durableVars, uiVars, workerVars
<1>1. UNCHANGED <<books, pressed, cutShort>>
  BY DEF Launch
<1>2. wishList' = Accessors(books)' /\ wishList' \in Seq(Rows)
  BY <1>1, AccessorsType DEF Launch, IInv, TypeOK, Accessors
<1>3. TypeOK'
  BY <1>2 DEF Launch, IInv, TypeOK
<1>4. PressIsCurrent'
  BY <1>1, TableUntouched DEF Launch, IInv, PressIsCurrent, running
<1> QED BY <1>1, <1>2, <1>3, <1>4, TableUntouched
        DEF IInv, WishListIsTable

(* The steps of the views and of the search that change neither the table   *)
(* nor the press. *)
LEMMA QuietStepKeeps ==
    ASSUME IInv, UNCHANGED <<books, pressed, cutShort, process, wishList>>,
           TypeOK'
    PROVE  IInv'
<1>1. WishListIsTable'
  BY DEF IInv, WishListIsTable, Accessors, running
<1>2. PressIsCurrent'
  BY TableUntouched DEF IInv, PressIsCurrent, running
<1> QED BY <1>1, <1>2, TableUntouched DEF IInv

LEMMA ViewsAndSearchKeep ==
    IInv /\ (\/ \E index \in DOMAIN wishList : GetBook(index)
             \/ \E row \in held : ReleaseBook(row)
             \/ \E hit \in Hits : NewResult(hit)
             \/ \E t \in Threads, results \in SUBSET Hits :
                  StartMarking(t, results)
             \/ \E t \in Threads, hit \in Hits : MarkNext(t, hit)
             \/ \E t \in Threads : DrainAutoreleasePool(t))
      => IInv'
<1> SUFFICES ASSUME IInv PROVE
      /\ \A index \in DOMAIN wishList : GetBook(index) => IInv'
      /\ \A row \in held : ReleaseBook(row) => IInv'
      /\ \A hit \in Hits : NewResult(hit) => IInv'
      /\ \A t \in Threads, results \in SUBSET Hits :
           StartMarking(t, results) => IInv'
      /\ \A t \in Threads, hit \in Hits : MarkNext(t, hit) => IInv'
      /\ \A t \in Threads : DrainAutoreleasePool(t) => IInv'
  OBVIOUS
<1> USE DEF durableVars, uiVars, workerVars
<1>0. TypeOK
  BY DEF IInv
<1>1. ASSUME NEW index \in DOMAIN wishList, GetBook(index) PROVE IInv'
  <2>1. TypeOK'
    BY <1>0, <1>1 DEF GetBook, TypeOK
  <2> QED BY <1>1, <2>1, QuietStepKeeps DEF GetBook
<1>2. ASSUME NEW row \in held, ReleaseBook(row) PROVE IInv'
  <2>1. TypeOK'
    BY <1>0, <1>2 DEF ReleaseBook, TypeOK
  <2> QED BY <1>2, <2>1, QuietStepKeeps DEF ReleaseBook
<1>3. ASSUME NEW hit \in Hits, NewResult(hit) PROVE IInv'
  <2>1. TypeOK'
    BY <1>0, <1>3 DEF NewResult, TypeOK
  <2> QED BY <1>3, <2>1, QuietStepKeeps DEF NewResult
<1>4. ASSUME NEW t \in Threads, NEW results \in SUBSET Hits,
             StartMarking(t, results)
      PROVE  IInv'
  <2>1. {StoredCovers} \in SUBSET SUBSET CoverIDs
    BY <1>0, TableRecords DEF TypeOK, StoredCovers
  <2>2. /\ snapshot' \in [Threads -> SUBSET SUBSET CoverIDs]
        /\ marking' \in [Threads -> SUBSET Hits]
    BY <1>0, <1>4, <2>1 DEF StartMarking, TypeOK
  <2>3. TypeOK'
    BY <1>0, <1>4, <2>2 DEF StartMarking, TypeOK
  <2> QED BY <1>4, <2>3, QuietStepKeeps DEF StartMarking
<1>5. ASSUME NEW t \in Threads, NEW hit \in Hits, MarkNext(t, hit) PROVE IInv'
  <2>1. /\ marking' \in [Threads -> SUBSET Hits]
        /\ isInWishlist' \in [Hits -> BOOLEAN]
    BY <1>0, <1>5 DEF MarkNext, TypeOK
  <2>2. TypeOK'
    BY <1>0, <1>5, <2>1 DEF MarkNext, TypeOK
  <2> QED BY <1>5, <2>2, QuietStepKeeps DEF MarkNext
<1>6. ASSUME NEW t \in Threads, DrainAutoreleasePool(t) PROVE IInv'
  <2>1. snapshot' \in [Threads -> SUBSET SUBSET CoverIDs]
    BY <1>0, <1>6 DEF DrainAutoreleasePool, TypeOK
  <2>2. TypeOK'
    BY <1>0, <1>6, <2>1 DEF DrainAutoreleasePool, TypeOK
  <2> QED BY <1>6, <2>2, QuietStepKeeps DEF DrainAutoreleasePool
<1> QED BY <1>1, <1>2, <1>3, <1>4, <1>5, <1>6

(* A kill loses everything but the table, and remembers in cutShort the     *)
(* removal it interrupts; an exception finds no press under way. *)
LEMMA DeathKeeps ==
    IInv /\ (Kill \/ \E row \in held : TouchDeletedBook(row)) => IInv'
<1>1. ASSUME IInv, Die, process' \in {"off", "aborted"},
             cutShort' \in SUBSET StoredCovers,
             UnflaggedIffCutShort'
      PROVE  IInv'
  <2>1. TypeOK'
    <3>1. StoredCovers \subseteq CoverIDs
      BY <1>1, TableRecords DEF IInv, TypeOK, StoredCovers
    <3> QED BY <1>1, <3>1 DEF Die, IInv, TypeOK
  <2>2. RowsAreDistinct' /\ OneRowPerCover'
    BY <1>1 DEF Die, IInv, RowsAreDistinct, OneRowPerCover
  <2>3. WishListIsTable'
    BY <1>1 DEF WishListIsTable, running
  <2>4. PressIsCurrent' /\ CutShortIsStored'
    BY <1>1, WishlistAssumption
    DEF Die, PressIsCurrent, CutShortIsStored, StoredCovers
  <2> QED BY <1>1, <2>1, <2>2, <2>3, <2>4 DEF IInv
<1>2. ASSUME IInv, NEW row \in held, TouchDeletedBook(row) PROVE IInv'
  <2>1. /\ pressed = None /\ books' = books /\ cutShort' = cutShort
        /\ \A i \in DOMAIN books : books[i].row # None
    BY <1>2, TableRecords, WishlistAssumption
    DEF TouchDeletedBook, Die, IInv, TypeOK
  <2>2. UnflaggedIffCutShort'
    BY <1>2, <2>1 DEF IInv, UnflaggedIffCutShort
  <2> QED BY <1>1, <1>2, <2>1, <2>2
          DEF TouchDeletedBook, IInv, CutShortIsStored
<1>3. ASSUME IInv, Kill PROVE IInv'
  <2>1. books' = books /\ pressed' = None
    BY <1>3 DEF Kill, Die
  <2>2. CASE pressed \notin Rows
    <3>1. cutShort' = cutShort /\ \A i \in DOMAIN books : books[i].row # pressed
      BY <1>3, <2>2, TableRecords DEF Kill, IInv, TypeOK
    <3>2. UnflaggedIffCutShort'
      BY <1>3, <2>1, <3>1 DEF IInv, UnflaggedIffCutShort
    <3> QED BY <1>1, <1>3, <3>1, <3>2 DEF Kill, IInv, CutShortIsStored
  <2>3. CASE pressed \in Rows
    <3>1. PICK p \in DOMAIN books :
            books[p].row = pressed /\ books[p].coverID \notin cutShort
      BY <1>3, <2>3 DEF IInv, PressIsCurrent
    <3>2. IndexOf(pressed) = p /\ pressed \notin Hits
      BY <1>3, <2>3, <3>1, IndexOfRow, WishlistAssumption DEF IInv
    <3>3. cutShort' = IF ~books[p].isInWishlist
                      THEN cutShort \cup {books[p].coverID} ELSE cutShort
      BY <1>3, <2>3, <3>2 DEF Kill, Flagged, CoverIDOf
    <3>4. \A i \in DOMAIN books :
            /\ books[i].row = pressed => i = p
            /\ books[i].coverID = books[p].coverID => i = p
      BY <1>3, <3>1 DEF IInv, RowsAreDistinct, OneRowPerCover
    <3>5. UnflaggedIffCutShort'
      BY <1>3, <2>1, <3>1, <3>3, <3>4 DEF IInv, UnflaggedIffCutShort
    <3>6. cutShort' \in SUBSET StoredCovers
      BY <1>3, <3>3 DEF IInv, CutShortIsStored, StoredCovers
    <3> QED BY <1>1, <1>3, <3>5, <3>6 DEF Kill
  <2> QED BY <2>2, <2>3
<1> QED BY <1>2, <1>3

(* The flip of a flag leaves rows and covers alone, and starts a press on a *)
(* record that is there. *)
LEMMA PressKeeps ==
    ASSUME IInv, NEW book \in Hits \cup held, UserPressedWishlistButton(book)
    PROVE  IInv'
<1> USE DEF durableVars, workerVars
<1>1. /\ running /\ pressed = None /\ pressed' = book
      /\ process' = process /\ wishList' = wishList /\ held' = held
      /\ snapshot' = snapshot /\ marking' = marking
  BY DEF UserPressedWishlistButton
<1>2. TypeOK /\ running'
  BY <1>1 DEF IInv, running
<1>3. CASE book \in Hits
  <2>1. FlipHit(book) /\ book \notin Rows
    BY <1>3, WishlistAssumption DEF UserPressedWishlistButton
  <2>2. books' = books /\ cutShort' = cutShort
    BY <2>1 DEF FlipHit
  <2>3. TypeOK'
    BY <1>1, <1>2, <1>3, <2>1 DEF FlipHit, TypeOK
  <2>4. RowsAreDistinct' /\ OneRowPerCover' /\ CutShortIsStored'
    BY <2>2 DEF IInv, RowsAreDistinct, OneRowPerCover, CutShortIsStored,
                StoredCovers
  <2>5. UnflaggedIffCutShort'
    <3>1. \A i \in DOMAIN books : books[i].row # None
      BY <1>2, TableRecords, WishlistAssumption DEF TypeOK
    <3> QED BY <1>1, <2>2, <3>1 DEF IInv, UnflaggedIffCutShort
  <2>6. WishListIsTable' /\ PressIsCurrent'
    BY <1>1, <1>2, <2>1, <2>2
    DEF IInv, WishListIsTable, PressIsCurrent, Accessors, running
  <2> QED BY <2>3, <2>4, <2>5, <2>6 DEF IInv
<1>4. CASE book \in Rows
  <2>1. FlipRow(book) /\ book \notin Hits
    BY <1>4, WishlistAssumption DEF UserPressedWishlistButton
  <2>2. PICK p \in DOMAIN books : books[p].row = book
    BY <2>1 DEF FlipRow, Live
  <2>3. IndexOf(book) = p
    BY <2>2, IndexOfRow DEF IInv
  <2>4. /\ books' = [books EXCEPT ![p].isInWishlist = ~@]
        /\ cutShort' = cutShort \ {books[p].coverID}
        /\ isInWishlist' = isInWishlist
    BY <2>1, <2>3 DEF FlipRow, CoverIDOf
  <2>5. books' \in Seq(Record)
    <3>1. \A record \in Record : [record EXCEPT !.isInWishlist = ~@] \in Record
      BY DEF Record
    <3>2. books[p] \in Record
      BY <1>2 DEF TypeOK
    <3> QED BY <1>2, <2>4, <3>1, <3>2 DEF TypeOK
  <2>6. /\ DOMAIN books' = DOMAIN books
        /\ \A i \in DOMAIN books :
             /\ books'[i].row = books[i].row
             /\ books'[i].coverID = books[i].coverID
             /\ i # p => books'[i] = books[i]
    <3>1. \A record \in Record :
            /\ [record EXCEPT !.isInWishlist = ~@].row = record.row
            /\ [record EXCEPT !.isInWishlist = ~@].coverID = record.coverID
      BY DEF Record
    <3>2. books[p] \in Record
      BY <1>2 DEF TypeOK
    <3> QED BY <1>2, <2>4, <3>1, <3>2 DEF TypeOK
  <2>7. TypeOK'
    BY <1>1, <1>2, <1>4, <2>4, <2>5 DEF TypeOK
  <2>8. RowsAreDistinct' /\ OneRowPerCover'
    BY <2>6 DEF IInv, RowsAreDistinct, OneRowPerCover
  <2>9. CutShortIsStored'
    BY <2>4, <2>6 DEF IInv, CutShortIsStored, StoredCovers
  <2>10. UnflaggedIffCutShort'
    <3>1. \A i \in DOMAIN books : i # p =>
            books[i].row # None /\ books[i].coverID # books[p].coverID
      BY <1>2, TableRecords, WishlistAssumption DEF TypeOK, IInv, OneRowPerCover
    <3> QED BY <1>1, <2>2, <2>4, <2>6, <3>1 DEF IInv, UnflaggedIffCutShort
  <2>11. WishListIsTable'
    BY <1>1, <2>6 DEF IInv, WishListIsTable, Accessors, running
  <2>12. PressIsCurrent'
    BY <1>1, <1>2, <2>2, <2>4, <2>6 DEF PressIsCurrent
  <2> QED BY <2>7, <2>8, <2>9, <2>10, <2>11, <2>12 DEF IInv
<1> QED BY <1>2, <1>3, <1>4 DEF TypeOK

(* The observer: the insertion finds no record of the cover, the deletion   *)
(* takes the only one, and both read the array again. *)
LEMMA ObserverKeeps ==
    ASSUME IInv, AddOrDeleteBookFromWishlist
    PROVE  IInv'
<1>1. /\ pressed # None /\ pressed' = None /\ running /\ running'
      /\ process' = process /\ isInWishlist' = isInWishlist /\ held' = held
      /\ snapshot' = snapshot /\ marking' = marking
  BY DEF AddOrDeleteBookFromWishlist, workerVars, IInv, PressIsCurrent, running
<1>2. TypeOK /\ PressIsCurrent'
  BY <1>1, WishlistAssumption DEF IInv, PressIsCurrent
<1>3. pressed \in Rows =>
        /\ pressed \notin Hits
        /\ \E p \in DOMAIN books :
             /\ IndexOf(pressed) = p
             /\ books[p].row = pressed
             /\ books[p].coverID \notin cutShort
  BY IndexOfRow, WishlistAssumption DEF IInv, PressIsCurrent
<1>4. CoverIDOf(pressed) \in CoverIDs /\ Flagged(pressed) \in BOOLEAN
  BY <1>1, <1>2, <1>3, TableRecords, WishlistAssumption
  DEF CoverIDOf, Flagged, TypeOK
<1>5. CASE AddBook
  <2>1. PICK row \in Rows \ (Live \cup held) :
          books' = Append(books, CopyOf(row, pressed))
    BY <1>5 DEF AddBook
  <2>2. /\ CoverIDOf(pressed) \notin StoredCovers /\ Flagged(pressed)
        /\ wishList' = Accessors(books') /\ cutShort' = cutShort
    BY <1>5 DEF AddBook
  <2>3. CopyOf(row, pressed) \in Record
    BY <1>4 DEF CopyOf, Record
  <2>4. /\ books' \in Seq(Record)
        /\ DOMAIN books' = 1 .. Len(books) + 1
        /\ \A i \in DOMAIN books : books'[i] = books[i]
        /\ books'[Len(books) + 1] = CopyOf(row, pressed)
        /\ DOMAIN books = 1 .. Len(books) /\ Len(books) \in Nat
    BY <1>2, <2>1, <2>3 DEF TypeOK
  <2>5. /\ CopyOf(row, pressed).row = row
        /\ CopyOf(row, pressed).coverID = CoverIDOf(pressed)
        /\ CopyOf(row, pressed).isInWishlist
    BY <2>2 DEF CopyOf
  <2>6. \A i \in DOMAIN books :
          /\ books[i].row # row
          /\ books[i].coverID # CoverIDOf(pressed)
    BY <2>2 DEF Live, StoredCovers
  <2>7. TypeOK'
    BY <1>1, <1>2, <2>2, <2>4, AccessorsType DEF TypeOK
  <2>8. RowsAreDistinct' /\ OneRowPerCover'
    BY <2>4, <2>5, <2>6 DEF IInv, RowsAreDistinct, OneRowPerCover
  <2>9. pressed \notin Rows
    BY <1>3, <2>2 DEF CoverIDOf, StoredCovers
  <2>10. UnflaggedIffCutShort'
    <3>1. CoverIDOf(pressed) \notin cutShort
      BY <2>2 DEF IInv, CutShortIsStored
    <3>2. \A i \in DOMAIN books : books[i].row # pressed
      BY <1>2, <2>9, TableRecords DEF TypeOK
    <3> QED BY <2>2, <2>4, <2>5, <3>1, <3>2 DEF IInv, UnflaggedIffCutShort
  <2>11. CutShortIsStored'
    BY <2>2, <2>4 DEF IInv, CutShortIsStored, StoredCovers
  <2>12. WishListIsTable'
    BY <2>2 DEF WishListIsTable, Accessors
  <2> QED BY <1>2, <2>7, <2>8, <2>10, <2>11, <2>12 DEF IInv
<1>6. CASE KeepBook
  <2>1. Flagged(pressed) /\ UNCHANGED <<books, cutShort, wishList>>
    BY <1>6 DEF KeepBook, durableVars
  <2>2. TypeOK'
    BY <1>1, <1>2, <2>1 DEF TypeOK
  <2>3. RowsAreDistinct' /\ OneRowPerCover' /\ CutShortIsStored'
    BY <2>1 DEF IInv, RowsAreDistinct, OneRowPerCover, CutShortIsStored,
                StoredCovers
  <2>4. UnflaggedIffCutShort'
    <3>1. \A i \in DOMAIN books : books[i].row = pressed =>
            books[i].isInWishlist /\ books[i].coverID \notin cutShort
      BY <1>2, <1>3, <2>1, TableRecords DEF Flagged, IInv, RowsAreDistinct, TypeOK
    <3> QED BY <2>1, <3>1 DEF IInv, UnflaggedIffCutShort
  <2>5. WishListIsTable'
    BY <1>1, <2>1 DEF IInv, WishListIsTable, Accessors
  <2> QED BY <1>2, <2>2, <2>3, <2>4, <2>5 DEF IInv
<1>7. CASE DeleteBook
  <2>1. /\ ~Flagged(pressed) /\ wishList' = Accessors(books')
        /\ cutShort' = cutShort \ {CoverIDOf(pressed)}
    BY <1>7 DEF DeleteBook
  <2>2. CASE CoverIDOf(pressed) \notin StoredCovers /\ books' = books
    <3>1. pressed \notin Rows
      BY <1>3, <2>2 DEF CoverIDOf, StoredCovers
    <3>2. cutShort' = cutShort
      BY <2>1, <2>2 DEF IInv, CutShortIsStored
    <3>3. TypeOK'
      BY <1>1, <1>2, <2>1, <2>2, <3>2, AccessorsType DEF TypeOK
    <3>4. RowsAreDistinct' /\ OneRowPerCover' /\ CutShortIsStored'
      BY <2>2, <3>2 DEF IInv, RowsAreDistinct, OneRowPerCover, CutShortIsStored,
                        StoredCovers
    <3>5. UnflaggedIffCutShort'
      <4>1. \A i \in DOMAIN books : books[i].row # pressed
        BY <1>2, <3>1, TableRecords DEF TypeOK
      <4> QED BY <2>2, <3>2, <4>1 DEF IInv, UnflaggedIffCutShort
    <3>6. WishListIsTable'
      BY <2>1 DEF WishListIsTable, Accessors
    <3> QED BY <1>2, <3>3, <3>4, <3>5, <3>6 DEF IInv
  <2>3. ASSUME NEW d \in DOMAIN books, books[d].coverID = CoverIDOf(pressed),
               books' = MoveLastOver(books, d)
        PROVE  IInv'
    <3>1. /\ books' \in Seq(Record)
          /\ DOMAIN books' = 1 .. Len(books) - 1
          /\ \A k \in DOMAIN books' :
               books'[k] = books[IF k = d THEN Len(books) ELSE k]
          /\ \A k \in DOMAIN books : k # d =>
               \E m \in DOMAIN books' : books'[m] = books[k]
      BY <1>2, <2>3, MoveLastOverKeeps DEF TypeOK
    <3>2. Len(books) \in Nat /\ DOMAIN books = 1 .. Len(books)
      BY <1>2 DEF TypeOK
    <3>3. \A k \in DOMAIN books' : \E i \in DOMAIN books \ {d} :
            books'[k] = books[i]
      BY <3>1, <3>2
    <3>4. \A i \in DOMAIN books \ {d} :
            books[i].coverID # CoverIDOf(pressed) /\ books[i].row # pressed
      <4>1. \A i \in DOMAIN books \ {d} : books[i].coverID # CoverIDOf(pressed)
        BY <2>3 DEF IInv, OneRowPerCover
      <4>2. pressed \in Rows => books[d].row = pressed
        BY <1>3, <2>3 DEF CoverIDOf, IInv, OneRowPerCover
      <4>3. \A i \in DOMAIN books \ {d} : books[i].row # pressed
        BY <1>2, <4>2, TableRecords DEF TypeOK, IInv, RowsAreDistinct
      <4> QED BY <4>1, <4>3
    <3>5. TypeOK'
      BY <1>1, <1>2, <2>1, <3>1, AccessorsType DEF TypeOK
    <3>6. RowsAreDistinct' /\ OneRowPerCover'
      <4> DEFINE old(k) == IF k = d THEN Len(books) ELSE k
      <4>1. \A k \in DOMAIN books' : old(k) \in DOMAIN books
        BY <3>1, <3>2
      <4>2. \A j, k \in DOMAIN books' : old(j) = old(k) => j = k
        BY <3>1, <3>2
      <4>3. \A k \in DOMAIN books' : books'[k] = books[old(k)]
        BY <3>1
      <4> HIDE DEF old
      <4>4. RowsAreDistinct'
        BY <4>1, <4>2, <4>3 DEF IInv, RowsAreDistinct
      <4>5. OneRowPerCover'
        BY <4>1, <4>2, <4>3 DEF IInv, OneRowPerCover
      <4> QED BY <4>4, <4>5
    <3>7. UnflaggedIffCutShort'
      <4>1. \A k \in DOMAIN books' :
              books'[k].coverID \in cutShort' <=> ~books'[k].isInWishlist
        BY <2>1, <3>3, <3>4 DEF IInv, UnflaggedIffCutShort
      <4> QED BY <4>1 DEF UnflaggedIffCutShort
    <3>8. CutShortIsStored'
      <4>1. \A c \in cutShort' : \E k \in DOMAIN books \ {d} : books[k].coverID = c
        BY <2>1, <2>3 DEF IInv, CutShortIsStored, StoredCovers
      <4> QED BY <3>1, <4>1 DEF CutShortIsStored, StoredCovers
    <3>9. WishListIsTable'
      BY <2>1 DEF WishListIsTable, Accessors
    <3> QED BY <1>2, <3>5, <3>6, <3>7, <3>8, <3>9 DEF IInv
  <2> QED BY <1>7, <2>2, <2>3 DEF DeleteBook
<1> QED BY <1>5, <1>6, <1>7 DEF AddOrDeleteBookFromWishlist

-----------------------------------------------------------------------------
(* The theorems *)

(* The invariant is inductive. *)
LEMMA NextKeeps == IInv /\ [Next]_vars => IInv'
<1> SUFFICES ASSUME IInv, [Next]_vars PROVE IInv'
  OBVIOUS
<1>1. CASE UNCHANGED vars
  <2>1. TypeOK'
    BY <1>1 DEF vars, IInv, TypeOK
  <2> QED BY <1>1, <2>1, QuietStepKeeps DEF vars
<1>2. CASE Next
  BY <1>2, LaunchKeeps, DeathKeeps, ViewsAndSearchKeep, PressKeeps,
     ObserverKeeps DEF Next
<1> QED BY <1>1, <1>2

THEOREM InductiveInvariant == Spec => []IInv
BY InitHolds, NextKeeps, PTL DEF Spec

(* Every variable of the wishlist keeps its type. *)
THEOREM TypeCorrect == Spec => []TypeOK
<1>1. IInv => TypeOK
  BY DEF IInv
<1> QED BY <1>1, InductiveInvariant, PTL

(* addOrDeleteBookFromWishlist never stores a cover twice. *)
THEOREM NoDuplicateRecord == Spec => []OneRowPerCover
<1>1. IInv => OneRowPerCover
  BY DEF IInv
<1> QED BY <1>1, InductiveInvariant, PTL

(* The array the list is shown from never differs from the table. *)
THEOREM ArrayIsTable == Spec => []WishListIsTable
<1>1. IInv => WishListIsTable
  BY DEF IInv
<1> QED BY <1>1, InductiveInvariant, PTL

(* A stored flag that is down tells exactly a removal that was cut short. *)
THEOREM FlagTellsCutShort == Spec => []UnflaggedIffCutShort
<1>1. IInv => UnflaggedIffCutShort
  BY DEF IInv
<1> QED BY <1>1, InductiveInvariant, PTL

-----------------------------------------------------------------------------
(* The refinement: StoredCovers is the abstract set of bookmarks, and the   *)
(* press being handled, with the flag its Book has now, the intent. *)

(* Reading the flag and the cover of a record by its row. *)
LEMMA RowFields ==
    ASSUME IInv, NEW i \in DOMAIN books, books[i].row \in Rows
    PROVE  /\ CoverIDOf(books[i].row) = books[i].coverID
           /\ Flagged(books[i].row) = books[i].isInWishlist
BY IndexOfRow, WishlistAssumption DEF IInv, CoverIDOf, Flagged

(* A press is an intent, and no intent is None. *)
LEMMA IntentType ==
    IInv /\ pressed # None =>
      /\ Intent = [coverID |-> CoverIDOf(pressed), wanted |-> Flagged(pressed)]
      /\ CoverIDOf(pressed) \in CoverIDs
      /\ Flagged(pressed) \in BOOLEAN
      /\ Intent \in Promise!Intents
      /\ Intent # None
<1> SUFFICES ASSUME IInv, pressed # None
             PROVE  /\ CoverIDOf(pressed) \in CoverIDs
                    /\ Flagged(pressed) \in BOOLEAN
  BY WishlistAssumption DEF Intent, Promise!Intents
<1>1. CASE pressed \in Hits
  BY <1>1, WishlistAssumption DEF IInv, TypeOK, CoverIDOf, Flagged
<1>2. CASE pressed \in Rows
  <2>1. PICK p \in DOMAIN books : books[p].row = pressed
    BY <1>2 DEF IInv, PressIsCurrent
  <2> QED BY <1>2, <2>1, RowFields, TableRecords DEF IInv, TypeOK
<1> QED BY <1>1, <1>2 DEF IInv, TypeOK

LEMMA SameTableSameBookmarks ==
    ASSUME UNCHANGED <<books, pressed>>,
           pressed \in Hits => isInWishlist'[pressed] = isInWishlist[pressed]
    PROVE  StoredCovers' = StoredCovers /\ Intent' = Intent
BY DEF StoredCovers, Intent, CoverIDOf, Flagged, IndexOf

(* The end of a press is the loss of its intent, or nothing. *)
LEMMA DeathLoses ==
    ASSUME IInv, Die
    PROVE  Promise!Lose \/ UNCHANGED <<StoredCovers, Intent>>
<1>1. StoredCovers' = StoredCovers /\ Intent' = None
  BY DEF Die, StoredCovers, Intent
<1>2. CASE pressed = None
  BY <1>1, <1>2 DEF Intent
<1>3. CASE pressed # None
  BY <1>1, <1>3, IntentType DEF Promise!Lose
<1> QED BY <1>2, <1>3

(* Handling a button takes up an intent, and commits no bookmark yet. *)
LEMMA PressTakesIntent ==
    ASSUME IInv, IInv', NEW book \in Hits \cup held,
           UserPressedWishlistButton(book)
    PROVE  Promise!Press
<1>1. pressed = None /\ pressed' = book
  BY DEF UserPressedWishlistButton
<1>2. Intent = None
  BY <1>1 DEF Intent
<1>3. Intent' \in Promise!Intents
  <2>1. book # None
    BY WishlistAssumption DEF IInv, TypeOK
  <2>2. (IInv /\ pressed # None => Intent \in Promise!Intents)'
    BY IntentType, PTL
  <2> QED BY <1>1, <2>1, <2>2 DEF Promise!Intents
<1>4. StoredCovers' = StoredCovers
  <2>1. CASE FlipHit(book)
    BY <2>1 DEF FlipHit, durableVars, StoredCovers
  <2>2. CASE FlipRow(book)
    <3>1. PICK p \in DOMAIN books : books[p].row = book /\ IndexOf(book) = p
      BY <2>2, IndexOfRow DEF FlipRow, Live, IInv
    <3>2. books' = [books EXCEPT ![p].isInWishlist = ~@]
      BY <2>2, <3>1 DEF FlipRow
    <3>3. \A record \in Record :
            [record EXCEPT !.isInWishlist = ~@].coverID = record.coverID
      BY DEF Record
    <3>4. books \in Seq(Record)
      BY DEF IInv, TypeOK
    <3>5. /\ DOMAIN books' = DOMAIN books
          /\ \A i \in DOMAIN books : books'[i].coverID = books[i].coverID
      BY <3>2, <3>3, <3>4
    <3> QED BY <3>5 DEF StoredCovers
  <2> QED BY <2>1, <2>2 DEF UserPressedWishlistButton
<1> QED BY <1>2, <1>3, <1>4 DEF Promise!Press

(* The observer serves the intent. *)
LEMMA ObserverServes ==
    ASSUME IInv, AddOrDeleteBookFromWishlist
    PROVE  Promise!Serve
<1> DEFINE cover == CoverIDOf(pressed)
<1>1. pressed # None /\ Intent' = None
  BY DEF AddOrDeleteBookFromWishlist, Intent
<1>2. /\ Intent # None /\ Intent.coverID = cover
      /\ Intent.wanted = Flagged(pressed)
  BY <1>1, IntentType
<1>3. books \in Seq(Record)
  BY DEF IInv, TypeOK
<1> HIDE DEF cover
<1>4. CASE AddBook
  <2>1. PICK row : books' = Append(books, CopyOf(row, pressed))
    BY <1>4 DEF AddBook
  <2>2. CopyOf(row, pressed).coverID = cover
    BY DEF CopyOf, cover
  <2>3. /\ DOMAIN books = 1 .. Len(books) /\ Len(books) \in Nat
        /\ DOMAIN books' = DOMAIN books \cup {Len(books) + 1}
        /\ \A i \in DOMAIN books : books'[i] = books[i]
        /\ books'[Len(books) + 1] = CopyOf(row, pressed)
    BY <1>3, <2>1
  <2>4. StoredCovers' = StoredCovers \cup {cover}
    BY <2>2, <2>3 DEF StoredCovers
  <2> QED BY <1>1, <1>2, <1>4, <2>4 DEF AddBook, Promise!Serve
<1>5. CASE KeepBook
  <2>1. StoredCovers' = StoredCovers \cup {cover}
    BY <1>5 DEF KeepBook, durableVars, StoredCovers, cover
  <2> QED BY <1>1, <1>2, <1>5, <2>1 DEF KeepBook, Promise!Serve
<1>6. CASE DeleteBook
  <2>1. ASSUME cover \notin StoredCovers, books' = books
        PROVE  StoredCovers' = StoredCovers \ {cover}
    BY <2>1 DEF StoredCovers
  <2>2. ASSUME NEW d \in DOMAIN books, books[d].coverID = cover,
               books' = MoveLastOver(books, d)
        PROVE  StoredCovers' = StoredCovers \ {cover}
    <3>1. /\ DOMAIN books' = 1 .. Len(books) - 1
          /\ \A k \in DOMAIN books' :
               books'[k] = books[IF k = d THEN Len(books) ELSE k]
          /\ \A k \in DOMAIN books : k # d =>
               \E m \in DOMAIN books' : books'[m] = books[k]
          /\ DOMAIN books = 1 .. Len(books) /\ Len(books) \in Nat
      BY <1>3, <2>2, MoveLastOverKeeps
    <3>2. \A k \in DOMAIN books \ {d} : books[k].coverID # cover
      BY <2>2 DEF IInv, OneRowPerCover
    <3>3. \A k \in DOMAIN books' : \E i \in DOMAIN books \ {d} :
            books'[k] = books[i]
      BY <3>1
    <3> QED BY <2>2, <3>1, <3>2, <3>3 DEF StoredCovers
  <2>3. StoredCovers' = StoredCovers \ {cover}
    BY <1>6, <2>1, <2>2 DEF DeleteBook, StoredCovers, cover
  <2> QED BY <1>1, <1>2, <1>6, <2>3 DEF DeleteBook, Promise!Serve
<1> QED BY <1>4, <1>5, <1>6 DEF AddOrDeleteBookFromWishlist

(* The marking of a hit whose press is being handled turns the intent up. *)
LEMMA MarkOverrides ==
    ASSUME IInv, NEW t \in Threads, NEW hit \in Hits, MarkNext(t, hit)
    PROVE  Promise!Override \/ UNCHANGED <<StoredCovers, Intent>>
<1>1. /\ books' = books /\ pressed' = pressed
      /\ isInWishlist \in [Hits -> BOOLEAN]
      /\ \/ isInWishlist' = isInWishlist
         \/ isInWishlist' = [isInWishlist EXCEPT ![hit] = TRUE]
  BY DEF MarkNext, durableVars, uiVars, IInv, TypeOK
<1>2. CASE pressed # hit \/ isInWishlist' = isInWishlist
  BY <1>1, <1>2, SameTableSameBookmarks
<1>3. CASE pressed = hit /\ isInWishlist' = [isInWishlist EXCEPT ![hit] = TRUE]
  <2>1. /\ Intent # None
        /\ Intent = [coverID |-> CoverOf[hit], wanted |-> isInWishlist[hit]]
    BY <1>3, IntentType, WishlistAssumption DEF CoverIDOf, Flagged
  <2>2. Intent' = [coverID |-> CoverOf[hit], wanted |-> TRUE]
    BY <1>1, <1>3, WishlistAssumption DEF Intent, CoverIDOf, Flagged
  <2>3. StoredCovers' = StoredCovers
    BY <1>1 DEF StoredCovers
  <2>4. Intent' = [coverID |-> Intent.coverID, wanted |-> TRUE]
    BY <2>1, <2>2
  <2> QED BY <2>1, <2>3, <2>4 DEF Promise!Override
<1> QED BY <1>1, <1>2, <1>3

(* Every step of the wishlist is a step of Bookmarks, or none. *)
LEMMA StepMaps ==
    IInv /\ IInv' /\ [Next]_vars
      => [Promise!BookmarksNext]_(Promise!bookmarkVars)
<1> SUFFICES ASSUME IInv, IInv', [Next]_vars
             PROVE  \/ Promise!BookmarksNext
                    \/ UNCHANGED <<StoredCovers, Intent>>
  BY DEF Promise!bookmarkVars
<1> USE DEF Promise!BookmarksNext
<1>1. CASE UNCHANGED vars
  BY <1>1, SameTableSameBookmarks DEF vars
<1>2. CASE \/ Launch \/ \E t \in Threads : DrainAutoreleasePool(t)
           \/ \E index \in DOMAIN wishList : GetBook(index)
           \/ \E row \in held : ReleaseBook(row)
           \/ \E t \in Threads, results \in SUBSET Hits :
                StartMarking(t, results)
  <2>1. UNCHANGED <<books, pressed, isInWishlist>>
    BY <1>2 DEF Launch, DrainAutoreleasePool, GetBook, ReleaseBook,
                StartMarking, durableVars, uiVars
  <2> QED BY <2>1, SameTableSameBookmarks
<1>3. CASE Kill \/ \E row \in held : TouchDeletedBook(row)
  BY <1>3, DeathLoses DEF Kill, TouchDeletedBook
<1>4. ASSUME NEW book \in Hits \cup held, UserPressedWishlistButton(book)
      PROVE  Promise!Press
  BY <1>4, PressTakesIntent
<1>5. CASE AddOrDeleteBookFromWishlist
  BY <1>5, ObserverServes
<1>6. ASSUME NEW hit \in Hits, NewResult(hit)
      PROVE  UNCHANGED <<StoredCovers, Intent>>
  <2>1. UNCHANGED <<books, pressed>> /\ hit # pressed
    BY <1>6 DEF NewResult, durableVars, uiVars
  <2>2. pressed \in Hits => isInWishlist'[pressed] = isInWishlist[pressed]
    BY <1>6, <2>1 DEF NewResult, IInv, TypeOK
  <2> QED BY <2>1, <2>2, SameTableSameBookmarks
<1>7. ASSUME NEW t \in Threads, NEW hit \in Hits, MarkNext(t, hit)
      PROVE  Promise!Override \/ UNCHANGED <<StoredCovers, Intent>>
  BY <1>7, MarkOverrides
<1> QED BY <1>1, <1>2, <1>3, <1>4, <1>5, <1>6, <1>7 DEF Next

(* Each press changes one bookmark, as wanted; a kill may lose the press    *)
(* and nothing else; no other step changes the bookmarks. *)
THEOREM WishlistImplementsBookmarks == Spec => ImplementsBookmarks
<1>1. Init => Promise!BookmarksInit
  BY DEF Init, Promise!BookmarksInit, StoredCovers, Intent
<1> QED BY <1>1, StepMaps, InductiveInvariant, PTL
        DEF Spec, ImplementsBookmarks, Promise!BookmarksSpec
=============================================================================
