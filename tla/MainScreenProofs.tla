-------------------------- MODULE MainScreenProofs --------------------------
(* Proofs about MainScreen: what the screen shows once the main queue is    *)
(* drained, for lists, tables and queues of any length. *)
EXTENDS MainScreen, SequenceTheorems, TLAPS

Block == Message \cup {"reload"}

(* The queue after one more block, and after its first block has run *)
LEMMA AppendIsLast ==
    ASSUME NEW q \in Seq(Block), NEW block \in Block
    PROVE  /\ Append(q, block) \in Seq(Block)
           /\ Append(q, block) # << >>
           /\ Append(q, block)[Len(Append(q, block))] = block
  OBVIOUS

LEMMA TailKeepsLast ==
    ASSUME NEW q \in Seq(Block), q # << >>
    PROVE  /\ Tail(q) \in Seq(Block)
           /\ Head(q) \in Block
           /\ Tail(q) # << >> => Tail(q)[Len(Tail(q))] = q[Len(q)]
           /\ Tail(q) = << >> => Head(q) = q[Len(q)]
<1>1. Len(q) \in Nat \ {0} /\ Head(q) = q[1] /\ Tail(q) \in Seq(Block)
  OBVIOUS
<1>2. Len(Tail(q)) = Len(q) - 1
  BY <1>1
<1>3. Tail(q) # << >> => Tail(q)[Len(Tail(q))] = q[Len(q)]
  <2> SUFFICES ASSUME Tail(q) # << >>
               PROVE  Tail(q)[Len(Tail(q))] = q[Len(q)]
    OBVIOUS
  <2>1. Len(q) - 1 \in 1 .. Len(Tail(q))
    BY <1>1, <1>2
  <2> QED
    BY <1>1, <1>2, <2>1
<1>4. Head(q) \in Block
  BY <1>1
<1>5. Len(Tail(q)) = 0 => Len(q) = 1
  <2>1. \A m, n : n \in Nat /\ m = n - 1 /\ m = 0 => n = 1
    OBVIOUS
  <2>2. Len(q) \in Nat
    BY <1>1
  <2> QED
    BY <1>2, <2>1, <2>2, Zenon
<1>6. Tail(q) = << >> => Head(q) = q[Len(q)]
  <2> SUFFICES ASSUME Tail(q) = << >>
               PROVE  Head(q) = q[Len(q)]
    OBVIOUS
  <2>1. Len(Tail(q)) = Len(<< >>)
    BY Zenon
  <2>2. Len(<< >>) = 0
    BY EmptySeq
  <2>3. Len(q) = 1
    BY <1>5, <2>1, <2>2
  <2> QED
    BY <1>1, <2>3
<1> QED
  BY <1>1, <1>3, <1>4, <1>6

-----------------------------------------------------------------------------
(* Types *)

(* The lists stay lists of their books. *)
LEMMA WithoutRowType ==
    ASSUME wishList \in Seq(Rows), NEW i \in DOMAIN wishList
    PROVE  WithoutRow(i) \in Seq(Rows)
<1>1. Len(wishList) \in Nat \ {0} /\ DOMAIN wishList = 1 .. Len(wishList)
  OBVIOUS
<1>2. \A k \in 1 .. Len(wishList) : wishList[k] \in Rows
  BY <1>1
<1>3. \A k \in 1 .. Len(wishList) - 1 :
        (IF k = i THEN wishList[Len(wishList)] ELSE wishList[k]) \in Rows
  BY <1>1, <1>2
<1>4. WithoutRow(i) \in [1 .. Len(wishList) - 1 -> Rows]
  BY <1>3 DEF WithoutRow
<1>5. Len(wishList) - 1 \in Nat
  BY <1>1
<1> QED
  BY <1>4, <1>5

LEMMA UpdateWishlistType ==
    ASSUME TypeOK, NEW book \in Book, UpdateWishlist(book)
    PROVE  wishList' \in Seq(Rows)
<1>1. CASE UNCHANGED wishList
  BY <1>1 DEF TypeOK
<1>2. CASE book \in Hits /\ \E row \in Rows :
             ~InUse(row) /\ wishList' = Append(wishList, row)
  BY <1>2 DEF TypeOK
<1>3. CASE \E i \in DOMAIN wishList :
             book \in {wishList[i]} \cup Hits /\ wishList' = WithoutRow(i)
  <2>1. PICK i \in DOMAIN wishList : wishList' = WithoutRow(i)
    BY <1>3
  <2> QED
    BY <2>1, WithoutRowType DEF TypeOK
<1> QED
  BY <1>1, <1>2, <1>3 DEF UpdateWishlist

(* A list's entry is a Book. *)
LEMMA CurrentListType ==
    ASSUME TypeOK
    PROVE  /\ Len(CurrentList) \in Nat
           /\ DOMAIN CurrentList = 1 .. Len(CurrentList)
           /\ \A i \in DOMAIN CurrentList : CurrentList[i] \in Book
<1>1. CASE currentAppState = "BookSearch"
  BY <1>1 DEF TypeOK, CurrentList, Book
<1>2. CASE currentAppState # "BookSearch"
  BY <1>2 DEF TypeOK, CurrentList, Book
<1> QED
  BY <1>1, <1>2

LEMMA EnqueueType ==
    ASSUME TypeOK, NEW block \in Block, Enqueue(block)
    PROVE  /\ mainQueue' \in Seq(Block)
           /\ mainQueue' # << >>
           /\ mainQueue'[Len(mainQueue')] = block
  BY AppendIsLast DEF TypeOK, Enqueue, Block

(* The refresh of the Wishlist tab puts the block last that fits the list. *)
LEMMA RefreshWishlistType ==
    ASSUME TypeOK, NEW list, RefreshWishlist(list)
    PROVE  /\ mainQueue' \in Seq(Block)
           /\ mainQueue' # << >>
           /\ mainQueue'[Len(mainQueue')] =
                IF list = << >> THEN "SearchForBooksToAddToWishlist" ELSE "reload"
<1>1. "SearchForBooksToAddToWishlist" \in Block /\ "reload" \in Block
  BY DEF Block, Message
<1> QED
  BY <1>1, EnqueueType DEF RefreshWishlist

(* A reload makes cells of counted rows. *)
LEMMA RefreshType ==
    ASSUME TypeOK, Refresh(CurrentList)
    PROVE  /\ rowCount' = Len(CurrentList) /\ rowCount' \in Nat
           /\ DOMAIN cells' \subseteq 1 .. rowCount'
           /\ \A i \in DOMAIN cells' : cells'[i] = CurrentList[i] /\ cells'[i] \in Book
           /\ emptied' = FALSE
  BY CurrentListType DEF Refresh

LEMMA TypeStep ==
    ASSUME TypeOK, [Next]_vars
    PROVE  TypeOK'
<1> USE DEF TypeOK, searchVars, tableVars
<1>1. CASE ReloadBlock
  <2>1. mainQueue' \in Seq(Block)
    BY <1>1, TailKeepsLast DEF ReloadBlock, Block
  <2>2. Refresh(CurrentList)
    BY <1>1 DEF ReloadBlock
  <2> QED
    BY <1>1, <2>1, <2>2, RefreshType DEF ReloadBlock, Block
<1>2. CASE MessageBlock
  <2>1. mainQueue' \in Seq(Block) /\ Head(mainQueue) \in Block
    BY <1>2, TailKeepsLast DEF MessageBlock, Block
  <2>2. message' \in Message
    BY <1>2, <2>1 DEF MessageBlock, Block
  <2> QED
    BY <1>2, <2>1, <2>2 DEF MessageBlock, Block
<1>3. ASSUME NEW state \in AppState, ChangeAppState(state)
      PROVE  TypeOK'
  <2>1. mainQueue' \in Seq(Block)
    BY <1>3, EnqueueType, RefreshWishlistType DEF ChangeAppState, Block, Message
  <2> QED
    BY <1>3, <2>1 DEF ChangeAppState, Block
<1>4. ASSUME NEW row \in 1 .. rowCount, CellForRow(row)
      PROVE  TypeOK'
  <2>1. \A i \in DOMAIN cells' : cells'[i] \in Book
    BY <1>4, CurrentListType DEF CellForRow
  <2>2. DOMAIN cells' \subseteq 1 .. rowCount'
    BY <1>4 DEF CellForRow
  <2> QED
    BY <1>4, <2>1, <2>2 DEF CellForRow
<1>5. ASSUME NEW row \in 1 .. rowCount, DidSelectRow(row)
      PROVE  TypeOK'
  BY <1>5, CurrentListType DEF DidSelectRow
<1>6. CASE DismissPopup
  BY <1>6 DEF DismissPopup
<1>7. ASSUME NEW book \in Book, PressWishlistButton(book)
      PROVE  TypeOK'
  <2>1. wishList' \in Seq(Rows)
    BY <1>7, UpdateWishlistType DEF PressWishlistButton
  <2>2. mainQueue' \in Seq(Block)
    BY <1>7, EnqueueType, RefreshWishlistType DEF PressWishlistButton, Block
  <2> QED
    BY <1>7, <2>1, <2>2 DEF PressWishlistButton, Block
<1>8. ASSUME NEW cause \in Trap, AbortBy(cause)
      PROVE  TypeOK'
  BY <1>8 DEF AbortBy
<1>9. CASE SearchBegins
  BY <1>9 DEF SearchBegins
<1>10. ASSUME NEW hit \in Hits, ResultArrives(hit)
       PROVE  TypeOK'
  BY <1>10 DEF ResultArrives
<1>11. ASSUME NEW block \in {"reload", "NoResultsFound"}, SearchEnds(block)
       PROVE  TypeOK'
  <2>1. mainQueue' \in Seq(Block)
    BY <1>11, EnqueueType DEF SearchEnds, Block, Message
  <2>2. searches' \in Nat
    BY <1>11 DEF SearchEnds
  <2> QED
    BY <1>11, <2>1, <2>2 DEF SearchEnds, Block
<1>12. CASE UNCHANGED vars
  BY <1>12 DEF vars
<1>13. CASE ScrollTraps
  BY <1>13, <1>8 DEF ScrollTraps, Trap
<1>14. ASSUME NEW row \in 1 .. rowCount, RowTraps(row)
       PROVE  TypeOK'
  BY <1>14, <1>8 DEF RowTraps, Trap
<1>15. ASSUME NEW book \in Book, PressTraps(book)
       PROVE  TypeOK'
  BY <1>15, <1>8 DEF PressTraps, Trap
<1> QED
  BY <1>1, <1>2, <1>3, <1>4, <1>5, <1>6, <1>7, <1>9, <1>10, <1>11, <1>12, <1>13,
     <1>14, <1>15 DEF Next

-----------------------------------------------------------------------------
(* TableIsCurrent is inductive under TypeOK; ScreenFollowsTab needs to know *)
(* the last block that waits. *)

(* The block that will run last fits the tab, which is why ScreenFollowsTab *)
(* holds whatever blocks of the other tab are still to run before it. *)
LastBlockFits ==
    mainQueue # << >> /\ ~strayed =>
      LET last == mainQueue[Len(mainQueue)] IN
      IF currentAppState = "Wishlist"
      THEN last = IF wishList = << >> THEN "SearchForBooksToAddToWishlist"
                                      ELSE "reload"
      ELSE last # "SearchForBooksToAddToWishlist"

(* The inductive invariant *)
IInv == TypeOK /\ TableIsCurrent /\ LastBlockFits /\ ScreenFollowsTab

LEMMA InitIInv == Init => IInv
<1> SUFFICES ASSUME Init
             PROVE  IInv
  OBVIOUS
<1>1. wishList \in Seq(Rows)
  BY DEF Init
<1>2. bookResults \in Seq(Hits) /\ mainQueue \in Seq(Message \cup {"reload"})
  BY DEF Init
<1>3. DOMAIN cells = {} /\ rowCount \in Nat /\ searches \in Nat
  BY DEF Init
<1>4. TypeOK
  BY <1>1, <1>2, <1>3 DEF Init, TypeOK, AppState, Message
<1> QED
  BY <1>3, <1>4 DEF Init, IInv, TableIsCurrent, LastBlockFits, ScreenFollowsTab

(* Steps that leave the queue, the tab and all that is shown as they are *)
LEMMA LastBlockKept ==
    ASSUME LastBlockFits, ScreenFollowsTab,
           UNCHANGED <<mainQueue, currentAppState, wishList, isHidden, message,
                       strayed>>
    PROVE  LastBlockFits' /\ ScreenFollowsTab'
  BY DEF LastBlockFits, ScreenFollowsTab

(* The block that runs: if it was the last, the screen fits its tab. *)
LEMMA BlockRuns ==
    ASSUME TypeOK, LastBlockFits, mainQueue # << >>, mainQueue' = Tail(mainQueue),
           UNCHANGED <<currentAppState, wishList, strayed>>,
           \/ Head(mainQueue) = "reload" /\ ~isHidden'
           \/ /\ Head(mainQueue) # "reload"
              /\ isHidden' /\ message' = Head(mainQueue)
    PROVE  LastBlockFits' /\ ScreenFollowsTab'
<1>1. mainQueue \in Seq(Block)
  BY DEF TypeOK, Block
<1>2. LastBlockFits'
  <2>1. mainQueue' # << >> =>
          mainQueue'[Len(mainQueue')] = mainQueue[Len(mainQueue)]
    BY <1>1, TailKeepsLast
  <2> QED
    BY <2>1 DEF LastBlockFits
<1>3. ScreenFollowsTab'
  <2> SUFFICES ASSUME mainQueue' = << >>, ~strayed
               PROVE  ScreenFollowsTab'
    BY DEF ScreenFollowsTab
  <2>1. Head(mainQueue) = mainQueue[Len(mainQueue)]
    BY <1>1, TailKeepsLast
  <2>2. CASE currentAppState = "Wishlist"
    BY <2>1, <2>2 DEF LastBlockFits, ScreenFollowsTab
  <2>3. CASE currentAppState # "Wishlist"
    BY <2>1, <2>3 DEF LastBlockFits, ScreenFollowsTab
  <2> QED
    BY <2>2, <2>3
<1> QED
  BY <1>2, <1>3

LEMMA ScreenStep ==
    ASSUME IInv, [Next]_vars
    PROVE  LastBlockFits' /\ ScreenFollowsTab'
<1> USE DEF searchVars, tableVars
<1>0. TypeOK /\ LastBlockFits /\ ScreenFollowsTab
  BY DEF IInv
<1>1. CASE ReloadBlock
  BY <1>0, <1>1, BlockRuns DEF ReloadBlock
<1>2. CASE MessageBlock
  BY <1>0, <1>2, BlockRuns DEF MessageBlock
<1>3. ASSUME NEW state \in AppState, ChangeAppState(state)
      PROVE  LastBlockFits' /\ ScreenFollowsTab'
  <2>1. CASE state = "BookSearch"
    <3>1. Enqueue("SearchForBooks") /\ currentAppState' = "BookSearch"
      BY <1>3, <2>1 DEF ChangeAppState
    <3>2. mainQueue' # << >> /\ mainQueue'[Len(mainQueue')] = "SearchForBooks"
      BY <1>0, <3>1, EnqueueType DEF Block, Message
    <3> QED
      BY <3>1, <3>2 DEF LastBlockFits, ScreenFollowsTab
  <2>2. CASE state = "Wishlist"
    <3>1. /\ RefreshWishlist(wishList) /\ currentAppState' = "Wishlist"
          /\ wishList' = wishList
      BY <1>3, <2>2 DEF ChangeAppState
    <3> QED
      BY <1>0, <3>1, RefreshWishlistType DEF LastBlockFits, ScreenFollowsTab
  <2> QED
    BY <2>1, <2>2 DEF AppState
<1>4. ASSUME NEW row \in 1 .. rowCount, CellForRow(row) \/ DidSelectRow(row)
      PROVE  LastBlockFits' /\ ScreenFollowsTab'
  BY <1>0, <1>4, LastBlockKept DEF CellForRow, DidSelectRow
<1>5. ASSUME NEW cause, AbortBy(cause)
      PROVE  LastBlockFits' /\ ScreenFollowsTab'
  BY <1>0, <1>5, LastBlockKept DEF AbortBy
<1>6. CASE DismissPopup \/ SearchBegins \/ UNCHANGED vars
  BY <1>0, <1>6, LastBlockKept DEF DismissPopup, SearchBegins, vars
<1>7. ASSUME NEW book \in Book, PressWishlistButton(book)
      PROVE  LastBlockFits' /\ ScreenFollowsTab'
  <2>1. CASE currentAppState = "Wishlist"
    <3>1. RefreshWishlist(wishList') /\ currentAppState' = "Wishlist"
      BY <1>7, <2>1 DEF PressWishlistButton
    <3>2. /\ mainQueue' # << >>
          /\ mainQueue'[Len(mainQueue')] =
               IF wishList' = << >> THEN "SearchForBooksToAddToWishlist" ELSE "reload"
      BY <1>0, <3>1, RefreshWishlistType
    <3> QED
      BY <3>1, <3>2 DEF LastBlockFits, ScreenFollowsTab
  <2>2. CASE currentAppState # "Wishlist"
    <3>1. Enqueue("reload") /\ currentAppState' # "Wishlist"
      BY <1>7, <2>2 DEF PressWishlistButton
    <3>2. mainQueue' # << >> /\ mainQueue'[Len(mainQueue')] = "reload"
      BY <1>0, <3>1, EnqueueType DEF Block
    <3> QED
      BY <3>1, <3>2 DEF LastBlockFits, ScreenFollowsTab
  <2> QED
    BY <2>1, <2>2
<1>8. ASSUME NEW hit \in Hits, ResultArrives(hit)
      PROVE  LastBlockFits' /\ ScreenFollowsTab'
  BY <1>0, <1>8, LastBlockKept DEF ResultArrives
<1>9. ASSUME NEW block \in {"reload", "NoResultsFound"}, SearchEnds(block)
      PROVE  LastBlockFits' /\ ScreenFollowsTab'
  <2>1. mainQueue' # << >> /\ mainQueue'[Len(mainQueue')] = block
    BY <1>0, <1>9, EnqueueType DEF SearchEnds, Block, Message
  <2>2. /\ strayed' = (currentAppState = "Wishlist")
        /\ currentAppState' = currentAppState
    BY <1>9 DEF SearchEnds
  <2> QED
    BY <1>9, <2>1, <2>2 DEF LastBlockFits, ScreenFollowsTab
<1>10. CASE ScrollTraps
  BY <1>5, <1>10 DEF ScrollTraps
<1>11. ASSUME NEW row \in 1 .. rowCount, RowTraps(row)
       PROVE  LastBlockFits' /\ ScreenFollowsTab'
  BY <1>5, <1>11 DEF RowTraps
<1>12. ASSUME NEW book \in Book, PressTraps(book)
       PROVE  LastBlockFits' /\ ScreenFollowsTab'
  BY <1>5, <1>12 DEF PressTraps
<1> QED
  BY <1>1, <1>2, <1>3, <1>4, <1>6, <1>7, <1>8, <1>9, <1>10, <1>11, <1>12 DEF Next

(* The table is current: a step that changes its list puts a reload in the  *)
(* queue, or empties the results, or appends behind the last row. *)
LEMMA TableStep ==
    ASSUME TypeOK, TableIsCurrent, [Next]_vars
    PROVE  TableIsCurrent'
<1> USE DEF searchVars, tableVars
<1>1. CASE ReloadBlock
  <2>1. Refresh(CurrentList) /\ CurrentList' = CurrentList
    BY <1>1 DEF ReloadBlock, CurrentList
  <2>2. currentAppState' = currentAppState /\ wishList' = wishList
    BY <1>1 DEF ReloadBlock
  <2>3. currentAppState = "Wishlist" => CurrentList = wishList
    BY DEF CurrentList
  <2> QED
    BY <2>1, <2>2, <2>3, RefreshType DEF TableIsCurrent
<1>2. CASE MessageBlock
  BY <1>2 DEF MessageBlock, TableIsCurrent
<1>3. ASSUME NEW state \in AppState, ChangeAppState(state)
      PROVE  TableIsCurrent'
  <2>1. mainQueue' # << >>
    BY <1>3, EnqueueType, RefreshWishlistType DEF ChangeAppState, Block, Message
  <2> QED
    BY <2>1 DEF TableIsCurrent
<1>4. ASSUME NEW row \in 1 .. rowCount, CellForRow(row)
      PROVE  TableIsCurrent'
  <2>1. CurrentList' = CurrentList
    BY <1>4 DEF CellForRow, CurrentList
  <2>2. /\ UNCHANGED <<mainQueue, isHidden, currentAppState, emptied, rowCount, wishList>>
        /\ cells' = [i \in DOMAIN cells \cup {row} |->
                       IF i = row THEN CurrentList[row] ELSE cells[i]]
    BY <1>4 DEF CellForRow
  <2> QED
    BY <2>1, <2>2 DEF TableIsCurrent
<1>5. ASSUME NEW row \in 1 .. rowCount, DidSelectRow(row)
      PROVE  TableIsCurrent'
  BY <1>5 DEF DidSelectRow, TableIsCurrent, CurrentList
<1>6. CASE DismissPopup \/ UNCHANGED vars
  BY <1>6 DEF DismissPopup, vars, TableIsCurrent, CurrentList
<1>7. ASSUME NEW book \in Book, PressWishlistButton(book)
      PROVE  TableIsCurrent'
  <2>1. mainQueue' # << >>
    BY <1>7, EnqueueType, RefreshWishlistType DEF PressWishlistButton, Block
  <2> QED
    BY <2>1 DEF TableIsCurrent
<1>8. ASSUME NEW cause, AbortBy(cause)
      PROVE  TableIsCurrent'
  BY <1>8 DEF AbortBy, TableIsCurrent, CurrentList
<1>9. CASE SearchBegins
  <2>1. CASE currentAppState = "BookSearch"
    BY <1>9, <2>1 DEF SearchBegins, TableIsCurrent
  <2>2. CASE currentAppState # "BookSearch"
    BY <1>9, <2>2 DEF SearchBegins, TableIsCurrent, CurrentList
  <2> QED
    BY <2>1, <2>2
<1>10. ASSUME NEW hit \in Hits, ResultArrives(hit)
       PROVE  TableIsCurrent'
  <2>1. UNCHANGED <<mainQueue, isHidden, currentAppState, emptied, rowCount, wishList, cells>>
    BY <1>10 DEF ResultArrives
  <2>2. CASE currentAppState = "BookSearch"
    <3>1. CurrentList = bookResults /\ CurrentList' = Append(bookResults, hit)
      BY <1>10, <2>2 DEF ResultArrives, CurrentList
    <3>2. /\ Len(CurrentList') = Len(CurrentList) + 1
          /\ \A i \in 1 .. Len(CurrentList) : CurrentList'[i] = CurrentList[i]
      BY <3>1 DEF TypeOK
    <3>3. Len(CurrentList) \in Nat /\ rowCount \in Nat /\ DOMAIN cells \subseteq 1 .. rowCount
      BY CurrentListType DEF TypeOK
    <3> QED
      BY <2>1, <2>2, <3>2, <3>3 DEF TableIsCurrent
  <2>3. CASE currentAppState # "BookSearch"
    BY <2>1, <2>3 DEF TableIsCurrent, CurrentList
  <2> QED
    BY <2>2, <2>3
<1>11. ASSUME NEW block \in {"reload", "NoResultsFound"}, SearchEnds(block)
       PROVE  TableIsCurrent'
  <2>1. mainQueue' # << >>
    BY <1>11, EnqueueType DEF SearchEnds, Block, Message
  <2> QED
    BY <2>1 DEF TableIsCurrent
<1>12. CASE ScrollTraps
  BY <1>8, <1>12 DEF ScrollTraps
<1>13. ASSUME NEW row \in 1 .. rowCount, RowTraps(row)
       PROVE  TableIsCurrent'
  BY <1>8, <1>13 DEF RowTraps
<1>14. ASSUME NEW book \in Book, PressTraps(book)
       PROVE  TableIsCurrent'
  BY <1>8, <1>14 DEF PressTraps
<1> QED
  BY <1>1, <1>2, <1>3, <1>4, <1>5, <1>6, <1>7, <1>9, <1>10, <1>11, <1>12, <1>13,
     <1>14 DEF Next

-----------------------------------------------------------------------------

(* IInv holds in every reachable state of the screen. *)
THEOREM InductiveInvariant == Spec => []IInv
<1>1. Init => IInv
  BY InitIInv
<1>2. IInv /\ [Next]_vars => IInv'
  BY TypeStep, TableStep, ScreenStep DEF IInv
<1> QED
  BY <1>1, <1>2, PTL DEF Spec

(* Every variable of the screen keeps its type, for any bounds. *)
THEOREM TypeCorrect == Spec => []TypeOK
<1>1. IInv => TypeOK
  BY DEF IInv
<1> QED
  BY <1>1, InductiveInvariant, PTL

(* With no block waiting, a visible table shows its list, in the search tab *)
(* until a search begins: every other change of a list asks for a reload. *)
THEOREM TableShowsList == Spec => []TableIsCurrent
<1>1. IInv => TableIsCurrent
  BY DEF IInv
<1> QED
  BY <1>1, InductiveInvariant, PTL

(* With no block waiting, the screen is the one of its tab, however many    *)
(* blocks of the other tab ran before, unless a search ended in the         *)
(* Wishlist tab. *)
THEOREM ScreenFollows == Spec => []ScreenFollowsTab
<1>1. IInv => ScreenFollowsTab
  BY DEF IInv
<1> QED
  BY <1>1, InductiveInvariant, PTL

=============================================================================
