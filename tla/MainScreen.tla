----------------------------- MODULE MainScreen -----------------------------
(***************************************************************************)
(* The main screen: the tabs, the message area, the table view and the     *)
(* details popup (MainScreenPresenter and MainScreenView), over two lists  *)
(* that change under them, the results of BookSearchManager and the        *)
(* wishlist of WishlistManager.                                            *)
(*                                                                         *)
(* The screen is only changed by blocks that run later, in order, on the   *)
(* main queue.  Until the next block the table view keeps the row count    *)
(* and the cells of its last reload, while cellForRow and didSelectRow     *)
(* index the list as it is now.                                            *)
(*                                                                         *)
(* The searches and the wishlist are as abstract as the screen sees them:  *)
(* BookSearch and Wishlist have their insides.                             *)
(***************************************************************************)
EXTENDS Naturals, Sequences, FiniteSets

CONSTANTS
    Hits,         \* Book objects of search results
    Rows,         \* stored Books, each as its accessors name it
    MaxVisible,   \* rows the table view shows at once
    MaxStored,    \* bound: length of wishList when the app starts
    MaxResults,   \* bound: length of bookResults
    MaxSearches,  \* bound: searches under way at once
    MaxQueue,     \* bound: blocks waiting on the main queue
    None

ASSUME MainScreenAssumption ==
    /\ Hits \cap Rows = {} /\ None \notin Hits \cup Rows
    /\ MaxVisible \in Nat \ {0}
    /\ MaxStored \in Nat /\ MaxResults \in Nat
    /\ MaxSearches \in Nat /\ MaxQueue \in Nat

VARIABLES
    currentAppState,  \* the tab
    bookResults,      \* the results of the search manager
    searches,         \* searches begun and not yet answered
    wishList,         \* the rows of the wishlist manager
    mainQueue,        \* blocks given to DispatchQueue.main.async
    isHidden,         \* bookList.isHidden
    message,          \* the text of the message area
    rowCount,         \* rows the table view counted at its last reload
    cells,            \* the book of each cell made since
    popup,            \* the book the details popup shows, or None
    trap,             \* what aborted the process, or None
    emptied,          \* history: was bookResults emptied since that reload?
    strayed           \* history: has a search ended since the tab changed,
                      \* in the Wishlist tab?

searchVars == <<bookResults, searches>>
tableVars == <<isHidden, message, rowCount, cells, emptied>>
vars == <<currentAppState, searchVars, wishList, mainQueue, tableVars, popup,
          trap, strayed>>

AppState == {"BookSearch", "Wishlist"}
Message == {"Welcome", "SearchForBooks", "SearchForBooksToAddToWishlist",
            "NoResultsFound"}
Trap == {"rowOutOfRange", "scrollToRow", "deletedRecord"}
Book == Hits \cup Rows

running == trap = None

(* The list of the tab: what requestBookCount counts and requestBook indexes *)
CurrentList == IF currentAppState = "BookSearch" THEN bookResults ELSE wishList

InSeq(book, list) == \E i \in DOMAIN list : list[i] = book

(* The books that some list, cell or popup still refers to *)
InUse(book) ==
    \/ InSeq(book, bookResults) \/ InSeq(book, wishList)
    \/ \E i \in DOMAIN cells : cells[i] = book
    \/ popup = book

AbortBy(cause) ==
    /\ trap' = cause
    /\ UNCHANGED <<currentAppState, searchVars, wishList, mainQueue, tableVars,
                   popup, strayed>>

-----------------------------------------------------------------------------

Init ==
    /\ currentAppState = "BookSearch"
    /\ bookResults = << >> /\ searches = 0
    /\ wishList \in {list \in UNION {[1 .. n -> Rows] : n \in 0 .. MaxStored} :
                       \A i, j \in DOMAIN list : list[i] = list[j] => i = j}
    /\ mainQueue = << >>
    /\ isHidden = TRUE /\ message = "Welcome"
    /\ rowCount = 0 /\ cells = << >>
    /\ popup = None
    /\ trap = None
    /\ emptied = FALSE /\ strayed = FALSE

-----------------------------------------------------------------------------
(* Requests for a change of the screen: a block "reload" for updateBookList, *)
(* or the message of updateMainArea. *)

(* Mutant: the block runs before those that wait, as a direct call would. *)
EnqueueFirst(block) ==
    /\ Len(mainQueue) < MaxQueue
    /\ mainQueue' = <<block>> \o mainQueue

Enqueue(block) ==
    /\ Len(mainQueue) < MaxQueue
    /\ mainQueue' = Append(mainQueue, block)

(* Mutant: only a wishlist that has become empty is shown anew. *)
RefreshEmptyWishlist(list) ==
    \/ list = << >> /\ Enqueue("SearchForBooksToAddToWishlist")
    \/ list # << >> /\ UNCHANGED mainQueue

(* What the Wishlist tab asks for, when it is opened or the wishlist changes *)
RefreshWishlist(list) ==
    \/ list = << >> /\ Enqueue("SearchForBooksToAddToWishlist")
    \/ list # << >> /\ Enqueue("reload")

-----------------------------------------------------------------------------
(* Main queue *)

(* Mutant: the cells are made anew and the rows not counted. *)
RefreshUncounted(list) ==
    /\ rowCount' = rowCount
    /\ cells' = [i \in {k \in DOMAIN list : k <= MaxVisible} |-> list[i]]
    /\ emptied' = FALSE

(* reloadData counts the rows and makes the cells that are visible. *)
Refresh(list) ==
    /\ rowCount' = Len(list)
    /\ cells' = [i \in {k \in DOMAIN list : k <= MaxVisible} |-> list[i]]
    /\ emptied' = FALSE

(* The block of updateBookList: show, reload, and in the Wishlist tab scroll *)
(* to the first row, which raises if there is none. *)
ReloadBlock ==
    /\ running
    /\ mainQueue # << >> /\ Head(mainQueue) = "reload"
    /\ currentAppState = "Wishlist" => wishList # << >>
    /\ mainQueue' = Tail(mainQueue)
    /\ isHidden' = FALSE
    /\ Refresh(CurrentList)
    /\ UNCHANGED <<currentAppState, searchVars, wishList, message, popup, trap,
                   strayed>>

ScrollTraps ==
    /\ running
    /\ mainQueue # << >> /\ Head(mainQueue) = "reload"
    /\ currentAppState = "Wishlist" /\ wishList = << >>
    /\ AbortBy("scrollToRow")

(* The block of updateMainArea *)
MessageBlock ==
    /\ running
    /\ mainQueue # << >> /\ Head(mainQueue) # "reload"
    /\ mainQueue' = Tail(mainQueue)
    /\ isHidden' = TRUE
    /\ message' = Head(mainQueue)
    /\ UNCHANGED <<currentAppState, searchVars, wishList, rowCount, cells,
                   emptied, popup, trap, strayed>>

-----------------------------------------------------------------------------
(* The user, on the main thread.  The popup covers the screen. *)

ChangeAppState(state) ==
    /\ running /\ popup = None
    /\ state # currentAppState
    /\ currentAppState' = state
    /\ strayed' = FALSE
    /\ \/ state = "BookSearch" /\ Enqueue("SearchForBooks")
       \/ state = "Wishlist" /\ RefreshWishlist(wishList)
    /\ UNCHANGED <<searchVars, wishList, tableVars, popup, trap>>

(* A row scrolls into view, and the table view asks for its cell. *)
CellForRow(row) ==
    /\ running /\ popup = None /\ ~isHidden
    /\ row \in DOMAIN CurrentList
    /\ cells' = [i \in DOMAIN cells \cup {row} |->
                   IF i = row THEN CurrentList[row] ELSE cells[i]]
    /\ UNCHANGED <<currentAppState, searchVars, wishList, mainQueue, isHidden,
                   message, rowCount, emptied, popup, trap, strayed>>

(* A tap on a row opens the popup on the book the list has there now. *)
DidSelectRow(row) ==
    /\ running /\ popup = None /\ ~isHidden
    /\ row \in DOMAIN cells /\ row \in DOMAIN CurrentList
    /\ popup' = CurrentList[row]
    /\ UNCHANGED <<currentAppState, searchVars, wishList, mainQueue, tableVars,
                   trap, strayed>>

(* Either of the two, for a row the list no longer has *)
RowTraps(row) ==
    /\ running /\ popup = None /\ ~isHidden
    /\ row \notin DOMAIN CurrentList
    /\ AbortBy("rowOutOfRange")

DismissPopup ==
    /\ running /\ popup # None
    /\ popup' = None
    /\ UNCHANGED <<currentAppState, searchVars, wishList, mainQueue, tableVars,
                   trap, strayed>>

(* The book whose button can be pressed: the popup's, or one of a cell. *)
Pressable(book) ==
    IF popup # None THEN book = popup
    ELSE ~isHidden /\ \E i \in DOMAIN cells : cells[i] = book

(* Deleting record i moves the last one into its place. *)
WithoutRow(i) ==
    [k \in 1 .. Len(wishList) - 1 |->
       IF k = i THEN wishList[Len(wishList)] ELSE wishList[k]]

(* What WishlistManager makes of the wishlist: a press on a hit may add a   *)
(* row, delete one, or change nothing, as its flag and cover decide; a      *)
(* press on a row deletes it, or keeps it if its flag was down. *)
UpdateWishlist(book) ==
    \/ UNCHANGED wishList
    \/ book \in Hits /\ \E row \in Rows :
         ~InUse(row) /\ wishList' = Append(wishList, row)
    \/ \E i \in DOMAIN wishList :
         book \in {wishList[i]} \cup Hits /\ wishList' = WithoutRow(i)

(* A press: the wishlist changes, and updateMainScreen refreshes the tab. *)
PressWishlistButton(book) ==
    /\ running
    /\ Pressable(book)
    /\ book \in Rows => InSeq(book, wishList)
    /\ UpdateWishlist(book)
    /\ \/ currentAppState = "Wishlist" /\ RefreshWishlist(wishList')
       \/ currentAppState = "BookSearch" /\ Enqueue("reload")
    /\ UNCHANGED <<currentAppState, searchVars, tableVars, popup, trap, strayed>>

(* A press on the accessor of a deleted record *)
PressTraps(book) ==
    /\ running
    /\ Pressable(book)
    /\ book \in Rows /\ ~InSeq(book, wishList)
    /\ AbortBy("deletedRecord")

-----------------------------------------------------------------------------
(* The searches *)

(* beginRequest, on the main thread: the results are emptied, and the table *)
(* view is not told. *)
SearchBegins ==
    /\ running
    /\ searches < MaxSearches
    /\ searches' = searches + 1
    /\ bookResults' = << >>
    /\ emptied' = TRUE
    /\ UNCHANGED <<currentAppState, wishList, mainQueue, isHidden, message,
                   rowCount, cells, popup, trap, strayed>>

(* A book is appended on the delegate queue, and the table view is not told. *)
ResultArrives(hit) ==
    /\ running
    /\ searches > 0
    /\ Len(bookResults) < MaxResults
    /\ ~InUse(hit)
    /\ bookResults' = Append(bookResults, hit)
    /\ UNCHANGED <<currentAppState, searches, wishList, mainQueue, tableVars,
                   popup, trap, strayed>>

(* The completion of beginRequest, on another thread, in whichever tab *)
SearchEnds(block) ==
    /\ running
    /\ searches > 0
    /\ searches' = searches - 1
    /\ Enqueue(block)
    /\ strayed' = (currentAppState = "Wishlist")
    /\ UNCHANGED <<currentAppState, bookResults, wishList, tableVars, popup, trap>>

-----------------------------------------------------------------------------

Next ==
    \/ ReloadBlock \/ ScrollTraps \/ MessageBlock
    \/ \E state \in AppState : ChangeAppState(state)
    \/ \E row \in 1 .. rowCount : CellForRow(row) \/ DidSelectRow(row) \/ RowTraps(row)
    \/ DismissPopup
    \/ \E book \in Book : PressWishlistButton(book) \/ PressTraps(book)
    \/ SearchBegins
    \/ \E hit \in Hits : ResultArrives(hit)
    \/ \E block \in {"reload", "NoResultsFound"} : SearchEnds(block)

Spec == Init /\ [][Next]_vars

-----------------------------------------------------------------------------
(* Properties *)

(* Every variable keeps its type, and cells are made for counted rows only. *)
TypeOK ==
    /\ currentAppState \in AppState
    /\ bookResults \in Seq(Hits) /\ searches \in Nat
    /\ wishList \in Seq(Rows)
    /\ mainQueue \in Seq(Message \cup {"reload"})
    /\ isHidden \in BOOLEAN /\ message \in Message
    /\ rowCount \in Nat
    /\ DOMAIN cells \subseteq 1 .. rowCount
    /\ \A i \in DOMAIN cells : cells[i] \in Book
    /\ popup \in Book \cup {None}
    /\ trap \in Trap \cup {None}
    /\ emptied \in BOOLEAN /\ strayed \in BOOLEAN

(* Once the main queue is drained, each cell of a visible table shows the   *)
(* book its row has in the list of the tab, and no row is beyond that list; *)
(* in the search tab this needs that no search began since the reload. *)
TableIsCurrent ==
    mainQueue = << >> /\ ~isHidden /\ (currentAppState = "BookSearch" => ~emptied) =>
      /\ rowCount <= Len(CurrentList)
      /\ currentAppState = "Wishlist" => rowCount = Len(wishList)
      /\ \A i \in DOMAIN cells : cells[i] = CurrentList[i]

(* Once the main queue is drained, the screen is the one of its tab: the    *)
(* Wishlist tab shows its list, or the invitation if that is empty, and the *)
(* search tab never shows the invitation.  Blocks of the other tab run      *)
(* first.  A search that ends in the Wishlist tab breaks it (strayed). *)
ScreenFollowsTab ==
    mainQueue = << >> /\ ~strayed =>
      IF currentAppState = "Wishlist"
      THEN /\ isHidden <=> wishList = << >>
           /\ isHidden => message = "SearchForBooksToAddToWishlist"
      ELSE isHidden => message # "SearchForBooksToAddToWishlist"
=============================================================================
