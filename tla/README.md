# A verification project for OpenLibrary-BookSearch

The repository is an iOS application in Swift that searches the Open Library
and keeps a wishlist of books in a Realm database. The application is some
1,300 lines; the object store of Realm, C++ that is vendored in source with it,
keeps its data and is the part with the real concurrency. This directory holds
TLA+ modules that model the application and the core of the object store, the
TLC configurations that check them, and proofs that TLAPS checks. Paths are
relative to `src/OpenLibrary-BookSearch/`; those of the object store to
`Pods/Realm/Realm/ObjectStore/src/`.

## 1. The system

The application (`OpenLibrary-BookSearch/`):

| Part | Source | State | Operations |
|---|---|---|---|
| BookSearchManager | `Models/Managers/BookSearchManager.swift` | `bookResults`, the array of `Book`s of the present search | `requestAPI` = `requesBookInfo`, `requesBookCovers`, `determineWishlistBooks`; `getBookResultsCount`, `getBook` |
| WishlistManager | `Models/Managers/WishlistManager.swift` | `wishList`, an array of accessors of the stored `Book`s; the Realm table behind it | `init`, `addOrDeleteBookFromWishlist` (observer of `Update_Wishlist`), `getWishlistCount`, `getBook` |
| MainScreenPresenter | `Presenters/MainScreenPresenter.swift` | the tab, the debouncing timer, the selected book | `changeAppState`, `requestBookSearch`, `beginRequest`, `requestBook(Count)`, `presentBookDetailPopup`, `updateMainScreen` (observer of `update_main_screen_manager`) |
| MainScreenView and its cells | `Views/MainScreenView/` | the table view, its visible cells, the message area, blocks on the main queue | text, tab and row events; `updateBookList`, `updateMainArea`; a button in each cell |
| BookDetails popup | `Presenters/BookDetailsViewPresenter.swift`, `Views/BookDetailsView/` | the book it shows | a button that toggles the wishlist, pages, closing |
| Book | `Models/Models/Book.swift` | nine fields, `isInWishlist` and `coverData` the ones that change | |

The object store:

| Part | Source | State | Operations |
|---|---|---|---|
| Notifications | `impl/realm_coordinator.cpp`, `impl/collection_notifier.cpp`, `shared_realm.cpp`, `impl/transact_log_handler.cpp` | versions of the file; each Realm's read transaction; the notifiers, new and running; pins; the skip version; accumulated and delivered changes | transactions and refreshes of a Realm; registration and callbacks of notifiers; the worker's `on_change` and `run_async_notifiers`; packaging and delivery |
| Sync sessions | `sync/sync_session.cpp`, `sync/sync_manager.cpp`, `sync/sync_user.cpp`, and the binding's refresh handle | the state of a session, the map of sessions, a user's sessions, token requests, completion waiters | get, close, revive, unregister, log in and out, errors of the server, waiting for uploads |
| Change sets | `impl/collection_change_builder.cpp`, `impl/list_notifier.cpp`, `impl/primitive_list_notifier.cpp`, `impl/results_notifier.cpp`, `impl/transact_log_handler.cpp` | deletions, insertions, modifications, moves; a map of moved rows | building from a log, `calculate`, `merge`, `finalize`; a notifier's `run` |
| Linked objects | `impl/collection_notifier.cpp` | the path that is searched, the rows known unmodified | `DeepChangeChecker` |
| IndexSet | `index_set.cpp`, `index_set.hpp` | row numbers as ranges in chunks | fifteen operations, places (iterators), a builder |

How the application's parts interact. Calls go from the views to the presenters
and from these to the managers. Three things go the other way. (1)
`NotificationCenter` calls observers synchronously on the posting thread: a
button posts `Update_Wishlist`, its observer changes the table and posts
`update_main_screen_manager`, whose observer asks for a reload. (2) Completion
handlers run on the thread that ends the work. (3) Everything that touches a
view is put on the main queue with `DispatchQueue.main.async` and runs later.

How those of the object store interact. A commit of any Realm wakes the worker
of its coordinator, which advances the notifiers to the newest version, lets
each compute a change set (a log read into a builder, or two results compared),
and hands the sets over under a lock; each Realm's thread packages and delivers
them when it next moves. A sync session is told of commits as well, and talks to
a client with an event loop of its own.

Threads. The application's **main thread** handles events, timers and
notifications; the **delegate queue** of `URLSession.shared` is serial and runs
the completions of data tasks; a **pool thread** runs `determineWishlistBooks`.
No lock guards `bookResults` or the fields of a `Book`. In the object store
each Realm belongs to one thread, the notifiers run on one **worker**, and the
sync client has its **event loop**; mutexes guard what they share.

What is hard: searches are never cancelled, so two may work on one array; the
array is emptied, filled and read on three threads; a press is two Realm
commits; a row accessor dies with its record while a cell or the popup holds
it; a cover that does not load, or an answer that is not usable, calls nobody;
the table view shows what was true at its last reload. Below, notifiers are
registered at one version, run at another and deliver at a third, while commits
and callbacks that write go on; sessions are closed, revived and unregistered by
threads that let go of one mutex before they take the next; a change set is
merged out of several, each counted in a collection that no longer exists.

What makes each part correct:

- WishlistManager: one record per cover, an array equal to the table, a press
  that changes one bookmark and only that one, whatever is killed in between.
- BookSearchManager: results that are the last query's, in order, each once,
  with cover and mark; an answer to every search.
- MainScreenPresenter: one search per pause in the typing, for the newest text;
  a screen that shows the tab it is on.
- MainScreenView: no row number used against a list that has changed.
- Popup: a press that acts on the book it shows, as long as it is open.
- Notifications: every version reaches every callback once, in a Realm that is
  at the version it speaks of; a skip drops its own commits only; nobody waits
  for ever.
- Sync sessions: one bound session per file, no upload cut off, every waiter
  called once, no session that is active without what makes it so.
- Change sets: who deletes, inserts, moves and updates as told has the new
  collection.
- IndexSet: it is a set, and counts right.

The hazards of this code, each at its line, are the list `hazards` of
`PROJECT.json`; the sections below say which properties answer them.

## 2. Modules

| Module | What it is |
|---|---|
| `Bookmarks` | The abstract promise of a wishlist: a durable set of covers and one press at a time. |
| `Wishlist` | WishlistManager, the Realm table, the two buttons, and `determineWishlistBooks` as it acts on the flags. Implements `Bookmarks`. |
| `WishlistProofs` | The inductive invariant of `Wishlist`, its safety properties and the refinement, proved. |
| `BookSearch` | The debouncing of MainScreenPresenter and all of BookSearchManager, with its three threads. |
| `BookSearchProofs` | The inductive invariant of `BookSearch` and its five safety properties, proved. |
| `MainScreen` | The tabs, the message area, the table view, the main queue and the popup, over two lists that change under them. |
| `MainScreenProofs` | The inductive invariant of `MainScreen` and its three safety properties, proved. |
| `Notifiers` | The coordinator, its worker, the notifiers and the Realms' transactions. |
| `NotifiersProofs` | The invariants of the worker, its notifiers and the packages, and what callbacks are told: each change once, none lost, none dropped by mistake, proved. |
| `SyncSession` | Sessions, their manager, their user, token requests and waiters. |
| `SyncSessionProofs` | What each action of `SyncSession` does to the sessions, its inductive invariant and its five safety properties, proved. |
| `IndexSets` | What each operation of IndexSet does to a set of numbers: operators. |
| `RowSet` | IndexSet as a promise: a set, and calls that act on it as `IndexSets` says. |
| `ChunkedRanges` | The vector of chunks of ranges under IndexSet: places, insertion, splitting, erasing, the builder. |
| `RangeIndexSets` | IndexSet on that vector. Implements `RowSet`. |
| `ChangeSets` | CollectionChangeBuilder on sets of numbers: the operations on lists and tables, `merge`, `finalize`. |
| `ResultDiffs` | `calculate`: two results compared, sorted ones with a longest common subsequence. |
| `ListChanges` | A list under changes, its notifiers' reading of them, runs, merging and delivery: uses `ChangeSets`. |
| `ListChangesProofs` | That a callback is told the truth of a list through every edit and every merge, proved for lists of any length. |
| `ResultChanges` | A table under changes, the log's reading of them, a query's results, runs, merging and delivery: uses `ChangeSets` and `ResultDiffs`. |
| `ResultChangesProofs` | That the log's reading of a table's changes loses no row, and that the worker finds each, proved. |
| `DeepChanges` | DeepChangeChecker over a graph of rows. |
| `DeepChangesProofs` | That its answers are exact, proved for every graph and path size. |
| `MC...` | The instances of these for TLC. |

### Wishlist

A `Book` is a *hit* (an unmanaged object of a search, its flag a field in
memory) or a *row* (an accessor of a stored record, sharing its fields). The
table `books` is a sequence of records, in Realm's order: a deletion moves the
last record into the hole (`MoveLastOver`; `RLMObjectStore.mm`). Of the nine
fields the module keeps the two that decide anything, `coverID` and
`isInWishlist`.

A press takes two steps because it makes two commits.
`UserPressedWishlistButton` is the handler of a cell or of the popup up to its
first commit: it flips the flag (`FlipHit`, `FlipRow`) and sets `pressed`, the
book in the notification. `AddOrDeleteBookFromWishlist` is the observer, with
its three branches `AddBook`, `KeepBook`, `DeleteBook`, each followed by the
new reading of `wishList` that the code makes there (`KeepBook` makes none). The
main thread does nothing else in between; the search's thread and a kill may.

`Kill` and `Launch` are the end and the start of the process: only the table
survives. `TouchDeletedBook` is the exception that Realm raises when the
accessor of a deleted record is used. `StartMarking` and `MarkNext` are the loop
of `determineWishlistBooks`, on a pool thread of `Threads`; when searches overlap
several threads may be in it. Its `Realm()` may be an instance that an earlier
call left in the thread's autorelease pool, which is reused without a refresh
(`RLMRealm.mm`, `realmWithConfiguration:error:`), so `snapshot` holds the version
each thread sees until its `DrainAutoreleasePool`.

`held` is the set of row accessors that views hold. Which cell or popup holds
which is left open: any accessor of the array may be taken, and given back at
any time. `cutShort` is a history variable: the covers whose last press was a
removal that a kill interrupted.

### BookSearch

The variables follow one search through the code: `field` and the timers of
`requestBookSearch`; the requests begun by `beginRequest`; for each request its
`phase`, the documents of its answer that pass the cleaning (`usable`) and that
have been appended (`added`), the DispatchGroup (`awaiting`) and the tasks
(`inFlight`) of `requesBookCovers`, and the books `determineWishlistBooks` looks
up (`toMark`). A book is named `<<request, position>>`; titles and the other
texts are left out.

`bookResults` is the shared array. An append is two steps, `LoadForAppend` and
`StoreAppend`, and `BeginRequest` (the `removeAll` on the main thread) may fall
between them; then the store has the three outcomes such a race can produce: the
removal is lost, the append is lost, or they took turns. `DataRaceTraps` is the
fourth, a trap, and covers the unsynchronised reads as well, which are one step
each here. The delegate queue is serial: while one answer is worked on, from
the guards to the last cover task, no other completion runs (`QueueIsFree`).

`InfoUnusable` stands for the three guards that return, `InfoEmpty` for an
answer without documents, `InfoHasDocs` for the rest; `CastTraps` for a forced
cast that fails, `URLTraps` for a query that is no URL, `CoverLost` for a cover
task without data. These faults are off when `Faulty` is FALSE and
`Unencodable` is empty.

### MainScreen

`bookResults` and `wishList` are the managers' lists as the screen sees them.
`currentAppState` is the tab, and `CurrentList` what `requestBookCount` counts
and `requestBook` indexes. Each `DispatchQueue.main.async` of the view is a block
in `mainQueue`, `"reload"` for `updateBookList` and the text for
`updateMainArea`; `ReloadBlock` and `MessageBlock` run the first. The tab is read
when the block runs, not when it is queued, so a reload asked for in one tab may
scroll in the other (`ScrollTraps`).

The table view keeps `rowCount` from its last reload and the `cells` it made
since (`Refresh`, `CellForRow`). `DidSelectRow` and `CellForRow` index the list as
it is now; `RowTraps` is the trap of an index beyond it. `reloadData` and the
layout that follows in the same turn of the run loop are one step.

A press changes the wishlist as `Wishlist` allows (`UpdateWishlist` leaves open
which of the cases a hit's flag and cover decide) and then queues what
`updateMainScreen` asks for. `SearchBegins`, `ResultArrives` and `SearchEnds` are
the three points at which a search touches the screen; a search may also never
end. The popup covers the screen until `DismissPopup`; blocks still run under it.
`updatePreviewCell` is not modelled: nothing posts the `update_type` it needs to
the presenter. A row of the wishlist is named by its record, since a new reading
of the table makes new accessors of the same records.

`emptied` and `strayed` are history variables: a search began since the last
reload; a search ended in the Wishlist tab, where its block does not belong.

### Notifiers

A version is a number; a change is named by the version that made it, so what a
callback is told is a set of versions (`seen`), and so are `accumulated` and
`toDeliver` (`accumulated_changes`, `changes_to_deliver`). A notifier is new,
main or gone (`place`), has run or not, and remembers the version it stands at.

`pc` says what each Realm's thread is doing: user code, waiting in
`package_and_wait`, delivering before or after its transaction moves, calling
callbacks. The sections under a mutex are one step each: `RegisterNotifier`,
`AddCallback`, `Commit`, `PackageAndWait`, `Advance`, `Deliver`. The worker's
`run_async_notifiers` lets go of the coordinator's mutex four times, and is six
steps: it begins (`WorkerBegins`), runs the new notifiers from their pins and all
to the skip version (`RunToSkip`), hands over (`HandOverSkipped`), runs to the
newest version (`RunToNewest`) and hands over (`HandOverNewest`). `pin` is the
version held for notifiers that were registered but not read. `WorkerFails` is a
SharedGroup that does not open, after which every callback is given the error.

`misfits`, `jumped`, `overwritten` and the fields marked *history* remember what a
property needs: that results met a Realm at another version, that a Realm moved
without its notifiers, that a skip version was replaced before it was used.

### SyncSession

A session's sections under its own mutex are one step each, because nothing
else is waited for inside them. A session that becomes waiting asks the binding
for a token when its mutex is released, and that is a step of its own
(`BindSessionHandler`, after `Revive`, `TokenExpired` or `Reconnect`): others may
find it waiting before it has asked. `m_session_mutex` (`sessionLock`) and the user's
`m_mutex` (`userLock`) are held across steps, and becoming inactive is several:
the session's mutex is released, then it is unregistered, then its waiters are
told (`call[p].pc`). Application threads make the calls in `Calls`; the client
thread calls the listener, the error handler and the upload completions, which
may arrive after what they were asked for is over (`ops` with their `death`).
Shared pointers are counted by `Referenced` and `Alive`, so a weak pointer can be
locked exactly while somebody holds the session. `Upload` and the answers to
token requests are external. A token that is refused logs the user out if the
application has set an error handler (`RLMSyncSessionRefreshHandle.mm:40-48`): that
is `UserLogOut` called by the binding. `TokenRefused` is the answer without a
handler, or one that is not understood, and logs out the session alone.

`crashed` marks what is undefined in the code: the second `unregister_session` of
one session finds the map empty, and the assertion before the access
(`sync_manager.cpp:498`) is compiled out in this build. `Stuck` adds the thread
that waits for the mutex it holds. `overtaken`, `unheard` and `strays` are history
variables for the exceptions of the properties. `overtaken` is raised where
`get_session` and `unregister_session` overtake each other: a session is used
again that a thread has yet to unregister, or that is unregistered and nobody
references, or a thread unregisters another such session than its own.

### Change sets

`ChangeSets` translates CollectionChangeBuilder over plain sets of row numbers,
one operator per method, and `ListChanges` and `ResultChanges` use it in a
machine: a write transaction changes a list or a table, one step per log entry,
and updates the set that observes it; the worker's `Run` completes it, as the
list notifier, the primitive list notifier or the results notifier does, and
merges it into what is accumulated; `Deliver` hands it over. What really
happened is kept beside it: each entry knows its place in the list last
delivered (`origin`), each row has an id that no log sees. The properties compare
the two. `calculate` on sorted results leaves a choice open: among longest
common blocks the code prefers one with fewer modified rows, counted over a
range that is not the block's, so `ResultDiffs` allows each of them.

`DeepChanges` keeps the recursion of `DeepChangeChecker` with its path, its limit
and its memory, over one set of rows. `CheckRow` is a recursive function of the
room left on the path; a column holds a list of rows, in an order and possibly
with repetitions, and `AnyOf` is the loop that ends at the first TRUE. `Ask` is
one question of the notifier. Left out is the choice before it,
`get_modification_checker`: of a single table, even one that links to
itself, the notifier only asks whether the row itself was modified.

### IndexSet

`ChunkedRanges` has the vector: chunks of at most `MaxSize` ranges with their
`begin`, `end` and `count`, places as `[chunk, offset]`, insertion with the split
of a full chunk, erasure, and the builder with the number of chunks it expects.
`RangeIndexSets` has IndexSet's operations on it. An owner asks for one thing at a
time (`Invoke`), and one action per operation does it. A set given as an argument
is read in ascending order only, and is given as its numbers; where the
argument's chunks are copied, in `insert_at` on an empty set
(`index_set.cpp:461`), the copy has any of the chunkings the numbers can have
(`Chunkings`). `RowSet` is the
same owner with a plain set, and `ImplementsRowSet` the refinement
(`members <- Members(m_data)`). It is also what entitles `ChangeSets` to use
`IndexSets`. The model stops at a set the builder has miscounted (below).

## 3. Runs

| Run | Bounds | Shows |
|---|---|---|
| `wishlist` | 2 covers, 3 hits of which two share a cover, 3 rows, 1 held accessor, 2 pool threads | the type invariant, `OneRowPerCover`, `WishListIsTable`, `UnflaggedIffCutShort`, and that the module implements `Bookmarks` |
| `search` | 2 timers, 2 documents, one good text and one that is no URL, all faults, `FairSpec` | the type invariant, `OneRequestPerText`, `AloneSearchIsExact`, `ResultsAreBlocks`, `CoversReady`, `EverySearchAnswered`, `TypedIsSearched` |
| `screen` | 3 hits, 3 rows, 2 stored at the start, 1 visible row, 2 results, 2 searches, 3 blocks | the type invariant, `TableIsCurrent`, `ScreenFollowsTab` |
| `notifiers` | 2 Realms, 1 notifier, 3 versions; suppressed commits, callbacks that write, invalidation, a file that does not open | the type invariant, `PayloadFits`, `NothingLost`, `ToldOnce`, `DropsItsOwn` |
| `notifiers_two` | 2 Realms, 2 notifiers, 3 versions | `HandoverIsPinned`, `RunNotifiersAgree` |
| `notifiers_live` | 2 Realms, 1 notifier, 2 versions, `FairSpec` | `WaitsEnd`, `CallbackCatchesUp` |
| `sync` | 2 sessions, 2 threads and the client, 1 waiter, every call, error, policy and answer; 3 calls, 1 error | the type invariant, `ActiveIsLinked`, `WaiterHasOnePlace`, `OneBoundSession` |
| `sync_live` | the same, 5 calls of four kinds under AfterChangesUploaded, 1 expired token, `FairSpec` | `DiesUploaded`, `DyingEnds`, `WaiterIsCalled` |
| `list_changes` | 4 entries, 4 changes | `AccumulatedExplains`, `ModifiedAreReported` |
| `result_changes` | 4 rows, 3 key values, 3 changes, sorted or not | `RowsAreTraced`, `ResultsAreExplained`, `ModifiedAreReported` |
| `deep_changes` | 4 rows of which 2 are asked about, 2 columns with lists of up to 4 rows, 4 links in all, 1 modified row, a path of 3 | `AnswersAreExact` |
| `index_sets` | numbers to 6 (and beyond by one call), chunks of 2 ranges, counts to 2, arguments of up to 2 numbers in every chunking | `ImplementsRowSet`, `WellFormed`, `QueriesAgree` |

The application:

- `OneRowPerCover`: the table has no primary key; the count in the observer is
  all that keeps a second record of a cover out, with two objects of the cover
  on the screen and either flag stale.
- `WishListIsTable`: the array the list indexes is the table, so it never holds
  a dead accessor.
- `UnflaggedIffCutShort`: outside a press, a stored flag that is down tells
  exactly that the last removal of that book was cut short by a kill. It is how
  the program gets a bookmarked book painted as not bookmarked, and the only way.
- `ImplementsBookmarks`: a press changes one bookmark or is lost in a kill. The
  abstract `Override` is the one thing a reader may not expect: the search can
  turn a removal into an addition.
- `OneRequestPerText`: a timer that was replaced starts no search.
- `AloneSearchIsExact`: without overlap the list is exactly the last answer,
  in order, and has covers and marks when success is reported.
- `ResultsAreBlocks`: with overlap and races the list may mix requests, lose
  books, or keep old ones, but it never interleaves two answers, reorders one
  or holds a book twice. It rests on the serial delegate queue.
- `CoversReady`: a search that reports success has the cover of each of its
  books still in the list, although the group is filled from the shared array.
- `EverySearchAnswered`, `TypedIsSearched`: a search that no fault stops is
  answered, and a text left in the field is searched for.
- `TableIsCurrent`: with no block waiting, the cells of a visible table are the
  books of its list, and no row lies beyond it. Each way a list changes asks for
  a reload, but one: a search that begins (`~emptied`).
- `ScreenFollowsTab`: with no block waiting, the Wishlist tab shows its list or
  its invitation, and the search tab no invitation, whatever order tabs, presses
  and blocks came in, unless a search ended in the Wishlist tab (`strayed`).

The object store:

- `PayloadFits`: what a notifier delivers was computed between the version the
  callback last saw and the version its Realm is at. `NothingLost`, `ToldOnce`:
  the versions a callback was told of, with those still on their way and those
  it asked not to hear of, are all there are, each once. `DropsItsOwn`: a skip
  drops the commits it was asked for, unless a second commit replaced the skip
  version.
- `HandoverIsPinned`, `RunNotifiersAgree`: the version a new notifier was handed
  over at stays readable until the worker has read it; notifiers that have run
  stand at one version, whenever the mutex is free.
- `WaitsEnd`, `CallbackCatchesUp`: a Realm that waits for its notifiers goes on,
  and each callback hears of each version its Realm can advance to.
- `ActiveIsLinked`: an active or dying session has the sync::Session its calls
  use unasked, an inactive one has none. `WaiterHasOnePlace`: a waiter is in one
  queue, one operation or one list of cancelled waiters, or was called, and
  once. `OneBoundSession`: one sync::Session is bound for the file, unless
  calls overtook each other (`overtaken`).
- `DiesUploaded`, `DyingEnds`, `WaiterIsCalled`: a closed session ends after its
  commits are uploaded, if it is still the one in the map and was told of all
  commits; it does end, and a waiter is called.
- `AccumulatedExplains`, `ResultsAreExplained`: whoever deletes and inserts as
  told turns the collection the callback knows into the one the worker saw
  last, over any number of runs merged, and each reported move is one.
  `RowsAreTraced`: half way through a log every row is accounted for: where one in
  the table was, and where one of the last run is now.
  `ModifiedAreReported` (one in each module): exactly the modified rows that stay
  are reported, by where they were and by where they are.
- `AnswersAreExact`: a row is reported as changed exactly when a modified row is
  within reach, whatever was remembered from earlier questions.
- `ImplementsRowSet`, `WellFormed`, `QueriesAgree`: the chunked set is a set; it
  satisfies the code's `verify()`, unless the builder has miscounted a chunk (see
  `NothingMiscounted` below); what is asked of a set that is not miscounted,
  without changing it, is answered right, and `count` is too small exactly where it starts inside a
  chunk and ends inside the first range of the next.

The bounds are enough for the cases that differ. Two hits of one cover and one
of another give the duplicate and the independent press; one held accessor is
the popup, and three rows leave a fresh one whenever a record is added; two pool
threads are two that mark at once from different versions. Two searches overlap, and two documents are the least that have an order. On the
screen, one visible row leaves a second that must be scrolled to; a queue of
three holds the block of a search, of a tab and of a press. Two Realms give a
commit that is one's own and one that is not; three versions give a notifier
that is registered, run and delivered at different ones, and a skip that is not
the newest; two notifiers are left behind by each other. Two sessions are the
old and the new one of a file; three calls reach a revival in the middle of a
death, five a second death. Four entries and four changes let a row be inserted,
moved, moved again and deleted, or a move cross two others, with a delivery in
between; three changes and four rows do so for a table, where a deletion is
also a move. Chunks of two ranges split at the third: numbers to 6 fill two
chunks and the sets beyond them a third; the code's limits, 4 and 256, differ in
nothing else, as `MaxSize` is a constant. Larger instances, run once, found
nothing more: two held accessors and four rows (768 thousand states), three
searches of two documents without faults (1.3 million), lists of three entries
and five changes, with two key values tables of three rows and five changes (1.4 million)
and of four rows and four changes (1.8 million), three roots for
`DeepChanges`, numbers to 7 for `RangeIndexSets`, three sessions, three threads and five
calls of four kinds for `SyncSession`. Every bound is a named constant. Symmetry is used where
constants of one kind are interchangeable and no liveness is checked: rows and
pool threads in `wishlist`, hits and rows in `screen`, Realms in `notifiers` and
`notifiers_two`, sessions, threads and waiters in `sync`.

`CHECK_DEADLOCK FALSE` is said where the system really stops: the application
rests when its user does nothing more, and a trap ends it; the notifiers and the
sessions rest when no version, call or error is left within the bounds, a lock
held for ever is reached in `SyncSession` and reported below, and a miscounted
set ends `RangeIndexSets`. In the other three deadlock is checked.

Fairness is weak fairness of each step that some scheduler owes. `BookSearch`: a
timer that stays scheduled fires, a data task calls its completion, a queue runs
what it was given. `Notifiers`: the worker's thread runs, a thread inside
`package_and_wait` or a delivery goes on, the run loop calls `notify`. `SyncSession`:
a thread inside a call goes on, the client's event loop handles what came in,
token requests are answered, uploads progress; `CompleteWait` has strong fairness,
because it is enabled again and again while commits go on, and the client does
complete each wait in the end. No fairness is assumed of the user, of faults, of
the server's errors, or of which way a race goes. Liveness is stated up to a
trap (`~running`), a worker that cannot open the file, or `Stuck`.

### Statements that fail

Five definitions state what the repository says or a reader would expect, and
fail. They are given to no run; as an INVARIANT or PROPERTY of the module's
instance each shows its trace.

| Definition | What happens |
|---|---|
| `Wishlist!EveryPressUpdatesStatus` | two presses in the popup of a wishlist book: the first deletes the record, the second uses its accessor, which raises (`BookDetailsViewPresenter.swift:62`) |
| `BookSearch!LatestQueryOnly` (two good texts, no faults) | an answer that arrives after the next search began is appended to its results (`BookSearchManager.swift:78`) |
| `SyncSession!StopsUploaded` (seven calls of get, drop, commit, no errors) | the last reference is dropped while `get_session` revives the session: it is closed although it is referenced, is told of no commit, and stops before those are uploaded (`sync_session.cpp:890`; the policy at `sync_manager.hpp:50`) |
| `ListChanges!GoneListIsDeleted` | the owner of a list is deleted in a transaction that had moved an entry: the leftover move is cleaned up together with a deletion, and the callback is not told of all ("LV was deleted, so report all of the rows being removed", `list_notifier.cpp:76`) |
| `RangeIndexSets!NothingMiscounted` | `add_shifted_by` copies ranges into more chunks than the builder expected, and a further chunk is given a count of 1 (`index_set.cpp:244`), against `verify()` (`index_set.cpp:190`) |

### What the models also show

These are exceptions in the properties, or actions that end a model.

- Nothing lowers the flag of a hit whose record goes through another object,
  and the search reads it at an old version (`BookSearchManager.swift:112`, `115`);
  it may raise a flag between a press and its observer, and the removal is lost
  (`116`). One cover that is lost, or an answer that is not usable, and the search
  is never answered (`97`, `30`).
- A search empties the results under the table view, and the next row used traps
  (`MainScreenView.swift:137`); one that ends in the Wishlist tab scrolls an empty
  wishlist (`107`) or replaces its invitation (`MainScreenPresenter.swift:92`). A
  text that was cleared is still searched for (`79`).
- Notifications: a commit that skips callbacks sets one skip version for the
  coordinator, which overwrites one that is not used yet; the skip flag then
  drops the changes of other commits too (`impl/collection_notifier.cpp:410`;
  `RealmSwift/Realm.swift:197` speaks of "the changes made in this write
  transaction"). A worker that cannot open the file returns without waking the
  Realms that wait (`impl/realm_coordinator.cpp:699`).
- Sync sessions: an end of the last reference taken by `unregister_session`
  itself closes the session under the mutex it needs (`sync/sync_manager.cpp:503`);
  `log_out` takes the user's and the manager's mutex in one order and
  `get_session` in the other (`sync/sync_user.cpp:161`); the listener of an ended
  sync::Session writes the connection state without the mutex.
- Change sets: the test of a common block's end in the search for a longest
  common subsequence compares with the wrong range, and `count` leaves out a part
  (`index_set.cpp:300`): both cost only a shorter description of the same change.

## 4. Proofs

`WishlistProofs` proves, for all constants that meet `WishlistAssumption` (hits
and rows are different things, and `None` is neither):

- `TypeCorrect`, `NoDuplicateRecord`, `ArrayIsTable`, `FlagTellsCutShort`: the
  four invariants of the run `wishlist`;
- `WishlistImplementsBookmarks`: the refinement.

None of the last three invariants is inductive alone. `IInv` adds three parts:
`RowsAreDistinct` (a row names one record, so that finding a record by its
accessor is well defined), `PressIsCurrent` (a press under way has a live
record, and its flag has been flipped since any interrupted removal, so a kill
records the right cover) and `CutShortIsStored` (an interrupted removal left its
record, so a new record of a cover is not in the history). `OneRowPerCover` is
needed in the deletion, which takes the one record there is. The lemmas are one
per action or group of actions, over facts on tables (`MoveLastOverKeeps`,
`TableRecords`). The refinement maps each step to a step of `Bookmarks` or to
none (`StepMaps`) under `IInv`.

`MainScreenProofs` proves, for all constants, `TypeCorrect`, `TableShowsList` and
`ScreenFollows`, the three invariants of the run `screen`. `TableIsCurrent` is
inductive under the type invariant: a step that changes the list of the tab
queues a block, empties the results (`emptied`), or appends behind the last row.
`ScreenFollowsTab` is not: it speaks of the drained queue, and what drains it is
the last block. `LastBlockFits` adds that this block fits the tab and the list,
which each step that queues one keeps, and no block that runs before it matters
(`TailKeepsLast`, `BlockRuns`).

`BookSearchProofs` proves, for all constants that meet `BookSearchAssumption`
(the empty text is no text, the bounds are numbers), the five invariants of the
run `search`: `TypeCorrect`, `OneRequest`, `Blocks`, `Covers`, `AloneIsExact`.
`OneRequestPerText` needs `TimersInOrder` (a waiting timer is the last one, and
younger than every request's), which also bounds the requests by the timers, as
`TypeOK` needs. The list can at any time become the array that an append under
way has read, so what is said of `bookResults` is said of that array too
(`ListsFit`): a race that brings back an older list brings back a fit one.
`Fits` keeps the block of the request that is adding at the end
(`OpenBlockIsLast`), so that the next book goes behind the one before, and each
book either covered or waited for (`CoveredOrAwaited`). `AppendIsAlone` says
that one request adds at a time (the serial delegate queue) and that nothing but
an emptying comes between the load and the store. `LastIsAlone` says that until
searches overlap only the last can take a step, that the list is what it has
appended and that its marks are of this list. The lemmas are one per conjunct,
with one step per action; `FitsStep` and `AppendFits` speak of any list, and are
used for both.

`NotifiersProofs` proves, for all constants that meet
`NotifiersAssumption` (the bound is positive, `NoRealm` is no Realm, flags are
flags), the seven invariants of the runs `notifiers` and `notifiers_two`:
`TypeCorrect`, `Handover`, `RunAgree`, `Payload`, `NeverTwice`, `Lossless`,
`Suppression`. The argument is in layers, each inductive under the ones before:

- `BasicInv`: the types, what the worker has in hand at each of its places
  (`WorkerInv`), and how far a notifier can have come (`NotifierInv`).
- `Pinned` gives `HandoverIsPinned`: the pin is at or before every new notifier,
  dead ones included, since a dead one keeps `pin_version` from moving the pin.
- `Agree` gives `RunNotifiersAgree`: it adds that between two runs the notifiers
  are at the version the worker's SharedGroup is at.
- `PackageInv` contains `PayloadFits`: a package is for notifiers that stay alive,
  a write transaction's is for the newest version, which stays the newest while
  it holds the write lock.
- `ToldInv` gives `ToldOnce`: what a callback was told lies behind its notifier's
  rows and behind the changes about to be handed over.
- `DeliveryInv` gives `NothingLost` and `DropsItsOwn`: who is in a package
  (`PackedOf`), that what the worker hands over goes on from where the notifier
  is (`RunOf`), that what waits for a callback is not older than its Realm
  (`KeptOf`), and that a skip flag belongs to a commit the worker will stop at or
  to the transaction under way (`SkipOf`).

`SyncSessionProofs` proves, for all constants that meet
`SyncAssumption`, the four invariants of the run `sync` (`TypeCorrect`, `Linkage`,
`OnePlaceEach`, `OneBoundEach`) and the action property of `sync_live`
(`UploadedFirst`). Some thirty actions touch a session in a few ways only. One
lemma per action says what it does to the sessions (`ReviveEffect`,
`UnregisterEffect` ...) and to the caller's place; they are summed up in a dozen
kinds of change (`Kinds`), so that each part of the invariant is proved once per
kind. `SyncInv` is:

- `Base`: the types without the bounds (`Shape`), that only sessions that were
  made are spoken of (`Known`), and that where a process is tells which mutex it
  holds and what it has in hand, and the other way round (`Places`). It is the
  lock discipline of `m_session_mutex` and the user's mutex.
- `Bounded` and `DeathsCounted`: every death but the first is paid for by a call
  that revived the session. It bounds the deaths, as `TypeOK` says.
- `InPlace`: a waiter is in exactly one place, by cases; `WaiterHasOnePlace`, which
  counts, does not say in a way a step can use where the waiter is.
- `ActiveIsLinked`, inductive under `Base`.
- `InUseIsRegistered`: unless calls overtook each other, a session in use is the
  one in the map, and one about to be unregistered is inactive. It gives
  `OneBoundSession`.
- `Informed`: the session in the map knows of all commits or will when it is
  bound, unless it missed one, and the completion handler of its present death
  waits for all that came before. It gives `DiesUploaded` with the death count.

`ResultChangesProofs` proves, for all constants that meet `ResultChangesAssumption`
(the bounds are numbers, and no table has more than `Npos` rows) and
`NposIsNatural`, `Traceable`: `RowsAreTraced` of the run `result_changes`, in both
directions. From a row in the table the log tells its origin (`OriginsAreTold`);
a row of the last run is found where it is (`RowsAreLocated`, what
`calculate_changes` does with every old result before it compares). Both compute
with `shift` and `unshift` and are not inductive. `TraceInv` says why they come
out right:

- `Distinct`: rows have ids of their own, given in turn, so that a new row is
  none of the last run.
- `Aligned`: a row in a table never shifts, because a deletion moves the last row
  into the hole. Of the rows of the last run, exactly those are deleted that lie
  beyond the end or are inserted again, so that `unshift` and `shift` take a row
  that is not inserted back to itself (`PlaceKept`, `Undisturbed`).
- `Traced`, of each row: it is in the map, with the place of the same row in the
  last run; or inserted, not in the map, and new; or not inserted, and the same
  row as before.

What an operation of the log does is said by two relations, `Takes` (the new log
says of one row what the old one said of another) and `Leaves` (it says the same
of it), which `SwapIs`, `AddIs`, `EraseLastIs`, `MoveLastOverIs` and `SubsumeIs`
establish. `ParsedIs` describes the log after `parse_complete`; that the moves
are all there after sorting (`ByOriginIs`) is a counting argument over finite
sets, and so is the uniqueness behind `shift` (`UnshiftRises`, `ShiftFinds`): no
induction is needed.

`DeepChangesProofs` proves `Exact`, `AnswersAreExact` of the run `deep_changes`,
for every set of rows, graph of links, set of modified rows and path size. The
library's induction theorems cannot be used (they take an operator), but
induction over the numbers in a set can be derived from its statement about
well-founded relations (`ByInduction`), and with it that a recursive function
exists and satisfies its equation (`LoopRuns`, `CheckRowRuns`, `NearRuns`). The
inductive invariant is `Inv`: a row that is remembered as unmodified has no
modified row in reach. That check_row keeps it, although it remembers rows in
the middle of a search that cycles and the limit have cut short, is what the
contract `Answered` is about, proved by induction in the room left on the path
(`CheckRowMeets`), column by column and row by row of a list. After FALSE, a
modified row as near to the row asked about as the limit allows can only be one
that is as near to a row of the path, whose own search will find it. And from
each place of the path whose mark is off, the row is `Explored`: outside the
columns the search is in, nothing leads out of what it has seen but to the
memory. A row is remembered only where no such column is left, or at the root.

`ListChangesProofs` proves, for all bounds below `Npos` (`ListsAreBelowNpos`,
which is the code's largest number) and `NposIsNatural`, the two invariants of the
run `list_changes`: `Explained` (`AccumulatedExplains`) and `Reported`
(`ModifiedAreReported`), for lists of any length, any number of edits, runs and
deliveries. Both are about the accumulated changes only, and are not inductive:
what is accumulated next comes from `change`, so `Inv` says the same of both
builders, each between its two versions of the list (`IsAlive`), and adds sizes
and the case of a list that is gone (`IsGone`).

That a builder tells the truth is `Keeps`, in a form that steps can be computed
with: `Fits` (the origins of the rows that are not inserted rise, one by one,
through the old places that are not deleted), `MovesTell` (a move is in the
sequence exactly when an inserted row has its origin there) and `ModsTell`. The
operators of the code compute with `shift` and `unshift`; `FitsExplains`,
`TellsMoves` and `OriginFound` lead from `Fits` to what they return, by counting
in finite sets (`RisingCount`, `RisingRank`). The argument is in three parts:

- An edit is a map from new places to old ones with some fresh rows
  (`Rearranges`). `insert`, `erase`, `move` and their combinations follow it
  (`InsertFollows`, `EraseFollows`, `MoveFollows`), and `EditTells` concludes, once
  for all, that the truth is still told. A list of values that was cleared is
  told of as wholly deleted, of unknown size, until the next run (`Cleared`).
- `clean_up_stale_moves` takes an insertion and a deletion away, and then there
  is one row more that stays: `CleanUpOne` shows that it fits between the others,
  `CleanUpTells` goes through the loop.
- `merge` composes (`MergeKeeps`): if one set leads from a list to a second and
  another from there to a third, the merged one leads from the first to the third
  (`Combined`). The sets are `CombinedFits`; the loop over the old moves, which
  uses up the new ones, has the invariant `Merging` (`MergeOldMovesIs`); with
  `MergeNewMovesIs` it gives `CombinedMoves` and `CombinedMods`.

The loops of the code are recursive functions in `ChangeSets`, and what holds
throughout a loop is proved by `ByInduction`, as above (`LoopRuns`, `LoopStays`).

Four statements that TLC had found true on the instances turned out to be false
of more threads or calls while they were proved, and were corrected:

- The version from which a callback's first call speaks is the newer of its
  package's and its Realm's (the history field `base` of `Notifiers`).
- `OneBoundSession` excepted a session revived while a thread was about to
  unregister it. With three threads a session can be revived that was
  unregistered before (get, drop, suspend, resume under LiveIndefinitely).
- `ActiveIsLinked`: under Immediately, with two threads suspending, the thread that
  looks at another session may close it, and wait for the mutex it holds, before
  it disconnects its own.
- `DiesUploaded`: with three threads and six calls a session is erased from the
  map, revived by who still has it, and closed without having been told of a
  commit in between. It holds of the session in the map.

The present statements are those of the theorems, which hold for any number of
threads, sessions and calls.

Model-checked only: liveness (`EverySearchAnswered`, `TypedIsSearched`, `WaitsEnd`,
`CallbackCatchesUp`, `DyingEnds`, `WaiterIsCalled`), which is out of this prover's
reach; `WellFormed` and `QueriesAgree` of `RangeIndexSets`, which uses RECURSIVE
operators; and of the change sets of results `ResultsAreExplained` and
`ModifiedAreReported`. Their merging is the one that is proved for lists; what is
missing is that `calculate` with its longest common subsequence yields a set
that fits.

## 5. Not modelled, and the plan

Left out for good: layout, animation, colours and texts; the assets and the
project files; the Swift and Objective-C wrappers of Realm beyond what the
application relies on; the contents of answers beyond what a document's fate
depends on. Realm's storage engine is in the repository as headers of a binary
library (some 60,000 lines of declarations and templates): what it does is not
in the source, and the modules take from it what its callers rely on, numbered
versions, atomic commits and a log of changes. By lines the share of the C++
that is modelled is therefore small; of the object store's code that is in
source it is the part with concurrency, merging and arithmetic.

Left out so far, within parts that are modelled: several callbacks of one
notifier, schema changes and the object notifier (`Notifiers`); metadata, file
actions, progress and connection notifiers, management sessions
(`SyncSession`); the sets per column and inserted or moved tables and columns
(`ChangeSets`); an argument that is itself miscounted (`RangeIndexSets`).

The message enum's `NoResultsFound` reads "Sorry, Results Found"
(`Constants/Constants.swift:29`), the comment in `addOrDeleteBookFromWishlist` has
its two cases the wrong way round (`WishlistManager.swift:40-41`), and the copy
stored there has lost its `subtitle` (`WishlistManager.swift:45-53`): slips that
need no model.

Next, in this order:

1. Proofs: that `calculate` yields changes that fit (`ResultsAreExplained`), on
   the merging proved in `ListChangesProofs`; `RangeIndexSets` without RECURSIVE.
2. `Schema`: `update_schema` and its modes, the migrations of `object_store.cpp`.
3. `ResultsMode`: the modes of a `Results` (`results.cpp`) and its snapshots.
4. `App`: `Wishlist`, `BookSearch` and `MainScreen` composed.
