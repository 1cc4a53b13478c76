----------------------------- MODULE BookSearch -----------------------------
(***************************************************************************)
(* A search, from the text field to the list of results: the debouncing    *)
(* timer of MainScreenPresenter and the whole of BookSearchManager.        *)
(*                                                                         *)
(* Three threads work on the array bookResults with no lock between them:  *)
(*   - the main thread, where a timer fires and requesBookInfo empties it; *)
(*   - URLSession's delegate queue, which is serial: an answer to an info  *)
(*     request appends to it and starts the requests for the covers;       *)
(*   - a pool thread, where determineWishlistBooks reads it.               *)
(* An append is a load and a store here, so that the main thread can come  *)
(* between them.                                                           *)
(*                                                                         *)
(* A Book is named by the request that made it and its position among the  *)
(* usable documents of the answer.                                         *)
(***************************************************************************)
EXTENDS Naturals, Sequences, FiniteSets

CONSTANTS
    Texts,        \* what the user types, but for the empty text
    Empty,        \* the empty text
    Unencodable,  \* the texts URL(string:) makes no URL of
    MaxTimers,    \* bound: texts typed, hence timers scheduled
    MaxDocs,      \* bound: usable documents in an answer
    Faulty        \* may answers be lost or unusable?

ASSUME BookSearchAssumption ==
    /\ Empty \notin Texts
    /\ Unencodable \subseteq Texts
    /\ MaxTimers \in Nat \ {0} /\ MaxDocs \in Nat
    /\ Faulty \in BOOLEAN

VARIABLES
    process,      \* "on", or "aborted" by a trap
    field,        \* the text in the search bar
    timers,       \* the userInfo of each timer scheduled so far
    pending,      \* the timers neither fired nor invalidated
    requests,     \* the requests begun so far: timer and query of each
    phase,        \* how far each has come
    usable,       \* documents of its answer that pass the cleaning
    added,        \* how many of them have been appended
    bookResults,  \* BookSearchManager.bookResults
    loaded,       \* << >>, or <<the array an append under way has read>>
    torn,         \* was bookResults emptied since that read?
    awaiting,     \* books whose cover has not left the DispatchGroup
    inFlight,     \* books whose cover task has not completed
    toMark,       \* books determineWishlistBooks looks up
    covered,      \* books with their coverData
    determined,   \* books looked up in the wishlist
    overlapped    \* history: has a request begun while another was active?

presenterVars == <<field, timers, pending>>
listVars == <<bookResults, loaded, torn>>
appendVars == <<usable, added>>
coverVars == <<awaiting, inFlight, covered>>
markVars == <<toMark, determined>>
vars == <<process, presenterVars, requests, phase, appendVars, listVars,
          coverVars, markVars, overlapped>>

Request == 1 .. MaxTimers
Book == Request \X (1 .. MaxDocs)
Phase == {"unused", "info", "adding", "covers", "marking", "done",
          "noResults", "stuck"}

running == process = "on"

BooksIn(list) == {list[i] : i \in DOMAIN list}

(* Can the request still take a step? *)
Active(r) ==
    \/ phase[r] \in {"info", "adding", "marking"}
    \/ phase[r] = "covers" /\ (inFlight[r] # {} \/ awaiting[r] = {})

-----------------------------------------------------------------------------

Init ==
    /\ process = "on"
    /\ field = Empty /\ timers = << >> /\ pending = {}
    /\ requests = << >>
    /\ phase = [r \in Request |-> "unused"]
    /\ usable = [r \in Request |-> 0] /\ added = [r \in Request |-> 0]
    /\ bookResults = << >> /\ loaded = << >> /\ torn = FALSE
    /\ awaiting = [r \in Request |-> {}] /\ inFlight = [r \in Request |-> {}]
    /\ toMark = [r \in Request |-> {}]
    /\ covered = {} /\ determined = {}
    /\ overlapped = FALSE

(* A trap: every thread stops where it is. *)
Abort ==
    /\ process' = "aborted"
    /\ UNCHANGED <<presenterVars, requests, phase, appendVars, listVars,
                   coverVars, markVars, overlapped>>

-----------------------------------------------------------------------------
(* Main thread: the presenter *)

(* Mutants of RequestBookSearch: the timer before is not invalidated; the   *)
(* timer is scheduled before the invalidation, which then hits it. *)
RequestWithoutInvalidate(bookQuery) ==
    \/ /\ bookQuery = Empty
       /\ UNCHANGED <<timers, pending>>
    \/ /\ bookQuery # Empty
       /\ timers' = Append(timers, bookQuery)
       /\ pending' = pending \cup {Len(timers) + 1}

RequestThenInvalidate(bookQuery) ==
    \/ /\ bookQuery = Empty
       /\ UNCHANGED <<timers, pending>>
    \/ /\ bookQuery # Empty
       /\ timers' = Append(timers, bookQuery)
       /\ UNCHANGED pending

(* The empty text leaves the timer of the text before it running. *)
RequestBookSearch(bookQuery) ==
    \/ /\ bookQuery = Empty
       /\ UNCHANGED <<timers, pending>>
    \/ /\ bookQuery # Empty
       /\ timers' = Append(timers, bookQuery)
       /\ pending' = (pending \ {Len(timers)}) \cup {Len(timers) + 1}

TextDidChange(searchText) ==
    /\ running
    /\ searchText # field
    /\ searchText # Empty => Len(timers) < MaxTimers
    /\ field' = searchText
    /\ RequestBookSearch(searchText)
    /\ UNCHANGED <<process, requests, phase, appendVars, listVars, coverVars,
                   markVars, overlapped>>

(* Mutant of BeginRequest: the results of the search before are kept. *)
BeginRequestKeeping(timer) ==
    LET query == timers[Len(timers)]
        r == Len(requests) + 1
    IN  /\ running
        /\ timer \in pending
        /\ query \notin Unencodable
        /\ pending' = pending \ {timer}
        /\ requests' = Append(requests, [timer |-> timer, query |-> query])
        /\ phase' = [phase EXCEPT ![r] = "info"]
        /\ overlapped' = (overlapped \/ \E s \in Request : Active(s))
        /\ UNCHANGED <<process, field, timers, appendVars, listVars, coverVars,
                       markVars>>

(* beginRequest reads the userInfo of the timer scheduled last. *)
BeginRequest(timer) ==
    LET query == timers[Len(timers)]
        r == Len(requests) + 1
    IN  /\ running
        /\ timer \in pending
        /\ query \notin Unencodable
        /\ pending' = pending \ {timer}
        /\ requests' = Append(requests, [timer |-> timer, query |-> query])
        /\ phase' = [phase EXCEPT ![r] = "info"]
        /\ bookResults' = << >>
        /\ torn' = (loaded # << >>)
        /\ overlapped' = (overlapped \/ \E s \in Request : Active(s))
        /\ UNCHANGED <<process, field, timers, appendVars, loaded, coverVars,
                       markVars>>

(* URL(string:)! of a text that needs an encoding it is not given. *)
URLTraps(timer) ==
    /\ running
    /\ timer \in pending
    /\ timers[Len(timers)] \in Unencodable
    /\ Abort

-----------------------------------------------------------------------------
(* Delegate queue: the answer to an info request.  One operation at a time: *)
(* from the answer to the last cover request started, no other completion   *)
(* runs. *)

(* Mutant of QueueIsFree: a session whose delegate queue is concurrent. *)
QueueIsConcurrent == TRUE

QueueIsFree == \A r \in Request : phase[r] # "adding"

(* The three guards that return and call nobody. *)
InfoUnusable(r) ==
    /\ Faulty
    /\ phase' = [phase EXCEPT ![r] = "stuck"]
    /\ UNCHANGED appendVars

InfoEmpty(r) ==
    /\ phase' = [phase EXCEPT ![r] = "noResults"]
    /\ UNCHANGED appendVars

(* An answer with documents; cleaning leaves any number of them, even none. *)
InfoHasDocs(r) ==
    /\ phase' = [phase EXCEPT ![r] = "adding"]
    /\ \E n \in 0 .. MaxDocs : usable' = [usable EXCEPT ![r] = n]
    /\ UNCHANGED added

InfoAnswered(r) ==
    /\ running /\ QueueIsFree
    /\ phase[r] = "info"
    /\ InfoUnusable(r) \/ InfoEmpty(r) \/ InfoHasDocs(r)
    /\ UNCHANGED <<process, presenterVars, requests, listVars, coverVars,
                   markVars, overlapped>>

(* Mutant of LoadForAppend: the loop runs once too often. *)
LoadPastTheEnd(r) ==
    /\ running
    /\ phase[r] = "adding" /\ added[r] <= usable[r]
    /\ loaded = << >>
    /\ loaded' = <<bookResults>>
    /\ torn' = FALSE
    /\ UNCHANGED <<process, presenterVars, requests, phase, appendVars,
                   bookResults, coverVars, markVars, overlapped>>

LoadForAppend(r) ==
    /\ running
    /\ phase[r] = "adding" /\ added[r] < usable[r]
    /\ loaded = << >>
    /\ loaded' = <<bookResults>>
    /\ torn' = FALSE
    /\ UNCHANGED <<process, presenterVars, requests, phase, appendVars,
                   bookResults, coverVars, markVars, overlapped>>

(* If bookResults was emptied in between, the emptying may be lost, the     *)
(* append may be lost, or they may happen to have taken turns. *)
StoreAppend(r) ==
    LET book == <<r, added[r] + 1>>
    IN  /\ running
        /\ phase[r] = "adding"
        /\ loaded # << >>
        /\ \/ bookResults' = Append(loaded[1], book)
           \/ torn /\ bookResults' = Append(bookResults, book)
           \/ torn /\ UNCHANGED bookResults
        /\ added' = [added EXCEPT ![r] = @ + 1]
        /\ loaded' = << >> /\ torn' = FALSE
        /\ UNCHANGED <<process, presenterVars, requests, phase, usable,
                       coverVars, markVars, overlapped>>

(* "as!" of a value of another type, a JSON null among them *)
CastTraps(r) ==
    /\ running /\ Faulty
    /\ phase[r] = "adding" /\ added[r] < usable[r]
    /\ loaded = << >>
    /\ Abort

(* requesBookCovers enters the group and starts a task for every book that *)
(* bookResults holds, whichever request made it. *)
RequestBookCovers(r) ==
    /\ running
    /\ phase[r] = "adding" /\ added[r] = usable[r]
    /\ phase' = [phase EXCEPT ![r] = "covers"]
    /\ awaiting' = [awaiting EXCEPT ![r] = BooksIn(bookResults)]
    /\ inFlight' = [inFlight EXCEPT ![r] = BooksIn(bookResults)]
    /\ UNCHANGED <<process, presenterVars, requests, appendVars, listVars,
                   covered, markVars, overlapped>>

(* A cover task that ends with no data never leaves the group. *)
CoverArrives(r, book) ==
    /\ covered' = covered \cup {book}
    /\ awaiting' = [awaiting EXCEPT ![r] = @ \ {book}]

CoverLost ==
    /\ Faulty
    /\ UNCHANGED <<covered, awaiting>>

CoverAnswered(r, book) ==
    /\ running /\ QueueIsFree
    /\ book \in inFlight[r]
    /\ inFlight' = [inFlight EXCEPT ![r] = @ \ {book}]
    /\ CoverArrives(r, book) \/ CoverLost
    /\ UNCHANGED <<process, presenterVars, requests, phase, appendVars,
                   listVars, markVars, overlapped>>

-----------------------------------------------------------------------------
(* Pool thread: the group is empty, so the books are looked up. *)

(* Mutant of GroupIsEmpty: the last cover notifies, so nothing does where    *)
(* there are no books. *)
GroupIsLeft(r) == phase[r] = "covers" /\ awaiting[r] = {} /\ usable[r] # 0

(* Mutant of GroupIsEmpty: the notification does not wait for the group. *)
GroupIsIgnored(r) == phase[r] = "covers"

GroupIsEmpty(r) == phase[r] = "covers" /\ awaiting[r] = {}

StartDetermining(r) ==
    /\ running
    /\ GroupIsEmpty(r)
    /\ phase' = [phase EXCEPT ![r] = "marking"]
    /\ toMark' = [toMark EXCEPT ![r] = BooksIn(bookResults)]
    /\ UNCHANGED <<process, presenterVars, requests, appendVars, listVars,
                   coverVars, determined, overlapped>>

(* The last turn of the loop, and completion(true) *)
FinishDetermining(r) ==
    /\ running
    /\ phase[r] = "marking"
    /\ phase' = [phase EXCEPT ![r] = "done"]
    /\ determined' = determined \cup toMark[r]
    /\ toMark' = [toMark EXCEPT ![r] = {}]
    /\ UNCHANGED <<process, presenterVars, requests, appendVars, listVars,
                   coverVars, overlapped>>

-----------------------------------------------------------------------------
(* Two threads inside the array at once may also end in a trap: the main    *)
(* thread empties it while another uses it, or an append moves it while the *)
(* pool thread starts its loop. *)
DataRaceTraps ==
    /\ running
    /\ \/ pending # {} /\ \E r \in Request : phase[r] = "adding" \/ GroupIsEmpty(r)
       \/ loaded # << >> /\ \E r \in Request : GroupIsEmpty(r)
    /\ Abort

-----------------------------------------------------------------------------

Next ==
    \/ \E text \in Texts \cup {Empty} : TextDidChange(text)
    \/ \E timer \in pending : BeginRequest(timer) \/ URLTraps(timer)
    \/ \E r \in Request :
         \/ InfoAnswered(r)
         \/ LoadForAppend(r) \/ StoreAppend(r) \/ CastTraps(r)
         \/ RequestBookCovers(r)
         \/ \E book \in inFlight[r] : CoverAnswered(r, book)
         \/ StartDetermining(r) \/ FinishDetermining(r)
    \/ DataRaceTraps

Spec == Init /\ [][Next]_vars

(* The run loop fires a timer that stays scheduled, every data task of      *)
(* URLSession completes, and the queues run what they are given. *)
Fairness ==
    /\ \A timer \in 1 .. MaxTimers : WF_vars(BeginRequest(timer) \/ URLTraps(timer))
    /\ \A r \in Request :
         /\ WF_vars(InfoAnswered(r))
         /\ WF_vars(LoadForAppend(r)) /\ WF_vars(StoreAppend(r))
         /\ WF_vars(RequestBookCovers(r))
         /\ \A book \in Book : WF_vars(CoverAnswered(r, book))
         /\ WF_vars(StartDetermining(r)) /\ WF_vars(FinishDetermining(r))

FairSpec == Spec /\ Fairness

-----------------------------------------------------------------------------
(* Properties *)

(* Every variable keeps its type; a request is used from the moment it is   *)
(* begun, and never has more documents appended than its answer holds. *)
TypeOK ==
    /\ process \in {"on", "aborted"}
    /\ field \in Texts \cup {Empty}
    /\ timers \in Seq(Texts)
    /\ pending \subseteq DOMAIN timers
    /\ requests \in Seq([timer : 1 .. MaxTimers, query : Texts])
    /\ phase \in [Request -> Phase]
    /\ usable \in [Request -> 0 .. MaxDocs]
    /\ added \in [Request -> 0 .. MaxDocs]
    /\ bookResults \in Seq(Book)
    /\ loaded \in Seq(Seq(Book)) /\ Len(loaded) <= 1
    /\ torn \in BOOLEAN
    /\ awaiting \in [Request -> SUBSET Book]
    /\ inFlight \in [Request -> SUBSET Book]
    /\ toMark \in [Request -> SUBSET Book]
    /\ covered \subseteq Book /\ determined \subseteq Book
    /\ overlapped \in BOOLEAN
    /\ \A r \in Request : phase[r] = "unused" <=> r > Len(requests)
    /\ \A r \in Request : added[r] <= usable[r]

(* Each pause in the typing makes one request at most, for the text the     *)
(* pause came after: a timer that was replaced never starts a search. *)
OneRequestPerText ==
    /\ \A r, s \in DOMAIN requests : r < s => requests[r].timer < requests[s].timer
    /\ \A r \in DOMAIN requests : requests[r].query = timers[requests[r].timer]

(* However searches overlap, and whatever a race did to the array, the      *)
(* books of one answer stand together in the list, in the answer's order    *)
(* and each once. *)
ResultsAreBlocks ==
    \A i, j \in DOMAIN bookResults :
      i < j /\ bookResults[i][1] = bookResults[j][1] =>
        bookResults[j][2] = bookResults[i][2] + (j - i)

(* When a search reports success, the books it made that are in the list    *)
(* have their covers: none is shown blank by its own search. *)
CoversReady ==
    \A r \in Request : phase[r] \in {"marking", "done"} =>
      \A i \in DOMAIN bookResults :
        bookResults[i][1] = r => bookResults[i] \in covered

(* A search that meets no other, from the first text to the present one,    *)
(* leaves exactly the usable documents of the last answer in the list, in   *)
(* order, and all of them with cover and mark when it reports success. *)
AloneSearchIsExact ==
    LET r == Len(requests)
    IN  ~overlapped =>
          IF r = 0 THEN bookResults = << >>
          ELSE /\ bookResults = [i \in 1 .. added[r] |-> <<r, i>>]
               /\ phase[r] = "done" =>
                    /\ added[r] = usable[r]
                    /\ BooksIn(bookResults) \subseteq covered \cap determined

(* Every search that is sent calls its completion, however searches         *)
(* overlap, but for the faults that stop one: an answer that is not usable, *)
(* a cover of its group that is lost, a trap. *)
EverySearchAnswered ==
    \A r \in Request :
      phase[r] = "info" ~>
        \/ phase[r] \in {"done", "noResults"}
        \/ Faulty /\ ~Active(r)
        \/ ~running

(* A text that is left in the field is searched for. *)
TypedIsSearched ==
    \A text \in Texts :
      field = text ~> \/ field # text
                      \/ \E r \in DOMAIN requests : requests[r].query = text
                      \/ ~running

(* "Function will perform an api request for the given book query": when    *)
(* the search begun last has reported success and no other is active, the   *)
(* results are those of its query.  It fails when the answer to the search  *)
(* before comes late. *)
LatestQueryOnly ==
    LET r == Len(requests)
    IN  r > 0 /\ phase[r] = "done" /\ (\A s \in Request : ~Active(s)) =>
          \A i \in DOMAIN bookResults : bookResults[i][1] = r
=============================================================================
