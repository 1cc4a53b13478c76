-------------------------- MODULE BookSearchProofs --------------------------
(* Proofs about BookSearch: what the list of results holds however the      *)
(* typing, the answers and the races on the array interleave, for any       *)
(* number of searches, timers and documents. *)
EXTENDS BookSearch, TLAPS

-----------------------------------------------------------------------------
(* The inductive invariant.  It speaks of the two arrays a step can leave   *)
(* in bookResults: the present one, and the one an append has read. *)

(* The requests come in the order of their timers, and a timer that waits   *)
(* is the last one: requestBookSearch has invalidated every other. *)
TimersInOrder ==
    /\ Len(timers) <= MaxTimers
    /\ \A timer \in pending : timer = Len(timers)
    /\ \A r \in DOMAIN requests :
         /\ r <= requests[r].timer /\ requests[r].timer <= Len(timers)
         /\ \A timer \in pending : requests[r].timer < timer

(* An append belongs to the one request that is adding, and only an         *)
(* emptying can have come between its load and its store. *)
AppendIsAlone ==
    /\ \A r, s \in Request : phase[r] = "adding" /\ phase[s] = "adding" => r = s
    /\ loaded # << >> =>
         /\ \E r \in Request : phase[r] = "adding" /\ added[r] < usable[r]
         /\ ~torn => bookResults = loaded[1]
    /\ torn => bookResults = << >>

(* No document is counted before an answer, none is left out after it. *)
CountsFollowPhase ==
    \A r \in Request :
      /\ phase[r] \in {"unused", "info", "noResults", "stuck"} =>
           usable[r] = 0 /\ added[r] = 0
      /\ phase[r] \in {"covers", "marking", "done"} => added[r] = usable[r]

(* The books of one answer stand together in the list; none has a position  *)
(* that was not reached; those of the request that is adding stand last. *)
InBlocks(list) ==
    \A i, j \in DOMAIN list :
      i < j /\ list[i][1] = list[j][1] => list[j][2] = list[i][2] + (j - i)

AddedSoFar(list) ==
    \A i \in DOMAIN list : list[i][2] <= added[list[i][1]]

OpenBlockIsLast(list) ==
    \A i \in DOMAIN list :
      phase[list[i][1]] = "adding" =>
        list[i][2] = added[list[i][1]] - (Len(list) - i)

(* Once its covers are requested, a book of the list has its cover or is    *)
(* waited for. *)
CoveredOrAwaited(list) ==
    \A i \in DOMAIN list :
      LET r == list[i][1]
      IN  /\ phase[r] = "covers" => list[i] \in covered \cup awaiting[r]
          /\ phase[r] \in {"marking", "done"} => list[i] \in covered

Fits(list) ==
    InBlocks(list) /\ AddedSoFar(list) /\ OpenBlockIsLast(list)
    /\ CoveredOrAwaited(list)

ListsFit ==
    /\ Fits(bookResults)
    /\ loaded # << >> => Fits(loaded[1])

ListIsOf(r) == bookResults = [i \in 1 .. added[r] |-> <<r, i>>]

MarksFollow(r) ==
    /\ phase[r] = "marking" => BooksIn(bookResults) \subseteq toMark[r]
    /\ phase[r] = "done" => BooksIn(bookResults) \subseteq determined

OnlyActive(r) == \A s \in Request : s # r => ~Active(s)

(* Until searches overlap, only the last can still take a step, the list is *)
(* what it has appended, and what it looks up is the list. *)
LastIsAlone ==
    LET r == Len(requests)
    IN  ~overlapped =>
          /\ OnlyActive(r) /\ ~torn
          /\ r = 0 => bookResults = << >>
          /\ r > 0 => ListIsOf(r) /\ MarksFollow(r)

IInv ==
    /\ TypeOK /\ TimersInOrder /\ OneRequestPerText /\ AppendIsAlone
    /\ CountsFollowPhase /\ ListsFit /\ LastIsAlone

-----------------------------------------------------------------------------
(* Sequences *)

LEMMA AppendFacts ==
    ASSUME NEW S, NEW list \in Seq(S), NEW e \in S
    PROVE  /\ Append(list, e) \in Seq(S)
           /\ Len(list) \in Nat /\ Len(Append(list, e)) = Len(list) + 1
           /\ DOMAIN list = 1 .. Len(list)
           /\ DOMAIN Append(list, e) = 1 .. Len(list) + 1
           /\ \A i \in 1 .. Len(list) : Append(list, e)[i] = list[i]
           /\ Append(list, e)[Len(list) + 1] = e
  OBVIOUS

LEMMA EmptyList ==
    ASSUME NEW S
    PROVE  << >> \in Seq(S) /\ Len(<< >>) = 0 /\ DOMAIN << >> = {}
  OBVIOUS

LEMMA Member ==
    ASSUME NEW S, NEW list \in Seq(S), NEW i \in DOMAIN list
    PROVE  list[i] \in S
  OBVIOUS

LEMMA ListFacts ==
    ASSUME NEW list \in Seq(Book)
    PROVE  /\ Len(list) \in Nat /\ DOMAIN list = 1 .. Len(list)
           /\ \A i \in DOMAIN list :
                /\ list[i] \in Book /\ list[i][1] \in Request
                /\ list[i][2] \in 1 .. MaxDocs
<1>1. \A i \in DOMAIN list : list[i] \in Book
  OBVIOUS
<1>2. \A book \in Book : book[1] \in Request /\ book[2] \in 1 .. MaxDocs
  BY DEF Book
<1> QED
  BY <1>1, <1>2

(* What an append has read is a list. *)
LEMMA LoadedIsList ==
    ASSUME TypeOK, loaded # << >>
    PROVE  loaded[1] \in Seq(Book)
<1>1. loaded \in Seq(Seq(Book))
  BY DEF TypeOK
<1>2. 1 \in DOMAIN loaded
  BY <1>1
<1> QED
  BY <1>1, <1>2

-----------------------------------------------------------------------------
(* Types *)

LEMMA InitIInv == Init => IInv
<1> SUFFICES ASSUME Init PROVE IInv
  OBVIOUS
<1>1. TypeOK
  <2>1. /\ process \in {"on", "aborted"} /\ field \in Texts \cup {Empty}
        /\ timers \in Seq(Texts) /\ pending \subseteq DOMAIN timers
        /\ bookResults \in Seq(Book)
        /\ loaded \in Seq(Seq(Book)) /\ Len(loaded) <= 1
    BY EmptyList DEF Init
  <2>2. requests \in Seq([timer : 1 .. MaxTimers, query : Texts]) /\ Len(requests) = 0
    BY EmptyList, Zenon DEF Init
  <2>3. /\ phase \in [Request -> Phase]
        /\ usable \in [Request -> 0 .. MaxDocs] /\ added \in [Request -> 0 .. MaxDocs]
        /\ \A r \in Request : added[r] <= usable[r] /\ phase[r] = "unused" /\ r > 0
    BY BookSearchAssumption DEF Init, Request, Phase
  <2>4. /\ awaiting \in [Request -> SUBSET Book]
        /\ inFlight \in [Request -> SUBSET Book] /\ toMark \in [Request -> SUBSET Book]
        /\ covered \subseteq Book /\ determined \subseteq Book
    BY DEF Init
  <2>5. torn \in BOOLEAN /\ overlapped \in BOOLEAN
    BY DEF Init
  <2> QED
    BY <2>1, <2>2, <2>3, <2>4, <2>5 DEF TypeOK
<1>2. TimersInOrder /\ OneRequestPerText
  BY BookSearchAssumption DEF Init, TimersInOrder, OneRequestPerText
<1>3. AppendIsAlone /\ CountsFollowPhase
  BY DEF Init, AppendIsAlone, CountsFollowPhase
<1>4. ListsFit
  BY DEF Init, ListsFit, Fits, InBlocks, AddedSoFar, OpenBlockIsLast,
         CoveredOrAwaited
<1>5. LastIsAlone
  BY DEF Init, LastIsAlone, OnlyActive, Active, Request
<1> QED
  BY <1>1, <1>2, <1>3, <1>4, <1>5 DEF IInv

(* A timer that waits is scheduled, and a text it carries is one. *)
LEMMA WaitingTimer ==
    ASSUME TypeOK, TimersInOrder, NEW timer \in pending
    PROVE  /\ timer = Len(timers) /\ timer \in 1 .. MaxTimers
           /\ timers[Len(timers)] \in Texts
           /\ timers \in Seq(Texts)
<1>1. timers \in Seq(Texts) /\ timer \in DOMAIN timers
  BY DEF TypeOK
<1>2. timer = Len(timers) /\ Len(timers) <= MaxTimers
  BY DEF TimersInOrder
<1>3. timer \in Nat \ {0} /\ timer = Len(timers) /\ timers[timer] \in Texts
  BY <1>1, <1>2
<1> QED
  BY <1>1, <1>2, <1>3, BookSearchAssumption

(* There are no more requests than timers. *)
LEMMA RequestsBounded ==
    ASSUME TypeOK, TimersInOrder
    PROVE  /\ Len(requests) \in Nat /\ DOMAIN requests = 1 .. Len(requests)
           /\ \A r \in DOMAIN requests : requests[r].timer \in 1 .. MaxTimers
           /\ Len(requests) <= MaxTimers
           /\ pending # {} => Len(requests) + 1 \in Request
<1>1. requests \in Seq([timer : 1 .. MaxTimers, query : Texts])
  BY DEF TypeOK
<1>2. Len(requests) \in Nat /\ DOMAIN requests = 1 .. Len(requests)
  BY <1>1
<1>3. \A r \in DOMAIN requests : requests[r] \in [timer : 1 .. MaxTimers, query : Texts]
  BY <1>1, Member, Zenon
<1>4. \A r \in DOMAIN requests : requests[r].timer \in 1 .. MaxTimers
  BY <1>3
<1>5. Len(requests) <= MaxTimers
  <2>1. CASE Len(requests) = 0
    BY <2>1, BookSearchAssumption
  <2>2. CASE Len(requests) # 0
    <3>1. Len(requests) \in DOMAIN requests
      BY <1>2, <2>2
    <3>2. Len(requests) <= requests[Len(requests)].timer
      BY <3>1 DEF TimersInOrder
    <3> QED
      BY <1>2, <1>4, <3>1, <3>2, BookSearchAssumption
  <2> QED
    BY <2>1, <2>2
<1>6. ASSUME NEW timer \in pending
      PROVE  Len(requests) + 1 \in Request
  <2>1. timer \in 1 .. MaxTimers
    BY WaitingTimer
  <2>2. CASE Len(requests) = 0
    BY <2>2, BookSearchAssumption DEF Request
  <2>3. CASE Len(requests) # 0
    <3>1. Len(requests) \in DOMAIN requests
      BY <1>2, <2>3
    <3>2. /\ Len(requests) <= requests[Len(requests)].timer
          /\ requests[Len(requests)].timer < timer
      BY <3>1 DEF TimersInOrder
    <3> QED
      BY <1>2, <1>4, <2>1, <3>1, <3>2, BookSearchAssumption DEF Request
  <2> QED
    BY <2>2, <2>3
<1> QED
  BY <1>2, <1>4, <1>5, <1>6

LEMMA TypeStep ==
    ASSUME TypeOK, TimersInOrder, AppendIsAlone, CountsFollowPhase, [Next]_vars
    PROVE  TypeOK'
<1> USE BookSearchAssumption
<1>1. CASE UNCHANGED vars
  BY <1>1 DEF TypeOK, vars, presenterVars, listVars, appendVars, coverVars, markVars
<1>2. ASSUME NEW text \in Texts \cup {Empty}, TextDidChange(text)
      PROVE  TypeOK'
  <2>1. /\ timers' \in Seq(Texts) /\ pending' \subseteq DOMAIN timers'
    <3>1. CASE UNCHANGED <<timers, pending>>
      BY <3>1 DEF TypeOK
    <3>2. CASE /\ text # Empty /\ timers' = Append(timers, text)
               /\ pending' = (pending \ {Len(timers)}) \cup {Len(timers) + 1}
      <4>1. text \in Texts /\ timers \in Seq(Texts) /\ pending \subseteq DOMAIN timers
        BY <3>2 DEF TypeOK
      <4>2. timers' \in Seq(Texts) /\ DOMAIN timers' = 1 .. Len(timers) + 1
        BY <3>2, <4>1, AppendFacts
      <4>3. DOMAIN timers = 1 .. Len(timers) /\ Len(timers) \in Nat
        BY <4>1
      <4> QED
        BY <3>2, <4>1, <4>2, <4>3
    <3> QED
      BY <1>2, <3>1, <3>2 DEF TextDidChange, RequestBookSearch
  <2> QED
    BY <1>2, <2>1 DEF TypeOK, TextDidChange, appendVars, listVars, coverVars, markVars
<1>3. ASSUME NEW timer \in pending, BeginRequest(timer)
      PROVE  TypeOK'
  <2> DEFINE r == Len(requests) + 1
  <2> DEFINE request == [timer |-> timer, query |-> timers[Len(timers)]]
  <2>1. request \in [timer : 1 .. MaxTimers, query : Texts]
    BY WaitingTimer
  <2>2. requests' = Append(requests, request)
    BY <1>3 DEF BeginRequest
  <2>3. requests \in Seq([timer : 1 .. MaxTimers, query : Texts])
    BY DEF TypeOK
  <2>4. requests' \in Seq([timer : 1 .. MaxTimers, query : Texts]) /\ Len(requests') = r
    BY <2>1, <2>2, <2>3, AppendFacts
  <2>5. r \in Request /\ Len(requests) \in Nat
    BY RequestsBounded
  <2>6. phase' = [phase EXCEPT ![r] = "info"]
    BY <1>3 DEF BeginRequest
  <2>7. phase' \in [Request -> Phase]
    BY <2>5, <2>6 DEF TypeOK, Phase
  <2>8. \A s \in Request : phase'[s] = "unused" <=> s > Len(requests')
    <3>1. phase \in [Request -> Phase] /\ \A s \in Request : phase[s] = "unused" <=> s > Len(requests)
      BY DEF TypeOK
    <3>2. phase'[r] = "info" /\ \A s \in Request \ {r} : phase'[s] = phase[s]
      BY <2>5, <2>6, <3>1
    <3>3. \A s \in Request \ {r} : s > Len(requests) <=> s > r
      BY <2>5 DEF Request
    <3>4. Len(requests') = r /\ ~(r > r)
      BY <2>4, <2>5
    <3> QED
      BY <3>1, <3>2, <3>3, <3>4
  <2>9. bookResults' \in Seq(Book)
    BY <1>3, EmptyList DEF BeginRequest
  <2>10. torn' \in BOOLEAN /\ overlapped' \in BOOLEAN
    BY <1>3, Zenon DEF BeginRequest
  <2>11. pending' \subseteq DOMAIN timers
    BY <1>3 DEF BeginRequest, TypeOK
  <2>12. UNCHANGED <<process, field, timers, appendVars, loaded, coverVars, markVars>>
    BY <1>3 DEF BeginRequest
  <2> QED
    BY <2>4, <2>7, <2>8, <2>9, <2>10, <2>11, <2>12 DEF TypeOK, appendVars,
       coverVars, markVars
<1>4. ASSUME Abort
      PROVE  TypeOK'
  BY <1>4 DEF Abort, TypeOK, presenterVars, appendVars, listVars, coverVars, markVars
<1>5. ASSUME NEW r \in Request, InfoAnswered(r)
      PROVE  TypeOK'
  <2>1. phase' \in [Request -> Phase] /\ \A s \in Request :
          phase'[s] = "unused" <=> phase[s] = "unused"
    BY <1>5 DEF InfoAnswered, InfoUnusable, InfoEmpty, InfoHasDocs, TypeOK, Phase
  <2>2. /\ usable' \in [Request -> 0 .. MaxDocs] /\ added' = added
        /\ \A s \in Request : added'[s] <= usable'[s]
    <3>1. CASE InfoUnusable(r) \/ InfoEmpty(r)
      BY <3>1 DEF InfoUnusable, InfoEmpty, appendVars, TypeOK
    <3>2. CASE InfoHasDocs(r)
      <4>1. added[r] = 0
        BY <1>5 DEF CountsFollowPhase, InfoAnswered
      <4>2. PICK n \in 0 .. MaxDocs : usable' = [usable EXCEPT ![r] = n]
        BY <3>2 DEF InfoHasDocs
      <4> QED
        BY <3>2, <4>1, <4>2 DEF InfoHasDocs, TypeOK
    <3> QED
      BY <1>5, <3>1, <3>2 DEF InfoAnswered
  <2> QED
    BY <1>5, <2>1, <2>2 DEF InfoAnswered, TypeOK, presenterVars, listVars,
       coverVars, markVars
<1>6. ASSUME NEW r \in Request, LoadForAppend(r)
      PROVE  TypeOK'
  <2>1. loaded' = <<bookResults>> /\ bookResults \in Seq(Book)
    BY <1>6 DEF LoadForAppend, TypeOK
  <2>2. loaded' \in Seq(Seq(Book)) /\ Len(loaded') <= 1
    BY <2>1
  <2> QED
    BY <1>6, <2>2 DEF LoadForAppend, TypeOK, presenterVars, appendVars, coverVars,
       markVars
<1>7. ASSUME NEW r \in Request, StoreAppend(r)
      PROVE  TypeOK'
  <2> DEFINE book == <<r, added[r] + 1>>
  <2>1. added[r] < usable[r]
    BY <1>7 DEF StoreAppend, AppendIsAlone
  <2>2. book \in Book
    BY <2>1 DEF TypeOK, Book
  <2>3. bookResults' \in Seq(Book)
    <3>1. loaded[1] \in Seq(Book) /\ bookResults \in Seq(Book)
      BY <1>7, LoadedIsList DEF StoreAppend, TypeOK
    <3>2. Append(loaded[1], book) \in Seq(Book) /\ Append(bookResults, book) \in Seq(Book)
      BY <2>2, <3>1, AppendFacts
    <3> QED
      BY <1>7, <3>1, <3>2 DEF StoreAppend
  <2>4. added' \in [Request -> 0 .. MaxDocs] /\ \A s \in Request : added'[s] <= usable[s]
    BY <1>7, <2>1 DEF StoreAppend, TypeOK
  <2>5. loaded' \in Seq(Seq(Book)) /\ Len(loaded') <= 1 /\ torn' \in BOOLEAN
    <3>1. loaded' = << >> /\ torn' = FALSE
      BY <1>7 DEF StoreAppend
    <3>2. << >> \in Seq(Seq(Book)) /\ Len(<< >>) = 0
      BY EmptyList
    <3>3. Len(loaded') = 0 /\ loaded' \in Seq(Seq(Book)) /\ torn' \in BOOLEAN
      BY <3>1, <3>2, Zenon
    <3> QED
      BY <3>3
  <2>6. UNCHANGED <<process, presenterVars, requests, phase, usable, coverVars,
                    markVars, overlapped>>
    BY <1>7 DEF StoreAppend
  <2> QED
    BY <2>3, <2>4, <2>5, <2>6 DEF TypeOK, presenterVars, coverVars, markVars
<1>8. ASSUME NEW r \in Request, RequestBookCovers(r)
      PROVE  TypeOK'
  <2>1. BooksIn(bookResults) \subseteq Book
    BY ListFacts DEF TypeOK, BooksIn
  <2> QED
    BY <1>8, <2>1 DEF RequestBookCovers, TypeOK, Phase, presenterVars, appendVars,
       listVars, markVars
<1>9. ASSUME NEW r \in Request, NEW book \in inFlight[r], CoverAnswered(r, book)
      PROVE  TypeOK'
  <2>1. book \in Book
    BY DEF TypeOK
  <2>2. covered' \subseteq Book /\ awaiting' \in [Request -> SUBSET Book]
    BY <1>9, <2>1 DEF CoverAnswered, CoverArrives, CoverLost, TypeOK
  <2> QED
    BY <1>9, <2>2 DEF CoverAnswered, TypeOK, presenterVars, appendVars, listVars,
       markVars
<1>10. ASSUME NEW r \in Request, StartDetermining(r)
       PROVE  TypeOK'
  <2>1. BooksIn(bookResults) \subseteq Book
    BY ListFacts DEF TypeOK, BooksIn
  <2> QED
    BY <1>10, <2>1 DEF StartDetermining, GroupIsEmpty, TypeOK, Phase, presenterVars,
       appendVars, listVars, coverVars
<1>11. ASSUME NEW r \in Request, FinishDetermining(r)
       PROVE  TypeOK'
  BY <1>11 DEF FinishDetermining, TypeOK, Phase, presenterVars, appendVars, listVars,
     coverVars
<1> QED
  BY <1>1, <1>2, <1>3, <1>4, <1>5, <1>6, <1>7, <1>8, <1>9, <1>10, <1>11
     DEF Next, URLTraps, CastTraps, DataRaceTraps

-----------------------------------------------------------------------------
(* Timers and requests *)

LEMMA TimersStep ==
    ASSUME TypeOK, TimersInOrder, OneRequestPerText, [Next]_vars
    PROVE  TimersInOrder' /\ OneRequestPerText'
<1> USE BookSearchAssumption
<1>1. CASE UNCHANGED <<timers, pending, requests>>
  BY <1>1 DEF TimersInOrder, OneRequestPerText
<1>2. ASSUME NEW text \in Texts \cup {Empty}, TextDidChange(text)
      PROVE  TimersInOrder' /\ OneRequestPerText'
  <2>1. CASE UNCHANGED <<timers, pending>>
    BY <1>1, <1>2, <2>1 DEF TextDidChange
  <2>2. CASE /\ text # Empty /\ timers' = Append(timers, text)
             /\ pending' = (pending \ {Len(timers)}) \cup {Len(timers) + 1}
    <3>1. text \in Texts /\ timers \in Seq(Texts)
      BY <2>2 DEF TypeOK
    <3>2. /\ Len(timers) \in Nat /\ Len(timers') = Len(timers) + 1
          /\ \A i \in 1 .. Len(timers) : timers'[i] = timers[i]
      BY <2>2, <3>1, AppendFacts
    <3>3. Len(timers) < MaxTimers /\ UNCHANGED requests
      BY <1>2, <2>2 DEF TextDidChange
    <3>4. pending' = {Len(timers')}
      BY <2>2, <3>2 DEF TimersInOrder
    <3>5. \A r \in DOMAIN requests :
            /\ r <= requests[r].timer /\ requests[r].timer \in 1 .. Len(timers)
      BY RequestsBounded, <3>2 DEF TimersInOrder
    <3>6. TimersInOrder'
      BY <3>2, <3>3, <3>4, <3>5 DEF TimersInOrder
    <3>7. OneRequestPerText'
      BY <3>2, <3>3, <3>5 DEF OneRequestPerText
    <3> QED
      BY <3>6, <3>7
  <2> QED
    BY <1>2, <2>1, <2>2 DEF TextDidChange, RequestBookSearch
<1>3. ASSUME NEW timer \in pending, BeginRequest(timer)
      PROVE  TimersInOrder' /\ OneRequestPerText'
  <2> DEFINE r == Len(requests) + 1
  <2> DEFINE request == [timer |-> timer, query |-> timers[Len(timers)]]
  <2>1. /\ timer = Len(timers) /\ timer \in 1 .. MaxTimers
        /\ request \in [timer : 1 .. MaxTimers, query : Texts]
    BY WaitingTimer
  <2>2. /\ requests' = Append(requests, request)
        /\ pending' = pending \ {timer} /\ UNCHANGED timers
    BY <1>3 DEF BeginRequest
  <2>3. requests \in Seq([timer : 1 .. MaxTimers, query : Texts])
    BY DEF TypeOK
  <2>4. /\ Len(requests) \in Nat /\ DOMAIN requests = 1 .. Len(requests)
        /\ DOMAIN requests' = 1 .. r /\ requests'[r] = request
        /\ \A i \in 1 .. Len(requests) : requests'[i] = requests[i]
    BY <2>1, <2>2, <2>3, AppendFacts
  <2>5. requests'[r].timer = timer /\ requests'[r].query = timers[timer]
    BY <2>1, <2>4
  <2>6. pending' = {}
    BY <2>1, <2>2 DEF TimersInOrder
  <2>7. \A i \in 1 .. Len(requests) :
          requests[i].timer \in 1 .. MaxTimers /\ requests[i].timer < timer
    BY <2>4, RequestsBounded DEF TimersInOrder
  <2>8. r <= timer
    <3>1. CASE Len(requests) = 0
      BY <2>1, <3>1
    <3>2. CASE Len(requests) # 0
      <4>1. Len(requests) \in DOMAIN requests
        BY <2>4, <3>2
      <4>2. Len(requests) <= requests[Len(requests)].timer
        BY <4>1 DEF TimersInOrder
      <4> QED
        BY <2>1, <2>4, <2>7, <3>2, <4>2
    <3> QED
      BY <3>1, <3>2
  <2>9. DOMAIN requests' = DOMAIN requests \cup {r} /\ r \notin DOMAIN requests
    BY <2>4
  <2>10. TimersInOrder'
    BY <2>1, <2>2, <2>4, <2>5, <2>6, <2>8, <2>9 DEF TimersInOrder
  <2>11. OneRequestPerText'
    BY <2>1, <2>2, <2>4, <2>5, <2>7, <2>9 DEF OneRequestPerText
  <2> QED
    BY <2>10, <2>11
<1>4. ASSUME Abort
      PROVE  UNCHANGED <<timers, pending, requests>>
  BY <1>4 DEF Abort, presenterVars
<1>5. ASSUME NEW r \in Request,
             \/ InfoAnswered(r) \/ LoadForAppend(r) \/ StoreAppend(r)
             \/ RequestBookCovers(r) \/ StartDetermining(r) \/ FinishDetermining(r)
             \/ \E book \in inFlight[r] : CoverAnswered(r, book)
      PROVE  UNCHANGED <<timers, pending, requests>>
  BY <1>5 DEF InfoAnswered, LoadForAppend, StoreAppend, RequestBookCovers,
     StartDetermining, FinishDetermining, CoverAnswered, presenterVars
<1> QED
  BY <1>1, <1>2, <1>3, <1>4, <1>5
     DEF Next, URLTraps, CastTraps, DataRaceTraps, vars, presenterVars

-----------------------------------------------------------------------------
(* Appends *)

LEMMA AppendStep ==
    ASSUME TypeOK, TimersInOrder, AppendIsAlone, [Next]_vars
    PROVE  AppendIsAlone'
<1>1. CASE UNCHANGED <<phase, usable, added, bookResults, loaded, torn>>
  BY <1>1 DEF AppendIsAlone
<1>2. ASSUME NEW text \in Texts \cup {Empty}, TextDidChange(text)
      PROVE  AppendIsAlone'
  BY <1>1, <1>2 DEF TextDidChange, appendVars, listVars
<1>3. ASSUME NEW timer \in pending, BeginRequest(timer)
      PROVE  AppendIsAlone'
  <2> DEFINE r == Len(requests) + 1
  <2>1. r \in Request /\ Len(requests) \in Nat
    BY RequestsBounded
  <2>2. phase[r] = "unused" /\ phase' = [phase EXCEPT ![r] = "info"]
        /\ phase \in [Request -> Phase]
    BY <1>3, <2>1 DEF BeginRequest, TypeOK
  <2>3. \A s \in Request : phase'[s] = "adding" <=> phase[s] = "adding"
    BY <2>1, <2>2
  <2>4. /\ bookResults' = << >> /\ torn' = (loaded # << >>)
        /\ UNCHANGED <<usable, added, loaded>>
    BY <1>3 DEF BeginRequest, appendVars
  <2> QED
    BY <2>3, <2>4 DEF AppendIsAlone
<1>4. ASSUME Abort
      PROVE  AppendIsAlone'
  BY <1>1, <1>4 DEF Abort, appendVars, listVars
<1>5. ASSUME NEW r \in Request, InfoAnswered(r)
      PROVE  AppendIsAlone'
  <2>1. /\ \A s \in Request : phase[s] # "adding"
        /\ UNCHANGED <<bookResults, loaded, torn>>
    BY <1>5 DEF InfoAnswered, QueueIsFree, listVars
  <2>2. \A s \in Request : phase'[s] = "adding" => s = r
    BY <1>5, <2>1 DEF InfoAnswered, InfoUnusable, InfoEmpty, InfoHasDocs, TypeOK
  <2> QED
    BY <2>1, <2>2 DEF AppendIsAlone
<1>6. ASSUME NEW r \in Request, LoadForAppend(r)
      PROVE  AppendIsAlone'
  <2>1. /\ phase[r] = "adding" /\ added[r] < usable[r]
        /\ loaded' = <<bookResults>> /\ torn' = FALSE
        /\ UNCHANGED <<phase, usable, added, bookResults>>
    BY <1>6 DEF LoadForAppend, appendVars
  <2> QED
    BY <2>1 DEF AppendIsAlone
<1>7. ASSUME NEW r \in Request, StoreAppend(r)
      PROVE  AppendIsAlone'
  <2>1. loaded' = << >> /\ torn' = FALSE /\ UNCHANGED phase
    BY <1>7 DEF StoreAppend
  <2> QED
    BY <2>1 DEF AppendIsAlone
<1>8. ASSUME NEW r \in Request, RequestBookCovers(r)
      PROVE  AppendIsAlone'
  <2>1. /\ phase[r] = "adding" /\ added[r] = usable[r]
        /\ phase' = [phase EXCEPT ![r] = "covers"]
        /\ UNCHANGED <<usable, added, bookResults, loaded, torn>>
    BY <1>8 DEF RequestBookCovers, appendVars, listVars
  <2>2. loaded = << >>
    BY <2>1 DEF AppendIsAlone, TypeOK
  <2>3. \A s \in Request : phase'[s] = "adding" => phase[s] = "adding"
    BY <2>1 DEF TypeOK
  <2> QED
    BY <2>1, <2>2, <2>3 DEF AppendIsAlone
<1>9. ASSUME NEW r \in Request, NEW book \in inFlight[r], CoverAnswered(r, book)
      PROVE  AppendIsAlone'
  BY <1>1, <1>9 DEF CoverAnswered, appendVars, listVars
<1>10. ASSUME NEW r \in Request, StartDetermining(r) \/ FinishDetermining(r)
       PROVE  AppendIsAlone'
  <2>1. /\ phase[r] # "adding" /\ \E now \in Phase \ {"adding"} :
             phase' = [phase EXCEPT ![r] = now]
        /\ UNCHANGED <<usable, added, bookResults, loaded, torn>>
    BY <1>10 DEF StartDetermining, GroupIsEmpty, FinishDetermining, appendVars,
       listVars, Phase
  <2>2. \A s \in Request : phase'[s] = "adding" <=> phase[s] = "adding"
    BY <2>1 DEF TypeOK
  <2> QED
    BY <2>1, <2>2 DEF AppendIsAlone
<1> QED
  BY <1>1, <1>2, <1>3, <1>4, <1>5, <1>6, <1>7, <1>8, <1>9, <1>10
     DEF Next, URLTraps, CastTraps, DataRaceTraps, vars, appendVars, listVars

LEMMA CountsStep ==
    ASSUME TypeOK, TimersInOrder, AppendIsAlone, CountsFollowPhase, [Next]_vars
    PROVE  CountsFollowPhase'
<1>1. CASE UNCHANGED <<phase, usable, added>>
  BY <1>1 DEF CountsFollowPhase
<1>2. ASSUME NEW text \in Texts \cup {Empty}, TextDidChange(text)
      PROVE  CountsFollowPhase'
  BY <1>1, <1>2 DEF TextDidChange, appendVars
<1>3. ASSUME NEW timer \in pending, BeginRequest(timer)
      PROVE  CountsFollowPhase'
  <2> DEFINE r == Len(requests) + 1
  <2>1. r \in Request /\ Len(requests) \in Nat
    BY RequestsBounded
  <2>2. /\ phase[r] = "unused" /\ phase' = [phase EXCEPT ![r] = "info"]
        /\ phase \in [Request -> Phase] /\ UNCHANGED <<usable, added>>
    BY <1>3, <2>1 DEF BeginRequest, TypeOK, appendVars
  <2> QED
    BY <2>1, <2>2 DEF CountsFollowPhase
<1>4. ASSUME Abort
      PROVE  CountsFollowPhase'
  BY <1>1, <1>4 DEF Abort, appendVars
<1>5. ASSUME NEW r \in Request, InfoAnswered(r)
      PROVE  CountsFollowPhase'
  <2>1. phase[r] = "info"
    BY <1>5 DEF InfoAnswered
  <2>2. CASE InfoUnusable(r) \/ InfoEmpty(r)
    BY <2>1, <2>2 DEF InfoUnusable, InfoEmpty, CountsFollowPhase, TypeOK, appendVars
  <2>3. CASE InfoHasDocs(r)
    <3>1. PICK n \in 0 .. MaxDocs : usable' = [usable EXCEPT ![r] = n]
      BY <2>3 DEF InfoHasDocs
    <3> QED
      BY <2>1, <2>3, <3>1 DEF InfoHasDocs, CountsFollowPhase, TypeOK
  <2> QED
    BY <1>5, <2>2, <2>3 DEF InfoAnswered
<1>6. ASSUME NEW r \in Request, LoadForAppend(r)
      PROVE  CountsFollowPhase'
  BY <1>1, <1>6 DEF LoadForAppend, appendVars
<1>7. ASSUME NEW r \in Request, StoreAppend(r)
      PROVE  CountsFollowPhase'
  <2>1. /\ phase[r] = "adding" /\ added' = [added EXCEPT ![r] = @ + 1]
        /\ UNCHANGED <<phase, usable>>
    BY <1>7 DEF StoreAppend
  <2> QED
    BY <2>1 DEF CountsFollowPhase, TypeOK
<1>8. ASSUME NEW r \in Request, RequestBookCovers(r)
      PROVE  CountsFollowPhase'
  BY <1>8 DEF RequestBookCovers, CountsFollowPhase, TypeOK, appendVars
<1>9. ASSUME NEW r \in Request, NEW book \in inFlight[r], CoverAnswered(r, book)
      PROVE  CountsFollowPhase'
  BY <1>1, <1>9 DEF CoverAnswered, appendVars
<1>10. ASSUME NEW r \in Request, StartDetermining(r)
       PROVE  CountsFollowPhase'
  BY <1>10 DEF StartDetermining, GroupIsEmpty, CountsFollowPhase, TypeOK, appendVars
<1>11. ASSUME NEW r \in Request, FinishDetermining(r)
       PROVE  CountsFollowPhase'
  BY <1>11 DEF FinishDetermining, CountsFollowPhase, TypeOK, appendVars
<1> QED
  BY <1>1, <1>2, <1>3, <1>4, <1>5, <1>6, <1>7, <1>8, <1>9, <1>10, <1>11
     DEF Next, URLTraps, CastTraps, DataRaceTraps, vars, appendVars

-----------------------------------------------------------------------------
(* The list of results *)

LEMMA EmptyFits == Fits(<< >>)
  BY DEF Fits, InBlocks, AddedSoFar, OpenBlockIsLast, CoveredOrAwaited

(* Every step but a store leaves a list as fit as it was. *)
LEMMA FitsStep ==
    ASSUME TypeOK, TimersInOrder, AppendIsAlone, CountsFollowPhase, [Next]_vars,
           \A r \in Request : ~StoreAppend(r),
           NEW list \in Seq(Book), Fits(list),
           loaded = << >> => list = bookResults
    PROVE  Fits(list)'
<1> USE DEF Fits
<1>a. /\ Len(list) \in Nat /\ DOMAIN list = 1 .. Len(list)
      /\ \A i \in DOMAIN list :
           list[i] \in Book /\ list[i][1] \in Request /\ list[i][2] \in 1 .. MaxDocs
  BY ListFacts
<1>b. InBlocks(list)'
  BY DEF InBlocks
<1>1. ASSUME UNCHANGED <<phase, added, covered, awaiting>>
      PROVE  Fits(list)'
  BY <1>1, <1>b DEF AddedSoFar, OpenBlockIsLast, CoveredOrAwaited
<1>2. ASSUME NEW text \in Texts \cup {Empty}, TextDidChange(text)
      PROVE  Fits(list)'
  BY <1>1, <1>2 DEF TextDidChange, appendVars, coverVars
<1>3. ASSUME NEW timer \in pending, BeginRequest(timer)
      PROVE  Fits(list)'
  <2> DEFINE r == Len(requests) + 1
  <2>1. r \in Request
    BY RequestsBounded
  <2>2. /\ phase' = [phase EXCEPT ![r] = "info"] /\ phase \in [Request -> Phase]
        /\ UNCHANGED <<added, covered, awaiting>>
    BY <1>3, <2>1 DEF BeginRequest, TypeOK, appendVars, coverVars
  <2>3. \A s \in Request :
          phase'[s] \in {"adding", "covers", "marking", "done"} => phase'[s] = phase[s]
    BY <2>1, <2>2
  <2> QED
    BY <1>a, <1>b, <2>2, <2>3 DEF AddedSoFar, OpenBlockIsLast, CoveredOrAwaited
<1>4. ASSUME Abort
      PROVE  Fits(list)'
  BY <1>1, <1>4 DEF Abort, appendVars, coverVars
<1>5. ASSUME NEW r \in Request, InfoAnswered(r)
      PROVE  Fits(list)'
  <2>1. added[r] = 0 /\ UNCHANGED <<added, covered, awaiting>>
    BY <1>5 DEF InfoAnswered, InfoUnusable, InfoEmpty, InfoHasDocs, CountsFollowPhase,
       appendVars, coverVars
  <2>2. \A i \in DOMAIN list : list[i][1] # r
    BY <1>a, <2>1 DEF AddedSoFar
  <2>3. \A s \in Request \ {r} : phase'[s] = phase[s]
    BY <1>5 DEF InfoAnswered, InfoUnusable, InfoEmpty, InfoHasDocs, TypeOK
  <2> QED
    BY <1>a, <1>b, <2>1, <2>2, <2>3 DEF AddedSoFar, OpenBlockIsLast, CoveredOrAwaited
<1>6. ASSUME NEW r \in Request, LoadForAppend(r)
      PROVE  Fits(list)'
  BY <1>1, <1>6 DEF LoadForAppend, appendVars, coverVars
<1>7. ASSUME NEW r \in Request, RequestBookCovers(r)
      PROVE  Fits(list)'
  <2>1. /\ phase[r] = "adding" /\ added[r] = usable[r]
        /\ phase' = [phase EXCEPT ![r] = "covers"]
        /\ awaiting' = [awaiting EXCEPT ![r] = BooksIn(bookResults)]
        /\ UNCHANGED <<added, covered>>
    BY <1>7 DEF RequestBookCovers, appendVars
  <2>2. list = bookResults
    BY <2>1 DEF AppendIsAlone, TypeOK
  <2>3. \A s \in Request \ {r} : phase'[s] = phase[s] /\ awaiting'[s] = awaiting[s]
    BY <2>1 DEF TypeOK
  <2>4. phase'[r] = "covers" /\ \A i \in DOMAIN list : list[i] \in awaiting'[r]
    BY <2>1, <2>2 DEF TypeOK, BooksIn
  <2>5. AddedSoFar(list)' /\ OpenBlockIsLast(list)'
    BY <1>a, <2>1, <2>3, <2>4 DEF AddedSoFar, OpenBlockIsLast
  <2>6. CoveredOrAwaited(list)'
    BY <1>a, <2>1, <2>3, <2>4 DEF CoveredOrAwaited
  <2> QED
    BY <1>b, <2>5, <2>6
<1>8. ASSUME NEW r \in Request, NEW book \in inFlight[r], CoverAnswered(r, book)
      PROVE  Fits(list)'
  <2>1. /\ UNCHANGED <<phase, added>> /\ covered \subseteq covered'
        /\ \A s \in Request : awaiting[s] \subseteq covered' \cup awaiting'[s]
    BY <1>8 DEF CoverAnswered, CoverArrives, CoverLost, TypeOK, appendVars
  <2> QED
    BY <1>a, <1>b, <2>1 DEF AddedSoFar, OpenBlockIsLast, CoveredOrAwaited
<1>9. ASSUME NEW r \in Request, StartDetermining(r)
      PROVE  Fits(list)'
  <2>1. /\ phase[r] = "covers" /\ awaiting[r] = {}
        /\ phase' = [phase EXCEPT ![r] = "marking"]
        /\ UNCHANGED <<added, covered, awaiting>>
    BY <1>9 DEF StartDetermining, GroupIsEmpty, appendVars, coverVars
  <2>2. phase'[r] = "marking" /\ \A s \in Request \ {r} : phase'[s] = phase[s]
    BY <2>1 DEF TypeOK
  <2> QED
    BY <1>a, <1>b, <2>1, <2>2 DEF AddedSoFar, OpenBlockIsLast, CoveredOrAwaited
<1>10. ASSUME NEW r \in Request, FinishDetermining(r)
       PROVE  Fits(list)'
  <2>1. /\ phase[r] = "marking" /\ phase' = [phase EXCEPT ![r] = "done"]
        /\ UNCHANGED <<added, covered, awaiting>>
    BY <1>10 DEF FinishDetermining, appendVars, coverVars
  <2>2. phase'[r] = "done" /\ \A s \in Request \ {r} : phase'[s] = phase[s]
    BY <2>1 DEF TypeOK
  <2> QED
    BY <1>a, <1>b, <2>1, <2>2 DEF AddedSoFar, OpenBlockIsLast, CoveredOrAwaited
<1> QED
  BY <1>1, <1>2, <1>3, <1>4, <1>5, <1>6, <1>7, <1>8, <1>9, <1>10
     DEF Next, URLTraps, CastTraps, DataRaceTraps, vars, appendVars, coverVars

(* A store adds the next book of its answer behind the others of it. *)
LEMMA AppendFits ==
    ASSUME TypeOK, AppendIsAlone, NEW r \in Request, StoreAppend(r),
           NEW list \in Seq(Book), Fits(list),
           NEW book \in Book, book = <<r, added[r] + 1>>,
           NEW longer, longer = Append(list, book)
    PROVE  Fits(longer)'
<1>1. /\ phase[r] = "adding" /\ added' = [added EXCEPT ![r] = @ + 1]
      /\ UNCHANGED <<phase, covered, awaiting>>
  BY DEF StoreAppend, coverVars
<1>2. added \in [Request -> 0 .. MaxDocs]
  BY DEF TypeOK
<1>3. /\ Len(list) \in Nat /\ DOMAIN list = 1 .. Len(list)
      /\ \A i \in DOMAIN list :
           list[i] \in Book /\ list[i][1] \in Request /\ list[i][2] \in 1 .. MaxDocs
  BY ListFacts
<1>4. /\ Len(longer) = Len(list) + 1 /\ DOMAIN longer = 1 .. Len(list) + 1
      /\ \A i \in 1 .. Len(list) : longer[i] = list[i]
      /\ longer[Len(list) + 1] = book
  BY AppendFacts
<1>5. book[1] = r /\ book[2] = added[r] + 1
  OBVIOUS
<1>6. added'[r] = added[r] + 1 /\ \A s \in Request \ {r} : added'[s] = added[s]
  BY <1>1, <1>2
<1>7. \A i \in 1 .. Len(list) :
        list[i][1] = r => list[i][2] = added[r] - (Len(list) - i)
  BY <1>1, <1>3 DEF Fits, OpenBlockIsLast
<1>8. InBlocks(longer)
  <2> SUFFICES ASSUME NEW i \in 1 .. Len(list) + 1, NEW j \in 1 .. Len(list) + 1,
                      i < j, longer[i][1] = longer[j][1]
               PROVE  longer[j][2] = longer[i][2] + (j - i)
    BY <1>4 DEF InBlocks
  <2>1. i \in 1 .. Len(list) /\ longer[i] = list[i]
    BY <1>3, <1>4
  <2>2. CASE j \in 1 .. Len(list)
    <3>1. longer[j] = list[j]
      BY <1>4, <2>2
    <3> QED
      BY <1>3, <2>1, <2>2, <3>1 DEF Fits, InBlocks
  <2>3. CASE j = Len(list) + 1
    BY <1>2, <1>3, <1>4, <1>5, <1>7, <2>1, <2>3
  <2> QED
    BY <1>3, <2>2, <2>3
<1>9. AddedSoFar(longer)'
  <2> SUFFICES ASSUME NEW i \in 1 .. Len(list) + 1
               PROVE  longer[i][2] <= added'[longer[i][1]]
    BY <1>4 DEF AddedSoFar
  <2>1. CASE i \in 1 .. Len(list)
    <3>1. longer[i] = list[i] /\ list[i][2] <= added[list[i][1]]
      BY <1>3, <1>4, <2>1 DEF Fits, AddedSoFar
    <3> QED
      BY <1>2, <1>3, <1>6, <2>1, <3>1
  <2>2. CASE i = Len(list) + 1
    BY <1>2, <1>4, <1>5, <1>6, <2>2
  <2> QED
    BY <1>3, <2>1, <2>2
<1>10. OpenBlockIsLast(longer)'
  <2> SUFFICES ASSUME NEW i \in 1 .. Len(list) + 1, phase[longer[i][1]] = "adding"
               PROVE  longer[i][2] = added'[longer[i][1]] - (Len(longer) - i)
    BY <1>1, <1>4 DEF OpenBlockIsLast
  <2>1. CASE i \in 1 .. Len(list) /\ list[i][1] = r
    BY <1>2, <1>3, <1>4, <1>6, <1>7, <2>1
  <2>2. CASE i \in 1 .. Len(list) /\ list[i][1] # r
    BY <1>1, <1>3, <1>4, <2>2 DEF AppendIsAlone
  <2>3. CASE i = Len(list) + 1
    BY <1>2, <1>3, <1>4, <1>5, <1>6, <2>3
  <2> QED
    BY <1>3, <2>1, <2>2, <2>3
<1>11. CoveredOrAwaited(longer)'
  <2> SUFFICES ASSUME NEW i \in 1 .. Len(list) + 1
               PROVE  LET s == longer[i][1]
                      IN  /\ phase[s] = "covers" => longer[i] \in covered \cup awaiting[s]
                          /\ phase[s] \in {"marking", "done"} => longer[i] \in covered
    BY <1>1, <1>4 DEF CoveredOrAwaited
  <2>1. CASE i \in 1 .. Len(list)
    BY <1>3, <1>4, <2>1 DEF Fits, CoveredOrAwaited
  <2>2. CASE i = Len(list) + 1
    BY <1>1, <1>4, <1>5, <2>2
  <2> QED
    BY <1>3, <2>1, <2>2
<1> QED
  BY <1>8, <1>9, <1>10, <1>11 DEF Fits, InBlocks

LEMMA ListsStep ==
    ASSUME TypeOK, TimersInOrder, AppendIsAlone, CountsFollowPhase, ListsFit,
           [Next]_vars
    PROVE  ListsFit'
<1>1. PICK list \in Seq(Book) : list = bookResults /\ Fits(list)
  BY DEF TypeOK, ListsFit
<1>2. PICK read \in Seq(Book) : loaded # << >> => read = loaded[1] /\ Fits(read)
  BY <1>1, LoadedIsList DEF ListsFit
<1>3. Fits(<< >>)'
  BY DEF Fits, InBlocks, AddedSoFar, OpenBlockIsLast, CoveredOrAwaited
<1>4. CASE \A r \in Request : ~StoreAppend(r)
  <2>1. Fits(list)' /\ (loaded # << >> => Fits(read)')
    BY <1>1, <1>2, <1>4, FitsStep, Zenon
  <2>2. bookResults' = list \/ bookResults' = << >>
    BY <1>1, <1>4 DEF Next, TextDidChange, BeginRequest, URLTraps, InfoAnswered,
       LoadForAppend, CastTraps, RequestBookCovers, CoverAnswered, StartDetermining,
       FinishDetermining, DataRaceTraps, Abort, vars, listVars
  <2>3. loaded' = loaded \/ loaded' = <<list>>
    BY <1>1, <1>4 DEF Next, TextDidChange, BeginRequest, URLTraps, InfoAnswered,
       LoadForAppend, CastTraps, RequestBookCovers, CoverAnswered, StartDetermining,
       FinishDetermining, DataRaceTraps, Abort, vars, listVars
  <2>4. Fits(bookResults)'
    BY <1>3, <2>1, <2>2 DEF Fits, InBlocks, AddedSoFar, OpenBlockIsLast,
       CoveredOrAwaited
  <2>5. CASE loaded' = loaded
    BY <1>2, <2>1, <2>4, <2>5 DEF ListsFit, Fits, InBlocks, AddedSoFar,
       OpenBlockIsLast, CoveredOrAwaited
  <2>6. CASE loaded' = <<list>>
    <3>1. loaded'[1] = list
      BY <2>6
    <3> QED
      BY <2>1, <2>4, <3>1 DEF ListsFit, Fits, InBlocks, AddedSoFar,
         OpenBlockIsLast, CoveredOrAwaited
  <2> QED
    BY <2>3, <2>5, <2>6
<1>5. ASSUME NEW r \in Request, StoreAppend(r)
      PROVE  ListsFit'
  <2>1. PICK book : book = <<r, added[r] + 1>>
    OBVIOUS
  <2>2. added[r] < usable[r] /\ loaded # << >>
    BY <1>5 DEF StoreAppend, AppendIsAlone
  <2>3. book \in Book
    <3>1. usable[r] \in 0 .. MaxDocs /\ added[r] \in 0 .. MaxDocs
      BY DEF TypeOK
    <3>2. added[r] + 1 \in 1 .. MaxDocs
      BY <2>2, <3>1, BookSearchAssumption
    <3> QED
      BY <2>1, <3>2 DEF Book
  <2>4. PICK longerRead : longerRead = Append(read, book)
    OBVIOUS
  <2>5. PICK longerList : longerList = Append(list, book)
    OBVIOUS
  <2>6. Fits(longerRead)'
    BY <1>2, <1>5, <2>1, <2>2, <2>3, <2>4, AppendFits
  <2>7. Fits(longerList)'
    BY <1>1, <1>5, <2>1, <2>3, <2>5, AppendFits
  <2>8. /\ \/ bookResults' = Append(loaded[1], <<r, added[r] + 1>>)
           \/ bookResults' = Append(bookResults, <<r, added[r] + 1>>)
           \/ torn /\ bookResults' = bookResults
        /\ loaded' = << >>
    BY <1>5 DEF StoreAppend
  <2>9. bookResults' = longerRead \/ bookResults' = longerList \/ bookResults' = << >>
    BY <1>1, <1>2, <2>1, <2>2, <2>4, <2>5, <2>8, Zenon DEF AppendIsAlone
  <2>10. Fits(bookResults)'
    BY <1>3, <2>6, <2>7, <2>9 DEF Fits, InBlocks, AddedSoFar, OpenBlockIsLast,
       CoveredOrAwaited
  <2> QED
    BY <2>8, <2>10 DEF ListsFit
<1> QED
  BY <1>4, <1>5

-----------------------------------------------------------------------------
(* A search that meets no other *)

LEMMA AloneStep ==
    ASSUME TypeOK, TimersInOrder, AppendIsAlone, CountsFollowPhase, LastIsAlone,
           [Next]_vars
    PROVE  LastIsAlone'
<1>m. overlapped => overlapped'
  <2>1. CASE \E timer \in pending : BeginRequest(timer)
    BY <2>1, Zenon DEF BeginRequest
  <2>2. CASE UNCHANGED overlapped
    BY <2>2
  <2> QED
    BY <2>1, <2>2 DEF Next, TextDidChange, URLTraps, InfoAnswered, LoadForAppend,
       StoreAppend, CastTraps, RequestBookCovers, CoverAnswered, StartDetermining,
       FinishDetermining, DataRaceTraps, Abort, vars
<1> SUFFICES ASSUME ~overlapped', ~overlapped
             PROVE  LastIsAlone'
  BY <1>m DEF LastIsAlone
<1> PICK last : last = Len(requests)
  OBVIOUS
<1>c. ASSUME NEW n, Len(requests') = n, OnlyActive(n)', ~torn',
             n = 0 => bookResults' = << >>,
             n > 0 => ListIsOf(n)' /\ MarksFollow(n)'
      PROVE  LastIsAlone'
  BY <1>c DEF LastIsAlone, OnlyActive, ListIsOf, MarksFollow
<1>a. /\ last \in Nat /\ last = Len(requests) /\ OnlyActive(last) /\ ~torn
      /\ last = 0 => bookResults = << >>
      /\ last > 0 => ListIsOf(last) /\ MarksFollow(last) /\ last \in Request
  BY RequestsBounded, BookSearchAssumption DEF LastIsAlone, Request
<1>b. \A r \in Request : Active(r) => r = last /\ last > 0
  BY <1>a DEF OnlyActive, Request
<1>1. ASSUME UNCHANGED <<requests, phase, added, bookResults, torn, awaiting, inFlight,
                         toMark, determined>>
      PROVE  LastIsAlone'
  BY <1>1, <1>a, <1>c DEF OnlyActive, Active, ListIsOf, MarksFollow, BooksIn
<1>2. ASSUME NEW text \in Texts \cup {Empty}, TextDidChange(text)
      PROVE  LastIsAlone'
  BY <1>1, <1>2 DEF TextDidChange, appendVars, listVars, coverVars, markVars
<1>3. ASSUME NEW timer \in pending, BeginRequest(timer)
      PROVE  LastIsAlone'
  <2> PICK r : r = Len(requests) + 1
    OBVIOUS
  <2>1. /\ r \in Request /\ requests \in Seq([timer : 1 .. MaxTimers, query : Texts])
        /\ [timer |-> timer, query |-> timers[Len(timers)]]
             \in [timer : 1 .. MaxTimers, query : Texts]
    BY RequestsBounded, WaitingTimer DEF TypeOK
  <2>2. Len(requests') = r
    BY <1>3, <2>1, AppendFacts DEF BeginRequest
  <2>3. /\ phase' = [phase EXCEPT ![r] = "info"]
        /\ bookResults' = << >> /\ torn' = (loaded # << >>)
        /\ UNCHANGED <<added, awaiting, inFlight>>
    BY <1>3 DEF BeginRequest, appendVars, coverVars
  <2>4. /\ phase[r] = "unused" /\ \A s \in Request : ~Active(s)
    <3>1. overlapped' = (overlapped \/ \E s \in Request : Active(s))
      BY <1>3, Zenon DEF BeginRequest
    <3>2. \A s \in Request : ~Active(s)
      BY <3>1, Zenon
    <3> QED
      BY <1>a, <2>1, <3>2 DEF TypeOK
  <2>8. ~torn'
    BY <2>3, <2>4 DEF AppendIsAlone, Active
  <2>5. OnlyActive(r)'
    BY <2>1, <2>3, <2>4 DEF OnlyActive, Active, TypeOK
  <2>6. added'[r] = 0 /\ phase'[r] = "info"
    BY <2>1, <2>3, <2>4 DEF CountsFollowPhase, TypeOK
  <2>7. bookResults' = [i \in 1 .. added'[r] |-> <<r, i>>]
    BY <2>3, <2>6
  <2> QED
    BY <1>a, <1>c, <2>2, <2>5, <2>6, <2>7, <2>8 DEF ListIsOf, MarksFollow
<1>4. ASSUME Abort
      PROVE  LastIsAlone'
  BY <1>1, <1>4 DEF Abort, appendVars, listVars, coverVars, markVars
<1>5. ASSUME NEW r \in Request, InfoAnswered(r)
      PROVE  LastIsAlone'
  <2>1. r = last /\ last > 0
    BY <1>5, <1>b DEF InfoAnswered, Active
  <2>2. /\ phase'[r] \in {"stuck", "noResults", "adding"}
        /\ \A s \in Request \ {r} : phase'[s] = phase[s]
        /\ UNCHANGED <<requests, added, bookResults, torn, awaiting, inFlight>>
    BY <1>5 DEF InfoAnswered, InfoUnusable, InfoEmpty, InfoHasDocs, TypeOK,
       appendVars, listVars, coverVars
  <2> QED
    BY <1>a, <1>c, <2>1, <2>2 DEF OnlyActive, Active, ListIsOf, MarksFollow
<1>6. ASSUME NEW r \in Request, LoadForAppend(r)
      PROVE  LastIsAlone'
  <2>1. /\ torn' = FALSE
        /\ UNCHANGED <<requests, phase, added, bookResults, awaiting, inFlight,
                       toMark, determined>>
    BY <1>6 DEF LoadForAppend, appendVars, coverVars, markVars
  <2>2. torn = FALSE
    BY <1>a, Zenon DEF TypeOK
  <2> QED
    BY <1>1, <2>1, <2>2
<1>7. ASSUME NEW r \in Request, StoreAppend(r)
      PROVE  LastIsAlone'
  <2>1. r = last /\ last > 0
    BY <1>7, <1>b DEF StoreAppend, Active
  <2>2. /\ phase[r] = "adding" /\ torn' = FALSE
        /\ bookResults' = Append(bookResults, <<r, added[r] + 1>>)
        /\ added' = [added EXCEPT ![r] = @ + 1]
        /\ UNCHANGED <<requests, phase, awaiting, inFlight>>
    BY <1>7, <1>a DEF StoreAppend, AppendIsAlone, coverVars
  <2>3. added[r] \in Nat /\ added'[r] = added[r] + 1
    BY <2>2 DEF TypeOK
  <2>4. bookResults = [i \in 1 .. added[r] |-> <<r, i>>]
    BY <1>a, <2>1 DEF ListIsOf
  <2>5. bookResults' = [i \in 1 .. added'[r] |-> <<r, i>>]
    BY <2>2, <2>3, <2>4
  <2> QED
    <3>1. OnlyActive(last)'
      BY <1>a, <2>1, <2>2, <2>3 DEF OnlyActive, Active
    <3>2. ListIsOf(last)' /\ MarksFollow(last)'
      BY <2>1, <2>2, <2>5 DEF ListIsOf, MarksFollow
    <3> QED
      BY <1>a, <1>c, <2>1, <2>2, <3>1, <3>2
<1>8. ASSUME NEW r \in Request, RequestBookCovers(r)
      PROVE  LastIsAlone'
  <2>1. r = last /\ last > 0
    BY <1>8, <1>b DEF RequestBookCovers, Active
  <2>2. /\ phase'[r] = "covers"
        /\ \A s \in Request \ {r} : /\ phase'[s] = phase[s]
                                    /\ awaiting'[s] = awaiting[s]
                                    /\ inFlight'[s] = inFlight[s]
        /\ UNCHANGED <<requests, added, bookResults, torn>>
    BY <1>8 DEF RequestBookCovers, TypeOK, appendVars, listVars
  <2> QED
    BY <1>a, <1>c, <2>1, <2>2 DEF OnlyActive, Active, ListIsOf, MarksFollow
<1>9. ASSUME NEW r \in Request, NEW book \in inFlight[r], CoverAnswered(r, book)
      PROVE  LastIsAlone'
  <2>1. /\ \A s \in Request \ {r} : awaiting'[s] = awaiting[s] /\ inFlight'[s] = inFlight[s]
        /\ UNCHANGED <<requests, phase, added, bookResults, torn, toMark, determined>>
    BY <1>9 DEF CoverAnswered, CoverArrives, CoverLost, TypeOK, appendVars, listVars,
       markVars
  <2>2. OnlyActive(last)'
    <3>1. phase[r] = "covers" => r = last
      BY <1>9, <1>b DEF CoverAnswered, Active
    <3> QED
      BY <1>a, <2>1, <3>1 DEF OnlyActive, Active
  <2> QED
    BY <1>a, <1>c, <2>1, <2>2 DEF ListIsOf, MarksFollow, BooksIn
<1>10. ASSUME NEW r \in Request, StartDetermining(r)
       PROVE  LastIsAlone'
  <2>1. r = last /\ last > 0
    BY <1>10, <1>b DEF StartDetermining, GroupIsEmpty, Active
  <2>2. /\ phase'[r] = "marking" /\ toMark'[r] = BooksIn(bookResults)
        /\ \A s \in Request \ {r} : phase'[s] = phase[s]
        /\ UNCHANGED <<requests, added, bookResults, torn, awaiting, inFlight>>
    BY <1>10 DEF StartDetermining, TypeOK, appendVars, listVars, coverVars
  <2> QED
    BY <1>a, <1>c, <2>1, <2>2 DEF OnlyActive, Active, ListIsOf, MarksFollow, BooksIn
<1>11. ASSUME NEW r \in Request, FinishDetermining(r)
       PROVE  LastIsAlone'
  <2>1. r = last /\ last > 0
    BY <1>11, <1>b DEF FinishDetermining, Active
  <2>2. /\ phase[r] = "marking" /\ phase'[r] = "done"
        /\ determined' = determined \cup toMark[r]
        /\ \A s \in Request \ {r} : phase'[s] = phase[s]
        /\ UNCHANGED <<requests, added, bookResults, torn, awaiting, inFlight>>
    BY <1>11 DEF FinishDetermining, TypeOK, appendVars, listVars, coverVars
  <2> QED
    BY <1>a, <1>c, <2>1, <2>2 DEF OnlyActive, Active, ListIsOf, MarksFollow, BooksIn
<1> QED
  BY <1>1, <1>2, <1>3, <1>4, <1>5, <1>6, <1>7, <1>8, <1>9, <1>10, <1>11
     DEF Next, URLTraps, CastTraps, DataRaceTraps, vars, appendVars, listVars,
         coverVars, markVars

-----------------------------------------------------------------------------

(* IInv holds in every reachable state of a search. *)
THEOREM InductiveInvariant == Spec => []IInv
<1>1. Init => IInv
  BY InitIInv
<1>2. IInv /\ [Next]_vars => IInv'
  BY TypeStep, TimersStep, AppendStep, CountsStep, ListsStep, AloneStep DEF IInv
<1> QED
  BY <1>1, <1>2, PTL DEF Spec

(* Every variable keeps its type, and no request has more documents         *)
(* appended than its answer holds, for any number of timers and documents.  *)
THEOREM TypeCorrect == Spec => []TypeOK
<1>1. IInv => TypeOK
  BY DEF IInv
<1> QED
  BY <1>1, InductiveInvariant, PTL

(* Each pause in the typing makes one request at most, for the text the     *)
(* pause came after, however long the typing goes on. *)
THEOREM OneRequest == Spec => []OneRequestPerText
<1>1. IInv => OneRequestPerText
  BY DEF IInv
<1> QED
  BY <1>1, InductiveInvariant, PTL

(* However many searches overlap, and whatever the race on bookResults did, *)
(* the books of one answer stand together, in order and each once. *)
THEOREM Blocks == Spec => []ResultsAreBlocks
<1>1. IInv => ResultsAreBlocks
  BY DEF IInv, ListsFit, Fits, InBlocks, ResultsAreBlocks
<1> QED
  BY <1>1, InductiveInvariant, PTL

(* A search that reports success has the covers of its books in the list. *)
THEOREM Covers == Spec => []CoversReady
<1>1. IInv => CoversReady
  BY DEF IInv, ListsFit, Fits, CoveredOrAwaited, CoversReady
<1> QED
  BY <1>1, InductiveInvariant, PTL

(* A search that meets no other leaves exactly the usable documents of its  *)
(* answer in the list, with covers and marks when it reports success. *)
THEOREM AloneIsExact == Spec => []AloneSearchIsExact
<1>1. ASSUME IInv
      PROVE  AloneSearchIsExact
  <2> SUFFICES ASSUME ~overlapped
               PROVE  AloneSearchIsExact
    BY DEF AloneSearchIsExact
  <2> DEFINE r == Len(requests)
  <2>1. /\ r \in Nat /\ r > 0 => r \in Request
    BY <1>1, RequestsBounded, BookSearchAssumption DEF IInv, Request
  <2>2. /\ r = 0 => bookResults = << >>
        /\ r > 0 => /\ bookResults = [i \in 1 .. added[r] |-> <<r, i>>]
                    /\ phase[r] = "done" => BooksIn(bookResults) \subseteq determined
    BY <1>1 DEF IInv, LastIsAlone, ListIsOf, MarksFollow
  <2>3. ASSUME r > 0, phase[r] = "done"
        PROVE  added[r] = usable[r] /\ BooksIn(bookResults) \subseteq covered
    <3>1. added[r] = usable[r]
      BY <1>1, <2>1, <2>3 DEF IInv, CountsFollowPhase
    <3>2. \A i \in DOMAIN bookResults : bookResults[i][1] = r
      BY <2>2, <2>3
    <3>3. \A i \in DOMAIN bookResults : bookResults[i] \in covered
      BY <1>1, <2>3, <3>2 DEF IInv, ListsFit, Fits, CoveredOrAwaited
    <3> QED
      BY <3>1, <3>3 DEF BooksIn
  <2> QED
    BY <2>1, <2>2, <2>3 DEF AloneSearchIsExact
<1> QED
  BY <1>1, InductiveInvariant, PTL

=============================================================================
