----------------------------- MODULE Notifiers -----------------------------
(***************************************************************************)
(* The change notifications of Realm's object store, the library that      *)
(* keeps the wishlist: RealmCoordinator, CollectionNotifier,               *)
(* NotifierPackage and the transactions of Realm.                          *)
(*                                                                         *)
(* Several Realm instances, each of one thread, share a coordinator and a  *)
(* file whose versions are numbered.  A notifier watches one collection    *)
(* for one Realm and has at most one callback here.  One worker thread     *)
(* advances the notifiers along the versions, computes what changed, and   *)
(* leaves the changes for the Realm's thread, which delivers them.         *)
(*                                                                         *)
(* A change is named by the version that made it: a callback is told of a  *)
(* set of versions.                                                        *)
(***************************************************************************)
EXTENDS Naturals, FiniteSets

CONSTANTS
    Realms, Notifiers,
    Listened,          \* the notifiers that are given callbacks
    NoRealm,           \* no Realm is in a write transaction
    MaxVersion,        \* bound: versions of the file
    Suppressing,       \* are commits made without notifying some tokens?
    CallbackWrites,    \* do callbacks start write transactions?
    Invalidating,      \* are read transactions given up?
    OpenFails          \* may the worker's SharedGroup fail to open?

ASSUME NotifiersAssumption ==
    /\ NoRealm \notin Realms
    /\ Listened \subseteq Notifiers
    /\ MaxVersion \in Nat \ {0}
    /\ {Suppressing, CallbackWrites, Invalidating, OpenFails} \subseteq BOOLEAN

VARIABLES
    latest,       \* the newest version of the file
    writer,       \* the Realm in a write transaction
    woken,        \* is there something to read in the named pipe?

    \* each Realm and its thread
    version,      \* version of its current or last read transaction
    inRead,       \* is it in a read transaction?
    pc,           \* what its thread is doing
    package,      \* its NotifierPackage
    signalled,    \* is notify() queued on its run loop?

    \* each notifier
    realmOf,      \* the Realm it is for
    ntf,          \* the notifier
    callback,     \* its callback

    \* the coordinator
    asyncError,   \* m_async_error
    pin,          \* version m_advancer_sg reads; 0: none
    opened,       \* is m_notifier_sg open?
    sgVersion,    \* version of m_notifier_sg
    skipVersion,  \* m_notifier_skip_version; 0: none

    \* its worker
    wpc,          \* what it is doing
    running,      \* its copy of m_notifiers
    starting,     \* the notifiers it runs for the first time
    skipTo,       \* the version it advances to first; 0: none
    runTo,        \* the version it advances to

    \* history
    asked,        \* tokens the transaction under way is not to notify
    misfits,      \* notifiers whose results met a Realm at another version
    jumped,       \* has the Realm moved or written without its notifiers?
    overwritten   \* has a commit replaced a skip version not yet used?

fileVars == <<latest, writer>>
realmVars == <<version, inRead, pc, package, signalled>>
ntfVars == <<realmOf, ntf, callback>>
groupVars == <<pin, opened, sgVersion>>
coordVars == <<asyncError, groupVars, skipVersion>>
workerVars == <<wpc, running, starting, skipTo, runTo>>
histVars == <<asked, misfits, jumped, overwritten>>
vars == <<fileVars, woken, realmVars, ntfVars, coordVars, workerVars, histVars>>

Version == 1 .. MaxVersion
Between(a, b) == (a + 1) .. b
Newer(a, b) == IF a >= b THEN a ELSE b

NoPackage == [caller |-> "none", notifiers |-> {}, target |-> 0,
              version |-> 0, error |-> FALSE]

NoCallback == [present |-> FALSE,      \* m_have_callbacks
               initial |-> FALSE,      \* initial_delivered
               skipNext |-> FALSE,     \* skip_next
               accumulated |-> {},     \* accumulated_changes
               toDeliver |-> {},       \* changes_to_deliver
               seen |-> {},            \* history: versions it was told of
               suppressed |-> {},      \* history: versions not to be told of
               dropped |-> {},         \* history: what its skip flag dropped
               base |-> 0,             \* history: version at its first call
               late |-> FALSE]         \* history: was it added while its notifier
                                       \* was run, but not yet handed over?

NewNotifier == [place |-> "none", alive |-> TRUE, version |-> 0,
                hasRun |-> FALSE, rows |-> 0, changes |-> {}]

In(where) == {n \in Notifiers : ntf[n].place = where}
Alive(ns) == {n \in ns : ntf[n].alive}

(* A Realm no notifier is made for has nothing to be told: of what it does, *)
(* only its write transactions matter. *)
Watches(r) == \E n \in Notifiers : realmOf[n] = r

(* notifiers_for_realm *)
NotifiersFor(r) ==
    {n \in Alive(In("new") \cup In("main")) : realmOf[n] = r}

Init ==
    /\ latest = 1 /\ writer = NoRealm /\ woken = FALSE
    /\ version = [r \in Realms |-> 1] /\ inRead = [r \in Realms |-> TRUE]
    /\ pc = [r \in Realms |-> "idle"]
    /\ package = [r \in Realms |-> NoPackage]
    /\ signalled = [r \in Realms |-> FALSE]
    /\ realmOf \in [Notifiers -> Realms]
    /\ ntf = [n \in Notifiers |-> NewNotifier]
    /\ callback = [n \in Notifiers |-> NoCallback]
    /\ asyncError = FALSE /\ pin = 0 /\ opened = FALSE
    /\ sgVersion = 0 /\ skipVersion = 0
    /\ wpc = "idle" /\ running = {} /\ starting = {}
    /\ skipTo = 0 /\ runTo = 0
    /\ asked = {}
    /\ misfits = {}
    /\ jumped = [r \in Realms |-> FALSE] /\ overwritten = FALSE

-----------------------------------------------------------------------------
(* The Realm's thread: notifiers and callbacks.  User code runs between the *)
(* calls of the library and inside the callbacks it makes. *)

UserCode(r) == pc[r] \in {"idle", "calling"}

(* Mutant of PinVersion: the pin is not moved back to an older version. *)
PinFirst(v) == pin' = IF In("new") = {} THEN v ELSE pin

PinVersion(v) == pin' = IF In("new") = {} \/ v < pin THEN v ELSE pin

(* The first notifier opens the SharedGroup that pins versions. *)
PinFails ==
    /\ OpenFails /\ \A n \in Notifiers : ntf[n].place = "none"
    /\ asyncError' = TRUE /\ UNCHANGED pin

RegisterNotifier(n) ==
    LET r == realmOf[n]
    IN  /\ UserCode(r) /\ inRead[r] /\ writer # r
        /\ ntf[n].place = "none"
        /\ ntf' = [ntf EXCEPT ![n].place = "new", ![n].version = version[r]]
        /\ \/ asyncError /\ UNCHANGED <<asyncError, pin>>
           \/ ~asyncError /\ PinVersion(version[r]) /\ UNCHANGED asyncError
           \/ ~asyncError /\ PinFails
        /\ UNCHANGED <<fileVars, woken, realmVars, realmOf, callback, opened,
                       sgVersion, skipVersion, workerVars, histVars>>

AddCallback(n) ==
    LET r == realmOf[n]
    IN  /\ UserCode(r) /\ writer # r
        /\ n \in NotifiersFor(r) \cap Listened /\ ~callback[n].present
        /\ callback' = [callback EXCEPT
             ![n].present = TRUE,
             ![n].late = n \in running /\ wpc \in {"skipped", "advanced"}]
        /\ woken' = TRUE
        /\ UNCHANGED <<fileVars, realmVars, realmOf, ntf, coordVars, workerVars,
                       histVars>>

Forget(ns) ==
    /\ callback' = [n \in Notifiers |-> IF n \in ns THEN NoCallback ELSE callback[n]]
    /\ asked' = asked \ ns

(* From any thread *)
RemoveCallback(n) ==
    /\ callback[n].present
    /\ Forget({n})
    /\ UNCHANGED <<fileVars, woken, realmVars, realmOf, ntf, coordVars,
                   workerVars, misfits, jumped, overwritten>>

(* The collection is let go; a callback would have kept it. *)
Unregister(n) ==
    LET r == realmOf[n]
    IN  /\ UserCode(r)
        /\ n \in NotifiersFor(r) /\ ~callback[n].present
        /\ ntf' = [ntf EXCEPT ![n].alive = FALSE]
        /\ UNCHANGED <<fileVars, woken, realmVars, realmOf, callback, coordVars,
                       workerVars, histVars>>

-----------------------------------------------------------------------------
(* The Realm's thread: packages.  Making one copies m_async_error, and      *)
(* package_and_wait then waits for the notifiers, if there are any. *)

MakePackage(r, why, v) ==
    package' = [package EXCEPT ![r] =
      [NoPackage EXCEPT !.caller = why, !.notifiers = NotifiersFor(r),
                        !.target = v, !.error = asyncError]]

(* Where the thread goes: an error or an empty package waits for nothing. *)
Wait(r) ==
    pc' = [pc EXCEPT ![r] =
      IF asyncError \/ NotifiersFor(r) = {} THEN "packaged" ELSE "waiting"]

Ready(r) ==
    \/ package[r].target = 0
    \/ \A n \in package[r].notifiers :
         callback[n].present => /\ ntf[n].hasRun
                                /\ ntf[n].version >= package[r].target

(* Mutant of PackageForDelivery: the changes are copied and stay. *)
PackageCopies(ns) ==
    callback' = [n \in Notifiers |->
      IF n \in ns /\ callback[n].present
      THEN [callback[n] EXCEPT !.toDeliver = callback[n].accumulated]
      ELSE callback[n]]

(* package_for_delivery, for each of ns *)
PackageForDelivery(ns) ==
    callback' = [n \in Notifiers |->
      IF n \in ns /\ callback[n].present
      THEN [callback[n] EXCEPT !.toDeliver = callback[n].accumulated,
                               !.accumulated = {}]
      ELSE callback[n]]

(* What has run is packaged, unless it is older than what was waited for. *)
PackageAndWait(r) ==
    LET ran == {n \in package[r].notifiers : ntf[n].hasRun}
    IN  /\ pc[r] \in {"waiting", "rechecking"}
        /\ Ready(r)
        /\ PackageForDelivery(ran)
        /\ \/ /\ \A n \in ran : ntf[n].version < package[r].target
              /\ package' = [package EXCEPT ![r].notifiers = {}]
           \/ \E n \in ran :
                /\ ntf[n].version >= package[r].target
                /\ package' = [package EXCEPT ![r].notifiers = ran,
                                              ![r].version = ntf[n].version]
        /\ pc' = [pc EXCEPT ![r] = "packaged"]
        /\ UNCHANGED <<fileVars, woken, version, inRead, signalled, realmOf, ntf,
                       coordVars, workerVars, histVars>>

(* wait_for_notifiers: the first time it finds nothing ready it wakes the   *)
(* worker; then it sleeps until the worker notifies the condition variable. *)
Sleep(r) ==
    /\ pc[r] \in {"waiting", "rechecking"}
    /\ ~Ready(r)
    /\ woken' = (woken \/ pc[r] = "waiting")
    /\ pc' = [pc EXCEPT ![r] = "asleep"]
    /\ UNCHANGED <<fileVars, version, inRead, package, signalled, ntfVars,
                   coordVars, workerVars, histVars>>

(* Mutant of Current: whatever has run is delivered, at whatever version. *)
CurrentIfRun(n, v, reading) == ntf[n].hasRun

Current(n, v, reading) == ntf[n].hasRun /\ (reading => ntf[n].version = v)

NewestOf(ns) == IF ns = {} THEN 0 ELSE CHOOSE v \in {ntf[n].version : n \in ns} :
                                         \A n \in ns : ntf[n].version <= v

(* process_available_async, for a Realm at version v: it packages what is   *)
(* ready for v, and only that. *)
ProcessAvailable(r, v, reading) ==
    LET ready == IF asyncError THEN NotifiersFor(r)
                 ELSE {n \in NotifiersFor(r) : Current(n, v, reading)}
    IN  /\ PackageForDelivery(IF asyncError THEN {} ELSE ready)
        /\ package' = [package EXCEPT ![r] =
             [NoPackage EXCEPT !.caller = "available", !.notifiers = ready,
                               !.version = NewestOf(ready), !.error = asyncError]]
        /\ pc' = [pc EXCEPT ![r] = IF ready = {} THEN "idle" ELSE "packaged"]

(* The callbacks of the package, the Realm now at v.  A package with the    *)
(* error tells it to the callbacks and removes them.  What a callback is    *)
(* first shown is the package's version, or its Realm's if that is newer:   *)
(* a Realm outside a read transaction takes what is there. *)
Deliver(r, v) ==
    LET ns == package[r].notifiers
        at == IF package[r].version = 0 THEN v ELSE package[r].version
        called == {n \in ns : /\ callback[n].present
                              /\ ~callback[n].initial \/ callback[n].toDeliver # {}}
    IN  IF package[r].error
        THEN Forget(ns) /\ UNCHANGED misfits
        ELSE /\ misfits' = misfits \cup {n \in ns : inRead[r] /\ at # v}
             /\ callback' = [n \in Notifiers |->
                  IF n \in called
                  THEN [callback[n] EXCEPT
                          !.seen = @ \cup callback[n].toDeliver,
                          !.toDeliver = {}, !.initial = TRUE,
                          !.base = IF callback[n].initial THEN @
                                   ELSE Newer(at, v)]
                  ELSE callback[n]]
             /\ UNCHANGED asked

(* advance_to_ready drops a package that is older than the Realm. *)
Discarded(r) ==
    /\ package[r].caller = "notify" /\ package[r].version # 0
    /\ package[r].version < version[r]

(* transaction::advance, transaction::begin: to the version of the package, *)
(* or the newest there is; what was packaged without a wait is for the      *)
(* version the Realm is at. *)
Advance(r) ==
    LET v == IF package[r].caller = "available" THEN version[r]
             ELSE IF package[r].caller = "write" \/ package[r].version = 0
             THEN latest ELSE package[r].version
    IN  /\ pc[r] = "packaged"
        /\ \/ /\ Discarded(r)
              /\ pc' = [pc EXCEPT ![r] = "idle"]
              /\ UNCHANGED <<version, callback, asked, misfits>>
           \/ /\ ~Discarded(r)
              /\ version' = [version EXCEPT ![r] = v]
              /\ Deliver(r, v)
              /\ pc' = [pc EXCEPT ![r] = "calling"]
        /\ package' = [package EXCEPT ![r] = NoPackage]
        /\ UNCHANGED <<fileVars, woken, inRead, signalled, realmOf, ntf, coordVars,
                       workerVars, jumped, overwritten>>

(* The callbacks return. *)
Return(r) ==
    /\ pc[r] = "calling"
    /\ pc' = [pc EXCEPT ![r] = "idle"]
    /\ UNCHANGED <<fileVars, woken, version, inRead, package, signalled, ntfVars,
                   coordVars, workerVars, histVars>>

-----------------------------------------------------------------------------
(* The Realm's thread: Realm::notify, refresh and transactions *)

(* The run loop calls notify().  In a write transaction it does nothing. *)
Notify(r) ==
    /\ signalled[r] /\ pc[r] = "idle"
    /\ signalled' = [signalled EXCEPT ![r] = FALSE]
    /\ \/ /\ writer = r
          /\ UNCHANGED <<pc, package, callback>>
       \/ /\ writer # r /\ (version[r] = latest \/ ~inRead[r])
          /\ ProcessAvailable(r, version[r], inRead[r])
       \/ /\ writer # r /\ version[r] # latest /\ inRead[r]
          /\ MakePackage(r, "notify", 0)
          /\ Wait(r)
          /\ UNCHANGED callback
    /\ UNCHANGED <<fileVars, woken, version, inRead, realmOf, ntf, coordVars,
                   workerVars, histVars>>

(* read_group(): a new read transaction is at the newest version. *)
ReadNewest(r) ==
    /\ version' = [version EXCEPT ![r] = latest]
    /\ inRead' = [inRead EXCEPT ![r] = TRUE]
    /\ jumped' = [jumped EXCEPT ![r] = @ \/ version[r] # latest]

BeginRead(r) ==
    /\ Watches(r) /\ UserCode(r) /\ ~inRead[r]
    /\ ReadNewest(r)
    /\ UNCHANGED <<fileVars, woken, pc, package, signalled, ntfVars, coordVars,
                   workerVars, asked, misfits, overwritten>>

(* advance_to_latest waits for the version that is the latest now. *)
Refresh(r) ==
    /\ Watches(r) /\ pc[r] = "idle" /\ writer # r
    /\ \/ /\ inRead[r]
          /\ MakePackage(r, "refresh", latest)
          /\ Wait(r)
          /\ UNCHANGED <<version, inRead, callback, jumped>>
       \/ /\ ~inRead[r]
          /\ ReadNewest(r)
          /\ ProcessAvailable(r, latest, TRUE)
    /\ UNCHANGED <<fileVars, woken, signalled, realmOf, ntf, coordVars, workerVars,
                   asked, misfits, overwritten>>

(* begin_transaction: the write lock is held while it waits. *)
BeginTransaction(r) ==
    /\ pc[r] = "idle" /\ writer = NoRealm /\ latest < MaxVersion
    /\ writer' = r
    /\ MakePackage(r, "write", latest)
    /\ Wait(r)
    /\ \/ inRead[r] /\ UNCHANGED <<version, inRead, jumped>>
       \/ ~inRead[r] /\ ReadNewest(r)
    /\ UNCHANGED <<latest, woken, signalled, ntfVars, coordVars, workerVars,
                   asked, misfits, overwritten>>

(* The same from a callback: no notifier is waited for or told. *)
BeginInCallback(r) ==
    /\ CallbackWrites
    /\ pc[r] = "calling" /\ writer = NoRealm /\ inRead[r]
    /\ latest < MaxVersion
    /\ writer' = r
    /\ version' = [version EXCEPT ![r] = latest]
    /\ jumped' = [jumped EXCEPT ![r] = TRUE]
    /\ UNCHANGED <<latest, woken, inRead, pc, package, signalled, ntfVars,
                   coordVars, workerVars, asked, misfits, overwritten>>

(* suppress_next_notification, by commitWriteTransactionWithoutNotifying *)
SuppressNext(n) ==
    /\ Suppressing
    /\ writer = realmOf[n] /\ UserCode(writer)
    /\ callback[n].present
    /\ callback' = [callback EXCEPT ![n].skipNext = TRUE]
    /\ asked' = asked \cup {n}
    /\ UNCHANGED <<fileVars, woken, realmVars, realmOf, ntf, coordVars, workerVars,
                   misfits, jumped, overwritten>>

(* Mutant of SkipVersion: the worker is not told to stop at the commit. *)
NoSkipVersion(r, v) == UNCHANGED <<skipVersion, overwritten>>

(* Under the notifier mutex: the worker is to stop at this commit if the    *)
(* Realm has notifiers, so that the flags drop its changes and no others. *)
SkipVersion(r, v) ==
    \/ /\ \E n \in Alive(In("main")) : realmOf[n] = r
       /\ skipVersion' = v
       /\ overwritten' = (overwritten \/ skipVersion # 0)
    \/ /\ ~\E n \in Alive(In("main")) : realmOf[n] = r
       /\ UNCHANGED <<skipVersion, overwritten>>

Commit(r) ==
    LET v == latest + 1
    IN  /\ writer = r /\ UserCode(r)
        /\ latest' = v /\ writer' = NoRealm
        /\ version' = [version EXCEPT ![r] = v]
        /\ SkipVersion(r, v)
        /\ callback' = [n \in Notifiers |->
             IF n \in asked THEN [callback[n] EXCEPT !.suppressed = @ \cup {v}]
             ELSE callback[n]]
        /\ asked' = {}
        /\ woken' = TRUE
        /\ UNCHANGED <<inRead, pc, package, signalled, realmOf, ntf, asyncError,
                       groupVars, workerVars, misfits, jumped>>

CancelTransaction(r) ==
    /\ writer = r /\ UserCode(r) /\ asked = {}
    /\ writer' = NoRealm
    /\ UNCHANGED <<latest, woken, realmVars, ntfVars, coordVars, workerVars,
                   histVars>>

(* invalidate() does nothing while notifications are sent. *)
Invalidate(r) ==
    /\ Invalidating
    /\ Watches(r) /\ pc[r] = "idle" /\ inRead[r] /\ asked = {}
    /\ writer' = IF writer = r THEN NoRealm ELSE writer
    /\ inRead' = [inRead EXCEPT ![r] = FALSE]
    /\ UNCHANGED <<latest, woken, version, pc, package, signalled, ntfVars,
                   coordVars, workerVars, histVars>>

-----------------------------------------------------------------------------
(* The worker: on_change, called whenever the pipe can be read.  It takes   *)
(* the mutex, advances the notifiers without it, and takes it again for     *)
(* each handover. *)

(* The notifiers after clean_up_dead_notifiers *)
CleanedUp(n) == IF ntf[n].alive THEN ntf[n] ELSE [ntf[n] EXCEPT !.place = "gone"]

(* Mutant of SignalRealms: no run loop is signalled. *)
SignalNobody == UNCHANGED signalled

SignalRealms == signalled' = [r \in Realms |-> Watches(r)]

(* Nothing to run. *)
WorkerIdles ==
    /\ Alive(In("main") \cup In("new")) = {}
    /\ ntf' = [n \in Notifiers |-> CleanedUp(n)]
    /\ pin' = 0
    /\ skipVersion' = IF In("main") = {} THEN skipVersion ELSE 0
    /\ SignalRealms
    /\ UNCHANGED <<asyncError, opened, sgVersion, workerVars>>

(* The new notifiers are kept, to be told the error by their Realms. *)
WorkerFails ==
    /\ Alive(In("main") \cup In("new")) # {}
    /\ asyncError \/ (OpenFails /\ ~opened)
    /\ asyncError' = TRUE
    /\ ntf' = [n \in Notifiers |->
         IF n \in Alive(In("new")) THEN [ntf[n] EXCEPT !.place = "main"]
         ELSE CleanedUp(n)]
    /\ SignalRealms
    /\ UNCHANGED <<groupVars, skipVersion, workerVars>>

(* Mutant of TakeSkipVersion: the skip version is used and not reset. *)
KeepSkipVersion(olds) ==
    /\ skipTo' = IF olds = {} THEN 0 ELSE skipVersion
    /\ skipVersion' = skipTo'

TakeSkipVersion(olds) ==
    /\ skipTo' = IF olds = {} THEN 0 ELSE skipVersion
    /\ skipVersion' = 0

(* New notifiers are advanced to the newest version, the others are to be,  *)
(* after a stop at the skip version if there is one. *)
WorkerBegins ==
    LET olds == Alive(In("main"))  news == Alive(In("new"))
    IN  /\ olds \cup news # {} /\ ~asyncError
        /\ running' = olds /\ starting' = news
        /\ ntf' = [n \in Notifiers |->
             IF n \in news THEN [ntf[n] EXCEPT !.place = "main"] ELSE CleanedUp(n)]
        /\ opened' = TRUE /\ pin' = 0
        /\ sgVersion' = IF opened /\ olds # {} THEN sgVersion ELSE latest
        /\ TakeSkipVersion(olds)
        /\ runTo' = latest
        /\ wpc' = IF skipTo' = 0 THEN "advancing" ELSE "skipping"
        /\ UNCHANGED <<asyncError, signalled>>

OnChange ==
    /\ wpc = "idle" /\ woken
    /\ woken' = FALSE
    /\ WorkerIdles \/ WorkerFails \/ WorkerBegins
    /\ UNCHANGED <<fileVars, version, inRead, pc, package, realmOf, callback,
                   histVars>>

(* run() of the notifiers ns, m_notifier_sg going to v: the rows are found   *)
(* anew for a notifier that has a callback or is new, and for another if    *)
(* its Results still want them; and what changed since the rows were found  *)
(* last, for one that ran before and has a callback now. *)
Run(ns, v) ==
    /\ \E wanted \in SUBSET {n \in ns : ~callback[n].present} :
         ntf' = [n \in Notifiers |->
           IF n \in ns /\ (callback[n].present \/ n \in wanted \cup starting)
           THEN [ntf[n] EXCEPT
                   !.rows = v,
                   !.changes = IF ntf[n].hasRun /\ callback[n].present
                               THEN Between(ntf[n].rows, v) ELSE {}]
           ELSE ntf[n]]
    /\ sgVersion' = v

(* clean_up_dead_notifiers follows the last handover only. *)
Tidied(n) == IF wpc = "advanced" THEN CleanedUp(n) ELSE ntf[n]

(* Mutant of AddChanges: the changes replace those that wait. *)
ReplaceChanges(c, changes) ==
    IF c.skipNext
    THEN [c EXCEPT !.skipNext = FALSE, !.dropped = @ \cup changes]
    ELSE [c EXCEPT !.accumulated = changes]

(* add_changes: a skip flag that is set drops the changes, and is cleared. *)
AddChanges(c, changes) ==
    IF c.skipNext
    THEN [c EXCEPT !.skipNext = FALSE, !.dropped = @ \cup changes]
    ELSE [c EXCEPT !.accumulated = @ \cup changes]

(* Mutant of ToHandOver: one that found no change is left as it is. *)
Changed(ns) == {n \in ns : ~ntf[n].hasRun \/ ntf[n].changes # {}}

ToHandOver(ns) == ns

(* prepare_handover() of the notifiers ns, under the mutex *)
HandOver(ns) ==
    /\ ntf' = [n \in Notifiers |->
         IF n \in ToHandOver(ns)
         THEN [Tidied(n) EXCEPT !.version = sgVersion,
                                !.hasRun = TRUE, !.changes = {}]
         ELSE Tidied(n)]
    /\ callback' = [n \in Notifiers |->
         IF n \in ToHandOver(ns) /\ callback[n].present
         THEN AddChanges(callback[n], ntf[n].changes) ELSE callback[n]]

RunToSkip ==
    /\ wpc = "skipping"
    /\ Run(running, skipTo)
    /\ wpc' = "skipped"
    /\ UNCHANGED <<fileVars, woken, realmVars, realmOf, callback, asyncError, pin,
                   opened, skipVersion, running, starting, skipTo, runTo, histVars>>

HandOverSkipped ==
    /\ wpc = "skipped"
    /\ HandOver(running)
    /\ wpc' = "advancing"
    /\ UNCHANGED <<fileVars, woken, realmVars, realmOf, coordVars, running,
                   starting, skipTo, runTo, histVars>>

RunToNewest ==
    /\ wpc = "advancing"
    /\ Run(running \cup starting, runTo)
    /\ wpc' = "advanced"
    /\ UNCHANGED <<fileVars, woken, realmVars, realmOf, callback, asyncError, pin,
                   opened, skipVersion, running, starting, skipTo, runTo, histVars>>

(* Mutant of WakeWaiting: notify_all is left out. *)
WakeNobody == UNCHANGED pc

(* m_notifier_cv.notify_all *)
WakeWaiting ==
    pc' = [r \in Realms |-> IF pc[r] = "asleep" THEN "rechecking" ELSE pc[r]]

(* The waiting threads are woken, and the Realms are signalled. *)
HandOverNewest ==
    /\ wpc = "advanced"
    /\ HandOver(running \cup starting)
    /\ WakeWaiting
    /\ SignalRealms
    /\ wpc' = "idle" /\ running' = {} /\ starting' = {}
    /\ skipTo' = 0 /\ runTo' = 0
    /\ pin' = IF Alive(In("new")) = {} THEN 0 ELSE pin
    /\ skipVersion' = IF Alive(In("main")) = {} THEN 0 ELSE skipVersion
    /\ UNCHANGED <<fileVars, woken, version, inRead, package, realmOf, asyncError,
                   opened, sgVersion, histVars>>

-----------------------------------------------------------------------------

RealmStep(r) ==
    \/ PackageAndWait(r) \/ Sleep(r) \/ Advance(r) \/ Return(r)
    \/ Notify(r) \/ BeginRead(r) \/ Refresh(r)
    \/ BeginTransaction(r) \/ BeginInCallback(r)
    \/ Commit(r) \/ CancelTransaction(r) \/ Invalidate(r)

NotifierStep(n) ==
    \/ RegisterNotifier(n) \/ AddCallback(n) \/ RemoveCallback(n)
    \/ Unregister(n) \/ SuppressNext(n)

WorkerStep ==
    \/ OnChange
    \/ RunToSkip \/ HandOverSkipped \/ RunToNewest \/ HandOverNewest

Next ==
    \/ \E r \in Realms : RealmStep(r)
    \/ \E n \in Notifiers : NotifierStep(n)
    \/ WorkerStep

Spec == Init /\ [][Next]_vars

(* The worker's thread runs; so does the thread of a Realm inside a call of *)
(* the library, and its run loop calls what is queued on it. *)
Fairness ==
    /\ WF_vars(WorkerStep)
    /\ \A r \in Realms :
         /\ WF_vars(PackageAndWait(r) \/ Sleep(r) \/ Advance(r) \/ Return(r))
         /\ WF_vars(Notify(r))

FairSpec == Spec /\ Fairness

-----------------------------------------------------------------------------
(* Properties *)

(* Every variable keeps its type, no Realm or notifier is ahead of the      *)
(* file, and the worker never goes back. *)
TypeOK ==
    /\ latest \in Version /\ writer \in Realms \cup {NoRealm}
    /\ woken \in BOOLEAN
    /\ version \in [Realms -> 1 .. latest] /\ inRead \in [Realms -> BOOLEAN]
    /\ pc \in [Realms -> {"idle", "waiting", "asleep", "rechecking",
                          "packaged", "calling"}]
    /\ package \in [Realms ->
         [caller : {"none", "notify", "refresh", "write", "available"},
          notifiers : SUBSET Notifiers, target : 0 .. latest,
          version : 0 .. latest, error : BOOLEAN]]
    /\ signalled \in [Realms -> BOOLEAN]
    /\ realmOf \in [Notifiers -> Realms]
    /\ ntf \in [Notifiers -> [place : {"none", "new", "main", "gone"},
                              alive : BOOLEAN, version : 0 .. latest,
                              hasRun : BOOLEAN, rows : 0 .. latest,
                              changes : SUBSET (2 .. latest)]]
    /\ callback \in [Notifiers ->
         [present : BOOLEAN, initial : BOOLEAN, skipNext : BOOLEAN,
          accumulated : SUBSET (2 .. latest), toDeliver : SUBSET (2 .. latest),
          seen : SUBSET (2 .. latest), suppressed : SUBSET (2 .. latest),
          dropped : SUBSET (2 .. latest), base : 0 .. latest, late : BOOLEAN]]
    /\ asyncError \in BOOLEAN /\ opened \in BOOLEAN
    /\ {pin, sgVersion, skipVersion, skipTo, runTo} \subseteq 0 .. latest
    /\ wpc \in {"idle", "skipping", "skipped", "advancing", "advanced"}
    /\ wpc # "idle" => sgVersion <= runTo
    /\ wpc = "skipping" => sgVersion <= skipTo /\ skipTo <= runTo
    /\ running \cup starting \subseteq In("main")
    /\ asked \subseteq Notifiers
    /\ misfits \subseteq Notifiers
    /\ jumped \in [Realms -> BOOLEAN] /\ overwritten \in BOOLEAN

(* A new notifier holds objects of the version it was made at, and the      *)
(* coordinator keeps that version or an older one readable until the worker *)
(* has taken them over, whatever is registered and let go in the meantime. *)
HandoverIsPinned ==
    ~asyncError => \A n \in Alive(In("new")) : pin \in 1 .. ntf[n].version

(* All notifiers that have run are at one version whenever a thread may     *)
(* look, so that a package has one version. *)
RunNotifiersAgree ==
    \A m, n \in Alive(In("main")) :
      ntf[m].hasRun /\ ntf[n].hasRun => ntf[m].version = ntf[n].version

(* Results computed by the worker are imported by a Realm at exactly the    *)
(* version they were computed for. *)
PayloadFits == misfits = {}

(* From its first call on a callback is told of every version its notifier  *)
(* has come to, or will be: nothing is lost between the worker and the      *)
(* Realm's thread, however commits, packages and callbacks interleave,      *)
(* unless the Realm moved on without its notifiers, or the callback was     *)
(* added while the worker had run its notifier for nobody. *)
NothingLost ==
    \A n \in Notifiers :
      LET c == callback[n]
      IN  c.initial /\ ~c.late /\ ~jumped[realmOf[n]] =>
            Between(c.base, ntf[n].version) \subseteq
              c.seen \cup c.toDeliver \cup c.accumulated \cup c.dropped

(* No change is told twice, or told after it was dropped. *)
ToldOnce ==
    \A n \in Notifiers :
      LET c == callback[n]
      IN  /\ c.seen \cap (c.toDeliver \cup c.accumulated) = {}
          /\ c.toDeliver \cap c.accumulated = {}
          /\ c.dropped \cap (c.seen \cup c.toDeliver \cup c.accumulated) = {}

(* What a skip flag drops was made by the commits it was set for, as long   *)
(* as no other commit takes the place of the skip version before the worker *)
(* has used it, and the Realm waited for its notifiers before it wrote. *)
DropsItsOwn ==
    \A n \in Notifiers :
      LET c == callback[n]
      IN  c.initial /\ ~c.late /\ ~overwritten /\ ~jumped[realmOf[n]] =>
            \A v \in c.dropped \ c.suppressed : v <= c.base

(* A refresh ends, and so does the wait of a write transaction for its      *)
(* notifiers, unless the worker cannot open the file. *)
WaitsEnd ==
    \A r \in Realms :
      pc[r] \in {"waiting", "asleep"} ~> pc[r] = "packaged" \/ asyncError

(* A callback is called for the first time, and is told of every version    *)
(* since, unless it is removed, its Realm is in a write transaction or has  *)
(* moved without its notifiers, or the worker cannot open the file. *)
CallbackCatchesUp ==
    \A n \in Notifiers, v \in Version :
      LET r == realmOf[n]
          c == callback[n]
          other == ~c.present \/ c.late \/ writer = r \/ jumped[r] \/ asyncError
      IN  c.present /\ latest = v ~>
            \/ c.initial /\ version[r] >= v
               /\ Between(c.base, v) \subseteq c.seen \cup c.dropped
            \/ other
=============================================================================
