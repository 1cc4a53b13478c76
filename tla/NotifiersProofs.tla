-------------------------- MODULE NotifiersProofs --------------------------
(* Proofs about Notifiers. *)
EXTENDS Notifiers, NaturalsInduction, WellFoundedInduction, TLAPS

(* The types of a package, a notifier and a callback when the newest        *)
(* version of the file is k *)
PackageT(k) == [caller : {"none", "notify", "refresh", "write", "available"},
                notifiers : SUBSET Notifiers, target : 0 .. k,
                version : 0 .. k, error : BOOLEAN]

NotifierT(k) == [place : {"none", "new", "main", "gone"}, alive : BOOLEAN,
                 version : 0 .. k, hasRun : BOOLEAN, rows : 0 .. k,
                 changes : SUBSET (2 .. k)]

CallbackT(k) == [present : BOOLEAN, initial : BOOLEAN, skipNext : BOOLEAN,
                 accumulated : SUBSET (2 .. k), toDeliver : SUBSET (2 .. k),
                 seen : SUBSET (2 .. k), suppressed : SUBSET (2 .. k),
                 dropped : SUBSET (2 .. k), base : 0 .. k, late : BOOLEAN]

(* A file with more versions has all the versions it had. *)
LEMMA TypesGrow ==
    ASSUME NEW k \in Nat, NEW l \in Nat, k <= l
    PROVE  /\ PackageT(k) \subseteq PackageT(l)
           /\ NotifierT(k) \subseteq NotifierT(l)
           /\ CallbackT(k) \subseteq CallbackT(l)
<1>1. 0 .. k \subseteq 0 .. l /\ SUBSET (2 .. k) \subseteq SUBSET (2 .. l)
  OBVIOUS
<1>2. PackageT(k) \subseteq PackageT(l)
  BY <1>1 DEF PackageT
<1>3. NotifierT(k) \subseteq NotifierT(l)
  BY <1>1 DEF NotifierT
<1>4. CallbackT(k) \subseteq CallbackT(l)
  BY <1>1 DEF CallbackT
<1> QED
  BY <1>2, <1>3, <1>4

(* A set of numbers up to k has a greatest element. *)
LEMMA GreatestOf ==
    ASSUME NEW k \in Nat, NEW S \in SUBSET (0 .. k), S # {}
    PROVE  \E x \in S : \A y \in S : y <= x
<1> DEFINE T == {k - y : y \in S}
<1>1. T \subseteq Nat /\ T # {}
  <2>1. \A y \in S : k - y \in Nat
    OBVIOUS
  <2>2. PICK y \in S : TRUE
    OBVIOUS
  <2>3. k - y \in T
    OBVIOUS
  <2> QED
    BY <2>1, <2>3
<1>2. PICK t \in T : \A u \in T : ~(<<u, t>> \in OpToRel(<, Nat))
  BY <1>1, WFMin, NatLessThanWellFounded, Zenon
<1>3. \A u \in T : t <= u
  <2> SUFFICES ASSUME NEW u \in T PROVE t <= u
    OBVIOUS
  <2>1. ~(u < t)
    BY <1>1, <1>2, Zenon DEF OpToRel
  <2> QED
    BY <1>1, <2>1
<1>4. PICK x \in S : t = k - x
  OBVIOUS
<1>5. \A y \in S : k - x <= k - y
  BY <1>3, <1>4
<1> QED
  BY <1>5

LEMMA NewestOfType ==
    ASSUME NEW ns \in SUBSET Notifiers, NEW k \in Nat,
           \A n \in ns : ntf[n].version \in 0 .. k
    PROVE  /\ NewestOf(ns) \in 0 .. k
           /\ ns # {} => /\ NewestOf(ns) \in {ntf[n].version : n \in ns}
                         /\ \A n \in ns : ntf[n].version <= NewestOf(ns)
<1> DEFINE S == {ntf[n].version : n \in ns}
<1>1. CASE ns = {}
  BY <1>1 DEF NewestOf
<1>2. CASE ns # {}
  <2>1. S \in SUBSET (0 .. k) /\ S # {}
    BY <1>2
  <2>2. \E v \in S : \A y \in S : y <= v
    BY <2>1, GreatestOf
  <2>3. \E v \in S : \A n \in ns : ntf[n].version <= v
    BY <2>2
  <2>4. /\ NewestOf(ns) \in S
        /\ \A n \in ns : ntf[n].version <= NewestOf(ns)
    BY <1>2, <2>3 DEF NewestOf
  <2> QED
    BY <1>2, <2>1, <2>4
<1> QED
  BY <1>1, <1>2

-----------------------------------------------------------------------------
(* Types, the worker and its notifiers *)

(* Has the worker run n since its last handover? *)
RanNow(n) == \/ wpc = "skipped" /\ n \in running
             \/ wpc = "advanced" /\ n \in running \cup starting

WorkerInv ==
    /\ writer # NoRealm => latest < MaxVersion
    /\ wpc = "idle" => running = {} /\ starting = {}
    /\ wpc # "idle" => /\ ~asyncError
                       /\ runTo >= 1
                       /\ running \cup starting # {}
                       /\ Alive(In("main")) \subseteq running \cup starting
    /\ running \cap starting = {}
    /\ wpc \in {"skipping", "skipped"} => skipTo \in 1 .. runTo
    /\ wpc = "skipped" => sgVersion = skipTo
    /\ wpc = "advanced" => sgVersion = runTo
    /\ skipVersion # 0 => /\ sgVersion <= skipVersion
                          /\ wpc # "idle" => runTo < skipVersion
    /\ ~asyncError /\ Alive(In("main")) # {} => opened

(* What a notifier has run, and when *)
HistoryOf(n) ==
    /\ ntf[n].place \in {"none", "new"} \/ n \in starting => ~ntf[n].hasRun
    /\ n \in running => ntf[n].hasRun
    /\ ntf[n].place = "main" /\ ntf[n].alive /\ ~asyncError =>
         ntf[n].hasRun \/ n \in starting
    /\ ntf[n].hasRun => /\ ntf[n].version \in 1 .. sgVersion
                        /\ ntf[n].rows >= 1
                        /\ ~RanNow(n) => ntf[n].rows <= ntf[n].version
    /\ n \in starting /\ wpc = "advanced" => ntf[n].rows = sgVersion
    /\ ntf[n].rows <= sgVersion
    /\ ~ntf[n].hasRun => ntf[n].changes = {}
    /\ ntf[n].changes \subseteq 1 .. ntf[n].rows

(* A notifier with a callback is alive; one without has no history of one. *)
CallbackOf(n) ==
    /\ callback[n].present => /\ ntf[n].alive
                              /\ ntf[n].place \in {"new", "main"}
    /\ ~callback[n].present => callback[n] = NoCallback
    /\ n \in asked => callback[n].present

NotifierInv == \A n \in Notifiers : HistoryOf(n) /\ CallbackOf(n)

BasicInv == TypeOK /\ WorkerInv /\ NotifierInv

LEMMA BasicInit == Init => BasicInv
<1> SUFFICES ASSUME Init PROVE BasicInv
  OBVIOUS
<1>1. \A r \in Realms : package[r] = NoPackage
  BY DEF Init
<1>2. \A n \in Notifiers : ntf[n] = NewNotifier /\ callback[n] = NoCallback
  BY DEF Init
<1>3. In("main") = {}
  BY <1>2 DEF In, NewNotifier
<1>4. TypeOK
  <2>1. NoPackage \in PackageT(1)
    BY DEF NoPackage, PackageT
  <2>2. NewNotifier \in NotifierT(1)
    BY DEF NewNotifier, NotifierT
  <2>3. NoCallback \in CallbackT(1)
    BY DEF NoCallback, CallbackT
  <2>4. /\ package \in [Realms -> PackageT(latest)]
        /\ ntf \in [Notifiers -> NotifierT(latest)]
        /\ callback \in [Notifiers -> CallbackT(latest)]
    BY <2>1, <2>2, <2>3 DEF Init
  <2>5. latest \in Version /\ In("main") = {}
    BY NotifiersAssumption, <1>3 DEF Init, Version
  <2>6. {pin, sgVersion, skipVersion, skipTo, runTo} \subseteq 0 .. latest
    BY <2>5 DEF Init
  <2>7. /\ version \in [Realms -> 1 .. latest]
        /\ jumped \in [Realms -> BOOLEAN] /\ inRead \in [Realms -> BOOLEAN]
        /\ signalled \in [Realms -> BOOLEAN]
        /\ pc \in [Realms -> {"idle", "waiting", "asleep", "rechecking",
                             "packaged", "calling"}]
    BY <2>5 DEF Init
  <2> QED
    BY <2>4, <2>5, <2>6, <2>7 DEF Init, TypeOK, PackageT, NotifierT, CallbackT
<1>5. WorkerInv
  BY NotifiersAssumption, <1>3 DEF Init, WorkerInv, Alive
<1>6. NotifierInv
  BY <1>2
     DEF Init, NotifierInv, HistoryOf, CallbackOf, RanNow, NewNotifier, NoCallback
<1> QED
  BY <1>4, <1>5, <1>6 DEF BasicInv

(* What MakePackage, ProcessAvailable and Deliver leave *)
LEMMA PackageMade ==
    ASSUME NEW k \in Nat, NEW ns \in SUBSET Notifiers, NEW e \in BOOLEAN,
           NEW why \in {"notify", "refresh", "write", "available"},
           NEW v \in 0 .. k
    PROVE  /\ [NoPackage EXCEPT !.caller = why, !.notifiers = ns,
                               !.target = v, !.error = e] \in PackageT(k)
           /\ [NoPackage EXCEPT !.caller = why, !.notifiers = ns,
                               !.version = v, !.error = e] \in PackageT(k)
<1>1. 0 \in 0 .. k
  OBVIOUS
<1>2. NoPackage \in PackageT(k)
  BY <1>1 DEF NoPackage, PackageT
<1>3. PICK p \in PackageT(k) : p = NoPackage
  BY <1>2
<1>4. /\ [p EXCEPT !.caller = why, !.notifiers = ns,
                  !.target = v, !.error = e] \in PackageT(k)
      /\ [p EXCEPT !.caller = why, !.notifiers = ns,
                  !.version = v, !.error = e] \in PackageT(k)
  BY DEF PackageT
<1> QED
  BY <1>3, <1>4

LEMMA MakePackageType ==
    ASSUME TypeOK, NEW r \in Realms, NEW v \in 0 .. latest,
           NEW why \in {"notify", "refresh", "write"}, MakePackage(r, why, v)
    PROVE  package' \in [Realms -> PackageT(latest)]
<1>1. NotifiersFor(r) \in SUBSET Notifiers
  BY DEF NotifiersFor, Alive, In
<1>2. latest \in Nat /\ asyncError \in BOOLEAN
  BY DEF TypeOK, Version
<1>3. [NoPackage EXCEPT !.caller = why, !.notifiers = NotifiersFor(r),
                        !.target = v, !.error = asyncError] \in PackageT(latest)
  BY <1>1, <1>2, PackageMade
<1>4. package \in [Realms -> PackageT(latest)]
  BY DEF TypeOK, PackageT
<1> QED
  BY <1>3, <1>4 DEF MakePackage

LEMMA PackageForDeliveryType ==
    ASSUME TypeOK, NEW ns, PackageForDelivery(ns)
    PROVE  callback' \in [Notifiers -> CallbackT(latest)]
<1>1. callback \in [Notifiers -> CallbackT(latest)]
  BY DEF TypeOK, CallbackT
<1>2. \A n \in Notifiers :
        [callback[n] EXCEPT !.toDeliver = callback[n].accumulated,
                            !.accumulated = {}] \in CallbackT(latest)
  BY <1>1 DEF CallbackT
<1> QED
  BY <1>1, <1>2 DEF PackageForDelivery

LEMMA ForgetType ==
    ASSUME TypeOK, NEW ns, Forget(ns)
    PROVE  /\ callback' \in [Notifiers -> CallbackT(latest)]
           /\ asked' \subseteq Notifiers
<1>1. callback \in [Notifiers -> CallbackT(latest)] /\ asked \subseteq Notifiers
  BY DEF TypeOK, CallbackT
<1>2. NoCallback \in CallbackT(latest)
  BY DEF NoCallback, CallbackT, TypeOK, Version
<1> QED
  BY <1>1, <1>2 DEF Forget

LEMMA ProcessAvailableType ==
    ASSUME TypeOK, NEW r \in Realms, NEW v, NEW reading,
           ProcessAvailable(r, v, reading)
    PROVE  /\ package' \in [Realms -> PackageT(latest)]
           /\ callback' \in [Notifiers -> CallbackT(latest)]
           /\ pc' \in [Realms -> {"idle", "waiting", "asleep", "rechecking",
                                  "packaged", "calling"}]
<1> DEFINE ready == IF asyncError THEN NotifiersFor(r)
                    ELSE {n \in NotifiersFor(r) : Current(n, v, reading)}
<1>1. ready \in SUBSET Notifiers
  BY DEF NotifiersFor, Alive, In
<1>2. latest \in Nat /\ asyncError \in BOOLEAN
  BY DEF TypeOK, Version
<1>3. \A n \in ready : ntf[n].version \in 0 .. latest
  BY <1>1 DEF TypeOK
<1>4. NewestOf(ready) \in 0 .. latest
  BY <1>1, <1>2, <1>3, NewestOfType
<1>5. [NoPackage EXCEPT !.caller = "available", !.notifiers = ready,
                        !.version = NewestOf(ready), !.error = asyncError]
        \in PackageT(latest)
  <2> HIDE DEF ready
  <2> QED
    BY <1>1, <1>2, <1>4, PackageMade
<1>6. package \in [Realms -> PackageT(latest)]
  BY DEF TypeOK, PackageT
<1>7. package' \in [Realms -> PackageT(latest)]
  BY <1>5, <1>6 DEF ProcessAvailable
<1>8. callback' \in [Notifiers -> CallbackT(latest)]
  BY PackageForDeliveryType DEF ProcessAvailable
<1>9. pc' \in [Realms -> {"idle", "waiting", "asleep", "rechecking",
                          "packaged", "calling"}]
  BY DEF ProcessAvailable, TypeOK
<1> QED
  BY <1>7, <1>8, <1>9

LEMMA DeliverType ==
    ASSUME TypeOK, NEW r \in Realms, NEW v \in 0 .. latest, Deliver(r, v)
    PROVE  /\ callback' \in [Notifiers -> CallbackT(latest)]
           /\ asked' \subseteq Notifiers /\ misfits' \subseteq Notifiers
<1>1. CASE package[r].error
  BY <1>1, ForgetType DEF Deliver, TypeOK
<1>2. CASE ~package[r].error
  <2> DEFINE ns == package[r].notifiers
             at == IF package[r].version = 0 THEN v ELSE package[r].version
             called == {n \in ns : callback[n].present
                            /\ (~callback[n].initial \/ callback[n].toDeliver # {})}
  <2>1. ns \subseteq Notifiers /\ at \in 0 .. latest
    BY DEF TypeOK
  <2>2. callback \in [Notifiers -> CallbackT(latest)]
    BY DEF TypeOK, CallbackT
  <2>3. \A n \in Notifiers : \A b \in 0 .. latest :
          [callback[n] EXCEPT !.seen = @ \cup callback[n].toDeliver,
                              !.toDeliver = {}, !.initial = TRUE, !.base = b]
            \in CallbackT(latest)
    BY <2>2 DEF CallbackT
  <2> DEFINE base(n) == IF callback[n].initial THEN callback[n].base
                        ELSE Newer(at, v)
  <2>4. \A n \in Notifiers : base(n) \in 0 .. latest
    <3> HIDE DEF at
    <3> QED
      BY <2>1, <2>2 DEF CallbackT, Newer
  <2>5. callback' = [n \in Notifiers |->
          IF n \in called
          THEN [callback[n] EXCEPT !.seen = @ \cup callback[n].toDeliver,
                                   !.toDeliver = {}, !.initial = TRUE,
                                   !.base = base(n)]
          ELSE callback[n]]
    BY <1>2, Zenon DEF Deliver
  <2> HIDE DEF base, called
  <2>6. callback' \in [Notifiers -> CallbackT(latest)]
    BY <2>2, <2>3, <2>4, <2>5
  <2> QED
    BY <1>2, <2>1, <2>6 DEF Deliver, TypeOK
<1> QED
  BY <1>1, <1>2

LEMMA TypeStep ==
    ASSUME BasicInv, [Next]_vars
    PROVE  TypeOK'
<1> USE DEF BasicInv
<1> DEFINE PC == {"idle", "waiting", "asleep", "rechecking", "packaged", "calling"}
<1>1. /\ package \in [Realms -> PackageT(latest)]
      /\ ntf \in [Notifiers -> NotifierT(latest)]
      /\ callback \in [Notifiers -> CallbackT(latest)]
  BY DEF TypeOK, PackageT, NotifierT, CallbackT
<1>2. ASSUME UNCHANGED vars
      PROVE  TypeOK'
  BY <1>2 DEF TypeOK, Version, In, vars, fileVars, realmVars, ntfVars,
              coordVars, groupVars, workerVars, histVars
<1>3. ASSUME NEW r \in Realms, PackageAndWait(r)
      PROVE  TypeOK'
  <2> DEFINE ran == {n \in package[r].notifiers : ntf[n].hasRun}
  <2>0. 0 \in 0 .. latest
    BY DEF TypeOK, Version
  <2>1. ran \in SUBSET Notifiers /\ \A n \in ran : ntf[n].version \in 0 .. latest
    BY DEF TypeOK
  <2>2. callback' \in [Notifiers -> CallbackT(latest)]
    BY <1>3, PackageForDeliveryType DEF PackageAndWait
  <2>3. \A v \in 0 .. latest :
          /\ [package[r] EXCEPT !.notifiers = {}] \in PackageT(latest)
          /\ [package[r] EXCEPT !.notifiers = ran, !.version = v]
               \in PackageT(latest)
    <3> HIDE DEF ran
    <3> QED
      BY <1>1, <2>1 DEF PackageT
  <2>4. package' \in [Realms -> PackageT(latest)]
    <3>1. CASE package' = [package EXCEPT ![r].notifiers = {}]
      <4>1. package' = [package EXCEPT ![r] =
              [package[r] EXCEPT !.notifiers = {}]]
        BY <3>1, <1>1
      <4> QED
        BY <4>1, <1>1, <2>0, <2>3
    <3>2. CASE \E n \in ran : package' = [package EXCEPT ![r].notifiers = ran,
                                            ![r].version = ntf[n].version]
      <4>1. PICK n \in ran : package' = [package EXCEPT ![r].notifiers = ran,
                                            ![r].version = ntf[n].version]
        BY <3>2
      <4>2. package' = [package EXCEPT ![r] =
              [package[r] EXCEPT !.notifiers = ran, !.version = ntf[n].version]]
        BY <4>1, <1>1
      <4> QED
        BY <4>2, <1>1, <2>1, <2>3
    <3> QED
      BY <1>3, <3>1, <3>2 DEF PackageAndWait
  <2> QED
    BY <1>3, <2>2, <2>4 DEF PackageAndWait, TypeOK, PackageT, CallbackT, In,
         fileVars, coordVars, groupVars, workerVars, histVars
<1>4. ASSUME NEW r \in Realms, Sleep(r)
      PROVE  TypeOK'
  BY <1>4 DEF Sleep, TypeOK, In, fileVars, ntfVars, coordVars, groupVars,
              workerVars, histVars
<1>5. ASSUME NEW r \in Realms, Advance(r)
      PROVE  TypeOK'
  <2> DEFINE v == IF package[r].caller = "available" THEN version[r]
                  ELSE IF package[r].caller = "write" \/ package[r].version = 0
                  THEN latest ELSE package[r].version
  <2>1. version[r] \in 1 .. latest /\ latest \in 1 .. latest
        /\ package[r].version \in 0 .. latest
    BY DEF TypeOK, Version
  <2>2. v \in 1 .. latest
    BY <2>1
  <2>3. package' \in [Realms -> PackageT(latest)]
    <3>1. NoPackage \in PackageT(latest)
      BY <2>1 DEF NoPackage, PackageT
    <3> QED
      BY <1>1, <1>5, <3>1 DEF Advance
  <2>4. /\ callback' \in [Notifiers -> CallbackT(latest)]
        /\ asked' \subseteq Notifiers /\ misfits' \subseteq Notifiers
        /\ version' \in [Realms -> 1 .. latest]
        /\ pc' \in [Realms -> PC]
    <3>1. CASE Discarded(r) /\ UNCHANGED <<version, callback, asked, misfits>>
                            /\ pc' = [pc EXCEPT ![r] = "idle"]
      BY <1>1, <3>1 DEF TypeOK
    <3>2. CASE /\ version' = [version EXCEPT ![r] = v]
               /\ Deliver(r, v)
               /\ pc' = [pc EXCEPT ![r] = "calling"]
      <4>1. v \in 0 .. latest
        BY <2>2
      <4> HIDE DEF v
      <4> QED
        BY <2>2, <3>2, <4>1, DeliverType DEF TypeOK
    <3> QED
      BY <1>5, <3>1, <3>2, Zenon DEF Advance
  <2> QED
    BY <1>5, <2>3, <2>4 DEF Advance, TypeOK, PackageT, CallbackT, In,
         fileVars, coordVars, groupVars, workerVars
<1>6. ASSUME NEW r \in Realms, Return(r)
      PROVE  TypeOK'
  BY <1>6 DEF Return, TypeOK, In, fileVars, ntfVars, coordVars, groupVars,
              workerVars, histVars
<1>7. ASSUME NEW r \in Realms, Notify(r)
      PROVE  TypeOK'
  <2>1. /\ package' \in [Realms -> PackageT(latest)]
        /\ callback' \in [Notifiers -> CallbackT(latest)]
        /\ pc' \in [Realms -> PC]
    <3>1. CASE UNCHANGED <<pc, package, callback>>
      BY <1>1, <3>1 DEF TypeOK
    <3>2. CASE ProcessAvailable(r, version[r], inRead[r])
      BY <3>2, ProcessAvailableType
    <3>3. CASE MakePackage(r, "notify", 0) /\ Wait(r) /\ UNCHANGED callback
      <4>1. 0 \in 0 .. latest
        BY DEF TypeOK, Version
      <4>2. package' \in [Realms -> PackageT(latest)]
        BY <3>3, <4>1, MakePackageType
      <4> QED
        BY <1>1, <3>3, <4>2 DEF Wait, TypeOK
    <3> QED
      BY <1>7, <3>1, <3>2, <3>3 DEF Notify
  <2>2. signalled' \in [Realms -> BOOLEAN]
    BY <1>7 DEF Notify, TypeOK
  <2> QED
    BY <1>7, <2>1, <2>2 DEF Notify, TypeOK, PackageT, CallbackT, In,
         fileVars, coordVars, groupVars, workerVars, histVars
<1>8. ASSUME NEW r \in Realms, BeginRead(r)
      PROVE  TypeOK'
  BY <1>8 DEF BeginRead, ReadNewest, TypeOK, In, Version,
              fileVars, ntfVars, coordVars, groupVars, workerVars
<1>9. ASSUME NEW r \in Realms, Refresh(r)
      PROVE  TypeOK'
  <2>1. latest \in 1 .. latest /\ latest \in 0 .. latest
    BY DEF TypeOK, Version
  <2>2. /\ package' \in [Realms -> PackageT(latest)]
        /\ callback' \in [Notifiers -> CallbackT(latest)]
        /\ pc' \in [Realms -> PC]
        /\ version' \in [Realms -> 1 .. latest]
        /\ inRead' \in [Realms -> BOOLEAN] /\ jumped' \in [Realms -> BOOLEAN]
    <3>1. CASE /\ MakePackage(r, "refresh", latest) /\ Wait(r)
               /\ UNCHANGED <<version, inRead, callback, jumped>>
      <4>1. package' \in [Realms -> PackageT(latest)]
        BY <2>1, <3>1, MakePackageType
      <4> QED
        BY <1>1, <3>1, <4>1 DEF Wait, TypeOK
    <3>2. CASE ReadNewest(r) /\ ProcessAvailable(r, latest, TRUE)
      BY <2>1, <3>2, ProcessAvailableType DEF ReadNewest, TypeOK
    <3> QED
      BY <1>9, <3>1, <3>2 DEF Refresh
  <2> QED
    BY <1>9, <2>2 DEF Refresh, TypeOK, PackageT, CallbackT, In,
         fileVars, coordVars, groupVars, workerVars
<1>10. ASSUME NEW r \in Realms, BeginTransaction(r)
      PROVE  TypeOK'
  <2>1. latest \in 1 .. latest /\ latest \in 0 .. latest
    BY DEF TypeOK, Version
  <2>2. package' \in [Realms -> PackageT(latest)]
    BY <1>10, <2>1, MakePackageType DEF BeginTransaction
  <2>3. pc' \in [Realms -> PC]
    BY <1>10 DEF BeginTransaction, Wait, TypeOK
  <2>4. /\ version' \in [Realms -> 1 .. latest]
        /\ inRead' \in [Realms -> BOOLEAN] /\ jumped' \in [Realms -> BOOLEAN]
    <3>1. CASE UNCHANGED <<version, inRead, jumped>>
      BY <3>1 DEF TypeOK
    <3>2. CASE ReadNewest(r)
      BY <2>1, <3>2 DEF ReadNewest, TypeOK
    <3> QED
      BY <1>10, <3>1, <3>2 DEF BeginTransaction
  <2> QED
    BY <1>10, <2>2, <2>3, <2>4 DEF BeginTransaction, TypeOK, PackageT, In,
         ntfVars, coordVars, groupVars, workerVars
<1>11. ASSUME NEW r \in Realms, BeginInCallback(r)
      PROVE  TypeOK'
  BY <1>11 DEF BeginInCallback, TypeOK, In, Version,
               ntfVars, coordVars, groupVars, workerVars
<1>12. ASSUME NEW r \in Realms, Commit(r)
      PROVE  TypeOK'
  <2>1. latest' = latest + 1 /\ latest \in Nat \ {0}
    BY <1>12 DEF Commit, TypeOK, Version
  <2>2. latest' \in Version
    <3>1. writer # NoRealm
      BY <1>12, NotifiersAssumption DEF Commit
    <3> QED
      BY <2>1, <3>1, NotifiersAssumption DEF WorkerInv, Version, TypeOK
  <2>3. latest' \in Nat /\ latest <= latest'
    BY <2>1
  <2>4. /\ PackageT(latest) \subseteq PackageT(latest')
        /\ NotifierT(latest) \subseteq NotifierT(latest')
        /\ CallbackT(latest) \subseteq CallbackT(latest')
    <3>1. PICK k \in Nat : k = latest
      BY <2>1
    <3>2. PICK l \in Nat : l = latest'
      BY <2>3
    <3>3. PackageT(k) \subseteq PackageT(l) /\ NotifierT(k) \subseteq NotifierT(l)
          /\ CallbackT(k) \subseteq CallbackT(l)
      BY <2>3, <3>1, <3>2, TypesGrow
    <3> QED
      BY <3>1, <3>2, <3>3
  <2>5. /\ package' \in [Realms -> PackageT(latest')]
        /\ ntf' \in [Notifiers -> NotifierT(latest')]
    BY <1>1, <1>12, <2>4 DEF Commit
  <2>6. callback' \in [Notifiers -> CallbackT(latest')]
    <3>1. PICK v : v = latest'
      OBVIOUS
    <3>2. v \in 2 .. v
      BY <2>1, <3>1
    <3>3. callback \in [Notifiers -> CallbackT(v)]
      BY <1>1, <2>4, <3>1
    <3>4. \A n \in Notifiers :
            [callback[n] EXCEPT !.suppressed = @ \cup {v}] \in CallbackT(v)
      BY <3>2, <3>3 DEF CallbackT
    <3>5. callback' = [n \in Notifiers |-> IF n \in asked
                THEN [callback[n] EXCEPT !.suppressed = @ \cup {v}]
                ELSE callback[n]]
      BY <1>12, <3>1 DEF Commit
    <3> QED
      BY <3>1, <3>3, <3>4, <3>5
  <2>7. /\ version' \in [Realms -> 1 .. latest']
        /\ skipVersion' \in 0 .. latest' /\ overwritten' \in BOOLEAN
        /\ {pin, sgVersion, skipTo, runTo} \subseteq 0 .. latest'
    <3>1. version' \in [Realms -> 1 .. latest']
      BY <1>12, <2>1 DEF Commit, TypeOK
    <3>2. {pin, sgVersion, skipTo, runTo} \subseteq 0 .. latest'
      BY <2>1 DEF TypeOK
    <3>3. skipVersion' \in {skipVersion, latest + 1}
      BY <1>12 DEF Commit, SkipVersion
    <3>4. overwritten' \in BOOLEAN
      BY <1>12 DEF Commit, SkipVersion, TypeOK
    <3> QED
      BY <2>1, <3>1, <3>2, <3>3, <3>4 DEF TypeOK
  <2>8. /\ writer' \in Realms \cup {NoRealm} /\ woken' \in BOOLEAN
        /\ inRead' \in [Realms -> BOOLEAN] /\ pc' \in [Realms -> PC]
        /\ signalled' \in [Realms -> BOOLEAN] /\ realmOf' \in [Notifiers -> Realms]
        /\ asyncError' \in BOOLEAN /\ opened' \in BOOLEAN
        /\ asked' \subseteq Notifiers /\ misfits' \subseteq Notifiers
        /\ jumped' \in [Realms -> BOOLEAN]
    BY <1>12 DEF Commit, TypeOK, PC, groupVars, workerVars
  <2>9. /\ wpc' \in {"idle", "skipping", "skipped", "advancing", "advanced"}
        /\ wpc' # "idle" => sgVersion' <= runTo'
        /\ wpc' = "skipping" => sgVersion' <= skipTo' /\ skipTo' <= runTo'
        /\ {pin', sgVersion', skipTo', runTo'} \subseteq 0 .. latest'
        /\ running' \cup starting' \subseteq In("main")'
    BY <1>12, <2>7 DEF Commit, TypeOK, In, groupVars, workerVars
  <2> QED
    BY <2>2, <2>5, <2>6, <2>7, <2>8, <2>9
       DEF TypeOK, PackageT, NotifierT, CallbackT, PC
<1>13. ASSUME NEW r \in Realms, CancelTransaction(r)
      PROVE  TypeOK'
  BY <1>13 DEF CancelTransaction, TypeOK, In,
               realmVars, ntfVars, coordVars, groupVars, workerVars, histVars
<1>14. ASSUME NEW r \in Realms, Invalidate(r)
      PROVE  TypeOK'
  BY <1>14 DEF Invalidate, TypeOK, In,
               ntfVars, coordVars, groupVars, workerVars, histVars
<1>15. ASSUME NEW n \in Notifiers, RegisterNotifier(n)
      PROVE  TypeOK'
  <2>1. version[realmOf[n]] \in 0 .. latest
    BY DEF TypeOK
  <2>2. ntf' \in [Notifiers -> NotifierT(latest)]
    <3>1. PICK v \in 0 .. latest : v = version[realmOf[n]]
      BY <2>1
    <3>2. [ntf[n] EXCEPT !.place = "new", !.version = v] \in NotifierT(latest)
      BY <1>1 DEF NotifierT
    <3>3. ntf' = [ntf EXCEPT ![n] =
                    [ntf[n] EXCEPT !.place = "new", !.version = v]]
      BY <1>1, <1>15, <3>1 DEF RegisterNotifier
    <3> QED
      BY <1>1, <3>2, <3>3
  <2>3. asyncError' \in BOOLEAN /\ pin' \in 0 .. latest
    BY <1>15, <2>1 DEF RegisterNotifier, PinVersion, PinFails, TypeOK
  <2>4. In("main") \subseteq In("main")'
    <3>1. \A m \in Notifiers \ {n} : ntf'[m] = ntf[m]
      BY <1>1, <1>15 DEF RegisterNotifier
    <3> QED
      BY <1>15, <3>1 DEF RegisterNotifier, In
  <2> QED
    BY <1>15, <2>2, <2>3, <2>4 DEF RegisterNotifier, TypeOK, NotifierT,
         fileVars, realmVars, workerVars, histVars
<1>16. ASSUME NEW n \in Notifiers, AddCallback(n)
      PROVE  TypeOK'
  <2>1. callback' \in [Notifiers -> CallbackT(latest)]
    <3>1. \A late \in BOOLEAN :
            [callback[n] EXCEPT !.present = TRUE, !.late = late]
              \in CallbackT(latest)
      BY <1>1 DEF CallbackT
    <3>2. PICK late \in BOOLEAN :
            late = (n \in running /\ wpc \in {"skipped", "advanced"})
      OBVIOUS
    <3>3. callback' = [callback EXCEPT ![n] =
                         [callback[n] EXCEPT !.present = TRUE, !.late = late]]
      BY <1>1, <1>16, <3>2 DEF AddCallback
    <3> QED
      BY <1>1, <3>1, <3>3
  <2> QED
    BY <1>16, <2>1 DEF AddCallback, TypeOK, CallbackT, In, fileVars, realmVars,
         coordVars, groupVars, workerVars, histVars
<1>17. ASSUME NEW n \in Notifiers, RemoveCallback(n)
      PROVE  TypeOK'
  BY <1>17, ForgetType DEF RemoveCallback, TypeOK, CallbackT, In, fileVars,
       realmVars, coordVars, groupVars, workerVars
<1>18. ASSUME NEW n \in Notifiers, Unregister(n)
      PROVE  TypeOK'
  <2>1. \A m \in Notifiers : ntf'[m].place = ntf[m].place
    BY <1>1, <1>18 DEF Unregister, NotifierT
  <2>2. ntf' \in [Notifiers -> NotifierT(latest)]
    BY <1>1, <1>18 DEF Unregister, NotifierT
  <2>3. In("main") \subseteq In("main")'
    BY <2>1 DEF In
  <2> QED
    BY <1>18, <2>2, <2>3 DEF Unregister, TypeOK, NotifierT, fileVars, realmVars,
         coordVars, groupVars, workerVars, histVars
<1>19. ASSUME NEW n \in Notifiers, SuppressNext(n)
      PROVE  TypeOK'
  <2>1. callback' \in [Notifiers -> CallbackT(latest)]
    BY <1>1, <1>19 DEF SuppressNext, CallbackT
  <2>2. asked' \subseteq Notifiers
    BY <1>19 DEF SuppressNext, TypeOK
  <2> QED
    BY <1>19, <2>1, <2>2 DEF SuppressNext, TypeOK, CallbackT, In, fileVars,
         realmVars, coordVars, groupVars, workerVars
<1>20. ASSUME OnChange
      PROVE  TypeOK'
  <2>0. wpc = "idle" /\ running = {} /\ starting = {}
    BY <1>20 DEF OnChange, WorkerInv
  <2>1. \A n \in Notifiers :
          /\ CleanedUp(n) \in NotifierT(latest)
          /\ [ntf[n] EXCEPT !.place = "main"] \in NotifierT(latest)
    BY <1>1 DEF CleanedUp, NotifierT
  <2>2. SignalRealms => signalled' \in [Realms -> BOOLEAN]
    BY DEF SignalRealms, Watches
  <2>3. CASE WorkerIdles
    <3>1. ntf' \in [Notifiers -> NotifierT(latest)]
      BY <2>1, <2>3 DEF WorkerIdles
    <3>2. skipVersion' \in 0 .. latest /\ pin' \in 0 .. latest
      BY <2>3 DEF WorkerIdles, TypeOK, Version
    <3> QED
      BY <1>20, <2>0, <2>2, <2>3, <3>1, <3>2 DEF OnChange, WorkerIdles, TypeOK,
           NotifierT, fileVars, workerVars, histVars
  <2>4. CASE WorkerFails
    <3>1. ntf' \in [Notifiers -> NotifierT(latest)]
      BY <2>1, <2>4 DEF WorkerFails
    <3> QED
      BY <1>20, <2>0, <2>2, <2>4, <3>1 DEF OnChange, WorkerFails, TypeOK,
           NotifierT, fileVars, groupVars, workerVars, histVars
  <2>5. CASE WorkerBegins
    <3>1. ntf' \in [Notifiers -> NotifierT(latest)]
      BY <2>1, <2>5 DEF WorkerBegins
    <3>2. latest \in Nat \ {0} /\ runTo' = latest /\ pin' = 0 /\ skipVersion' = 0
      BY <2>5 DEF WorkerBegins, TypeOK, Version, TakeSkipVersion
    <3>3. /\ sgVersion' \in {sgVersion, latest} /\ sgVersion' \in 0 .. latest
          /\ skipTo' \in {0, skipVersion} /\ skipTo' \in 0 .. latest
      BY <2>5 DEF WorkerBegins, TypeOK, Version, TakeSkipVersion
    <3>4. wpc' = IF skipTo' = 0 THEN "advancing" ELSE "skipping"
      BY <2>5 DEF WorkerBegins
    <3>5. wpc' = "skipping" => sgVersion' <= skipTo'
      <4> SUFFICES ASSUME skipTo' # 0
                   PROVE  sgVersion' <= skipTo'
        BY <3>4
      <4>1. Alive(In("main")) # {} /\ skipTo' = skipVersion /\ skipVersion # 0
        BY <2>5 DEF WorkerBegins, TakeSkipVersion
      <4>2. sgVersion' = sgVersion
        BY <2>5, <4>1 DEF WorkerBegins, WorkerInv
      <4> QED
        BY <4>1, <4>2 DEF WorkerInv
    <3>6. running' \cup starting' \subseteq In("main")'
      <4>1. \A n \in running' \cup starting' : ntf'[n].place = "main"
        BY <1>1, <2>5 DEF WorkerBegins, Alive, In, CleanedUp, NotifierT
      <4>2. running' \cup starting' \subseteq Notifiers
        BY <2>5 DEF WorkerBegins, Alive, In
      <4> QED
        BY <4>1, <4>2 DEF In
    <3> QED
      <4>1. /\ {pin', sgVersion', skipVersion', skipTo', runTo'} \subseteq 0 .. latest
            /\ sgVersion' <= runTo' /\ skipTo' <= runTo'
        BY <3>2, <3>3
      <4>2. latest' = latest /\ opened' \in BOOLEAN /\ asyncError' = asyncError
            /\ signalled' = signalled
            /\ wpc' \in {"advancing", "skipping"}
        BY <1>20, <2>5, <3>4 DEF OnChange, WorkerBegins, fileVars
      <4> QED
        BY <1>20, <3>1, <3>5, <3>6, <4>1, <4>2 DEF OnChange, TypeOK, NotifierT,
             fileVars, histVars
  <2> QED
    BY <1>20, <2>3, <2>4, <2>5 DEF OnChange
<1>21. ASSUME RunToSkip \/ RunToNewest
      PROVE  TypeOK'
  <2>1. PICK ns \in SUBSET Notifiers, v \in 0 .. latest :
          /\ Run(ns, v)
          /\ v <= runTo /\ wpc # "idle" /\ v >= 1
          /\ ns \subseteq running \cup starting
          /\ wpc' \in {"skipped", "advanced"}
    <3>1. running \in SUBSET Notifiers /\ starting \in SUBSET Notifiers
      BY DEF TypeOK, In
    <3>2. skipTo \in 0 .. latest /\ runTo \in 0 .. latest /\ latest \in Nat
      BY DEF TypeOK, Version
    <3>3. CASE RunToSkip
      BY <3>1, <3>2, <3>3 DEF RunToSkip, WorkerInv
    <3>4. CASE RunToNewest
      BY <3>1, <3>2, <3>4 DEF RunToNewest, WorkerInv
    <3> QED
      BY <1>21, <3>3, <3>4
  <2>2. \A n \in ns : ntf[n].hasRun => ntf[n].rows >= 1
    BY DEF NotifierInv, HistoryOf
  <2>3. PICK wanted \in SUBSET Notifiers :
         ntf' = [n \in Notifiers |->
           IF n \in ns /\ (callback[n].present \/ n \in wanted \cup starting)
           THEN [ntf[n] EXCEPT
                   !.rows = v,
                   !.changes = IF ntf[n].hasRun /\ callback[n].present
                               THEN Between(ntf[n].rows, v) ELSE {}]
           ELSE ntf[n]]
    BY <2>1 DEF Run
  <2>4. \A n \in Notifiers : \A c \in SUBSET (2 .. latest) :
          [ntf[n] EXCEPT !.rows = v, !.changes = c] \in NotifierT(latest)
    BY <1>1 DEF NotifierT
  <2>5. \A n \in ns :
          (IF ntf[n].hasRun /\ callback[n].present
           THEN Between(ntf[n].rows, v) ELSE {}) \in SUBSET (2 .. latest)
    <3>1. \A n \in ns : ntf[n].rows \in 0 .. latest /\ latest \in Nat
      BY DEF TypeOK, Version
    <3> QED
      BY <2>2, <3>1 DEF Between
  <2>6. ntf' \in [Notifiers -> NotifierT(latest)]
    BY <1>1, <2>3, <2>4, <2>5
  <2>7. In("main") \subseteq In("main")'
    <3>1. \A n \in Notifiers : ntf'[n].place = ntf[n].place
      BY <1>1, <2>3 DEF NotifierT
    <3> QED
      BY <3>1 DEF In
  <2>8. /\ running' = running /\ starting' = starting /\ runTo' = runTo
        /\ skipTo' = skipTo /\ sgVersion' = v
    BY <1>21, <2>1 DEF RunToSkip, RunToNewest, Run
  <2> QED
    BY <1>21, <2>1, <2>6, <2>7, <2>8 DEF RunToSkip, RunToNewest, TypeOK,
         NotifierT, fileVars, realmVars, histVars
<1>22. \A ns : HandOver(ns) =>
         /\ ntf' \in [Notifiers -> NotifierT(latest)]
         /\ callback' \in [Notifiers -> CallbackT(latest)]
  <2> SUFFICES ASSUME NEW ns, HandOver(ns)
               PROVE  /\ ntf' \in [Notifiers -> NotifierT(latest)]
                      /\ callback' \in [Notifiers -> CallbackT(latest)]
    OBVIOUS
  <2>1. sgVersion \in 0 .. latest
    BY DEF TypeOK
  <2>2. \A n \in Notifiers : Tidied(n) \in NotifierT(latest)
    BY <1>1 DEF Tidied, CleanedUp, NotifierT
  <2>3. \A n \in Notifiers :
          [Tidied(n) EXCEPT !.version = sgVersion, !.hasRun = TRUE,
                            !.changes = {}] \in NotifierT(latest)
    BY <2>1, <2>2 DEF NotifierT
  <2>4. \A n \in Notifiers : \A c \in SUBSET (2 .. latest) :
          AddChanges(callback[n], c) \in CallbackT(latest)
    BY <1>1 DEF AddChanges, CallbackT
  <2>5. \A n \in Notifiers : ntf[n].changes \in SUBSET (2 .. latest)
    BY DEF TypeOK
  <2> QED
    BY <1>1, <2>2, <2>3, <2>4, <2>5 DEF HandOver
<1>23. ASSUME HandOverSkipped
      PROVE  TypeOK'
  <2>1. In("main") \subseteq In("main")'
    <3>1. \A n \in Notifiers : ntf'[n].place = ntf[n].place
      BY <1>1, <1>23 DEF HandOverSkipped, HandOver, Tidied, NotifierT
    <3> QED
      BY <3>1 DEF In
  <2>2. sgVersion <= runTo
    BY <1>23 DEF HandOverSkipped, TypeOK
  <2> QED
    BY <1>22, <1>23, <2>1, <2>2 DEF HandOverSkipped, TypeOK, NotifierT, CallbackT,
         fileVars, realmVars, coordVars, groupVars, histVars
<1>24. ASSUME HandOverNewest
      PROVE  TypeOK'
  <2>1. pc' \in [Realms -> PC] /\ signalled' \in [Realms -> BOOLEAN]
    BY <1>24 DEF HandOverNewest, WakeWaiting, SignalRealms, Watches, TypeOK
  <2>2. {pin', sgVersion', skipVersion', skipTo', runTo'} \subseteq 0 .. latest
    BY <1>24 DEF HandOverNewest, TypeOK, Version
  <2> QED
    BY <1>22, <1>24, <2>1, <2>2 DEF HandOverNewest, TypeOK, NotifierT, CallbackT,
         fileVars, histVars
<1> QED
  BY <1>2, <1>3, <1>4, <1>5, <1>6, <1>7, <1>8, <1>9, <1>10, <1>11, <1>12, <1>13,
     <1>14, <1>15, <1>16, <1>17, <1>18, <1>19, <1>20, <1>21, <1>23, <1>24
     DEF Next, RealmStep, NotifierStep, WorkerStep

-----------------------------------------------------------------------------
(* What the worker's steps do to each notifier *)

(* All of a notifier but its place *)
SameHistory(n) ==
    /\ ntf'[n].alive = ntf[n].alive
    /\ ntf'[n].version = ntf[n].version
    /\ ntf'[n].hasRun = ntf[n].hasRun
    /\ ntf'[n].rows = ntf[n].rows
    /\ ntf'[n].changes = ntf[n].changes

LEMMA NotifierFields ==
    ASSUME TypeOK, NEW n \in Notifiers
    PROVE  ntf[n] \in NotifierT(latest) /\ callback[n] \in CallbackT(latest)
  BY DEF TypeOK, NotifierT, CallbackT

LEMMA OnChangeEffect ==
    ASSUME BasicInv, OnChange
    PROVE  \A n \in Notifiers :
             /\ SameHistory(n)
             /\ \/ ntf'[n].place = ntf[n].place
                \/ ntf'[n].place = "gone" /\ ~ntf[n].alive
                \/ /\ ntf[n].place = "new" /\ ntf[n].alive
                   /\ ntf'[n].place = "main"
<1> SUFFICES ASSUME NEW n \in Notifiers
             PROVE  /\ SameHistory(n)
                    /\ \/ ntf'[n].place = ntf[n].place
                       \/ ntf'[n].place = "gone" /\ ~ntf[n].alive
                       \/ /\ ntf[n].place = "new" /\ ntf[n].alive
                          /\ ntf'[n].place = "main"
  OBVIOUS
<1>1. ntf[n] \in NotifierT(latest)
  BY NotifierFields DEF BasicInv
<1>2. \/ ntf'[n] = CleanedUp(n)
      \/ n \in Alive(In("new")) /\ ntf'[n] = [ntf[n] EXCEPT !.place = "main"]
  BY DEF OnChange, WorkerIdles, WorkerFails, WorkerBegins
<1> QED
  BY <1>1, <1>2 DEF SameHistory, CleanedUp, Alive, In, NotifierT

LEMMA RunEffect ==
    ASSUME BasicInv, RunToSkip \/ RunToNewest
    PROVE  \E ns \in SUBSET Notifiers, v \in 1 .. runTo :
             /\ \/ /\ wpc = "skipping" /\ wpc' = "skipped"
                   /\ ns = running /\ v = skipTo
                \/ /\ wpc = "advancing" /\ wpc' = "advanced"
                   /\ ns = running \cup starting /\ v = runTo
             /\ sgVersion <= v /\ sgVersion' = v
             /\ \A n \in Notifiers :
                  \/ ntf'[n] = ntf[n] /\ (n \in ns =>
                       ~callback[n].present /\ n \notin starting)
                  \/ /\ n \in ns
                     /\ ntf'[n].place = ntf[n].place
                     /\ ntf'[n].alive = ntf[n].alive
                     /\ ntf'[n].version = ntf[n].version
                     /\ ntf'[n].hasRun = ntf[n].hasRun
                     /\ ntf'[n].rows = v
                     /\ ntf'[n].changes =
                          IF ntf[n].hasRun /\ callback[n].present
                          THEN Between(ntf[n].rows, v) ELSE {}
<1> USE DEF BasicInv
<1>1. PICK ns \in SUBSET Notifiers, v \in 1 .. runTo :
        /\ Run(ns, v)
        /\ \/ /\ wpc = "skipping" /\ wpc' = "skipped"
              /\ ns = running /\ v = skipTo
           \/ /\ wpc = "advancing" /\ wpc' = "advanced"
              /\ ns = running \cup starting /\ v = runTo
        /\ sgVersion <= v
  <2>1. running \in SUBSET Notifiers /\ starting \in SUBSET Notifiers
    BY DEF TypeOK, In
  <2>2. skipTo \in Nat /\ runTo \in Nat /\ sgVersion \in Nat
    BY DEF TypeOK, Version
  <2>3. CASE RunToSkip
    BY <2>1, <2>2, <2>3 DEF RunToSkip, WorkerInv, TypeOK
  <2>4. CASE RunToNewest
    BY <2>1, <2>2, <2>4 DEF RunToNewest, WorkerInv, TypeOK
  <2> QED
    BY <2>3, <2>4
<1>2. PICK wanted \in SUBSET {n \in ns : ~callback[n].present} :
       ntf' = [n \in Notifiers |->
         IF n \in ns /\ (callback[n].present \/ n \in wanted \cup starting)
         THEN [ntf[n] EXCEPT
                 !.rows = v,
                 !.changes = IF ntf[n].hasRun /\ callback[n].present
                             THEN Between(ntf[n].rows, v) ELSE {}]
         ELSE ntf[n]]
  BY <1>1 DEF Run
<1>3. \A n \in Notifiers : \A c :
        /\ [ntf[n] EXCEPT !.rows = v, !.changes = c].place = ntf[n].place
        /\ [ntf[n] EXCEPT !.rows = v, !.changes = c].alive = ntf[n].alive
        /\ [ntf[n] EXCEPT !.rows = v, !.changes = c].version = ntf[n].version
        /\ [ntf[n] EXCEPT !.rows = v, !.changes = c].hasRun = ntf[n].hasRun
        /\ [ntf[n] EXCEPT !.rows = v, !.changes = c].rows = v
        /\ [ntf[n] EXCEPT !.rows = v, !.changes = c].changes = c
  BY NotifierFields DEF NotifierT
<1>4. sgVersion' = v
  BY <1>1 DEF Run
<1>5. \A n \in Notifiers :
        \/ ntf'[n] = ntf[n] /\ (n \in ns =>
             ~callback[n].present /\ n \notin starting)
        \/ /\ n \in ns
           /\ ntf'[n].place = ntf[n].place
           /\ ntf'[n].alive = ntf[n].alive
           /\ ntf'[n].version = ntf[n].version
           /\ ntf'[n].hasRun = ntf[n].hasRun
           /\ ntf'[n].rows = v
           /\ ntf'[n].changes =
                IF ntf[n].hasRun /\ callback[n].present
                THEN Between(ntf[n].rows, v) ELSE {}
  <2> SUFFICES ASSUME NEW n \in Notifiers, ntf'[n] # ntf[n]
                        \/ (n \in ns /\ (callback[n].present \/ n \in starting))
               PROVE  /\ n \in ns
                      /\ ntf'[n].place = ntf[n].place
                      /\ ntf'[n].alive = ntf[n].alive
                      /\ ntf'[n].version = ntf[n].version
                      /\ ntf'[n].hasRun = ntf[n].hasRun
                      /\ ntf'[n].rows = v
                      /\ ntf'[n].changes =
                           IF ntf[n].hasRun /\ callback[n].present
                           THEN Between(ntf[n].rows, v) ELSE {}
    OBVIOUS
  <2>1. n \in ns /\ ntf'[n] =
          [ntf[n] EXCEPT
             !.rows = v,
             !.changes = IF ntf[n].hasRun /\ callback[n].present
                         THEN Between(ntf[n].rows, v) ELSE {}]
    BY <1>2, Zenon
  <2> QED
    BY <1>3, <2>1
<1> QED
  BY <1>1, <1>4, <1>5

LEMMA HandOverEffect ==
    ASSUME BasicInv, HandOverSkipped \/ HandOverNewest
    PROVE  \E ns \in SUBSET Notifiers :
             /\ \/ /\ wpc = "skipped" /\ wpc' = "advancing" /\ ns = running
                   /\ running' = running /\ starting' = starting
                   /\ UNCHANGED <<pc, signalled, skipTo, runTo, pin, skipVersion>>
                   /\ \A n \in Notifiers : ntf'[n].place = ntf[n].place
                \/ /\ wpc = "advanced" /\ wpc' = "idle"
                   /\ ns = running \cup starting
                   /\ running' = {} /\ starting' = {}
                   /\ \A n \in Notifiers : ntf'[n].place =
                        IF ntf[n].alive THEN ntf[n].place ELSE "gone"
             /\ \A n \in Notifiers :
                  /\ ntf'[n].alive = ntf[n].alive
                  /\ ntf'[n].rows = ntf[n].rows
                  /\ n \in ns => /\ ntf'[n].version = sgVersion
                                 /\ ntf'[n].hasRun
                                 /\ ntf'[n].changes = {}
                  /\ n \notin ns => SameHistory(n)
                  /\ callback'[n] =
                       IF n \in ns /\ callback[n].present
                       THEN AddChanges(callback[n], ntf[n].changes)
                       ELSE callback[n]
<1> USE DEF BasicInv
<1>1. PICK ns \in SUBSET Notifiers :
        /\ HandOver(ns)
        /\ \/ /\ wpc = "skipped" /\ wpc' = "advancing" /\ ns = running
              /\ running' = running /\ starting' = starting
              /\ UNCHANGED <<pc, signalled, skipTo, runTo, pin, skipVersion>>
           \/ /\ wpc = "advanced" /\ wpc' = "idle"
              /\ ns = running \cup starting
              /\ running' = {} /\ starting' = {}
  <2>1. running \in SUBSET Notifiers /\ starting \in SUBSET Notifiers
    BY DEF TypeOK, In
  <2> QED
    BY <2>1 DEF HandOverSkipped, HandOverNewest, realmVars, coordVars, groupVars
<1>2. \A n \in Notifiers :
        /\ Tidied(n) \in NotifierT(latest)
        /\ Tidied(n).place = IF wpc = "advanced" /\ ~ntf[n].alive
                             THEN "gone" ELSE ntf[n].place
        /\ Tidied(n).alive = ntf[n].alive
        /\ Tidied(n).version = ntf[n].version
        /\ Tidied(n).hasRun = ntf[n].hasRun
        /\ Tidied(n).rows = ntf[n].rows
        /\ Tidied(n).changes = ntf[n].changes
  BY NotifierFields DEF Tidied, CleanedUp, NotifierT
<1>3. \A n \in Notifiers :
        /\ ntf'[n].place = Tidied(n).place
        /\ ntf'[n].alive = ntf[n].alive
        /\ ntf'[n].rows = ntf[n].rows
        /\ n \in ns => /\ ntf'[n].version = sgVersion
                       /\ ntf'[n].hasRun
                       /\ ntf'[n].changes = {}
        /\ n \notin ns => SameHistory(n)
  <2> SUFFICES ASSUME NEW n \in Notifiers
               PROVE  /\ ntf'[n].place = Tidied(n).place
                      /\ ntf'[n].alive = ntf[n].alive
                      /\ ntf'[n].rows = ntf[n].rows
                      /\ n \in ns => /\ ntf'[n].version = sgVersion
                                     /\ ntf'[n].hasRun
                                     /\ ntf'[n].changes = {}
                      /\ n \notin ns => SameHistory(n)
    OBVIOUS
  <2>1. ntf'[n] = IF n \in ns
                  THEN [Tidied(n) EXCEPT !.version = sgVersion, !.hasRun = TRUE,
                                         !.changes = {}]
                  ELSE Tidied(n)
    BY <1>1, Zenon DEF HandOver, ToHandOver
  <2>2. PICK t \in NotifierT(latest) : t = Tidied(n)
    BY <1>2
  <2> QED
    BY <1>2, <2>1, <2>2 DEF SameHistory, NotifierT
<1>4. \A n \in Notifiers :
        callback'[n] = IF n \in ns /\ callback[n].present
                       THEN AddChanges(callback[n], ntf[n].changes)
                       ELSE callback[n]
  BY <1>1 DEF HandOver, ToHandOver
<1>5. \/ /\ wpc = "skipped" /\ wpc' = "advancing" /\ ns = running
         /\ running' = running /\ starting' = starting
         /\ UNCHANGED <<pc, signalled, skipTo, runTo, pin, skipVersion>>
         /\ \A n \in Notifiers : ntf'[n].place = ntf[n].place
      \/ /\ wpc = "advanced" /\ wpc' = "idle"
         /\ ns = running \cup starting
         /\ running' = {} /\ starting' = {}
         /\ \A n \in Notifiers : ntf'[n].place =
              IF ntf[n].alive THEN ntf[n].place ELSE "gone"
  <2>1. CASE wpc = "skipped"
    BY <1>1, <1>2, <1>3, <2>1
  <2>2. CASE wpc = "advanced"
    BY <1>1, <1>2, <1>3, <2>2
  <2> QED
    BY <1>1, <2>1, <2>2
<1> WITNESS ns \in SUBSET Notifiers
<1> QED
  BY <1>3, <1>4, <1>5

-----------------------------------------------------------------------------
(* The worker and what it has run *)

(* A Realm's thread leaves the worker and its notifiers alone. *)
LEMMA RealmFrame ==
    ASSUME NEW r \in Realms, RealmStep(r)
    PROVE  /\ UNCHANGED <<realmOf, ntf, asyncError, groupVars, workerVars>>
           /\ \/ Commit(r)
              \/ UNCHANGED <<latest, skipVersion, overwritten>>
<1> USE DEF fileVars, realmVars, ntfVars, coordVars, groupVars, workerVars, histVars
<1>1. CASE PackageAndWait(r) \/ Sleep(r) \/ Advance(r) \/ Return(r)
  BY <1>1 DEF PackageAndWait, Sleep, Advance, Return
<1>2. CASE Notify(r) \/ BeginRead(r) \/ Refresh(r)
  BY <1>2 DEF Notify, BeginRead, Refresh
<1>3. CASE BeginTransaction(r) \/ BeginInCallback(r)
  BY <1>3 DEF BeginTransaction, BeginInCallback
<1>4. CASE Commit(r) \/ CancelTransaction(r) \/ Invalidate(r)
  BY <1>4 DEF Commit, CancelTransaction, Invalidate
<1> QED
  BY <1>1, <1>2, <1>3, <1>4 DEF RealmStep

(* Only the beginning of a transaction takes the write lock. *)
LEMMA WriterFrame ==
    ASSUME NEW r \in Realms, RealmStep(r), writer' # NoRealm, writer' # writer
    PROVE  writer' = r /\ latest < MaxVersion /\ latest' = latest
<1> USE DEF fileVars
<1>1. CASE PackageAndWait(r) \/ Sleep(r) \/ Advance(r) \/ Return(r)
  BY <1>1 DEF PackageAndWait, Sleep, Advance, Return
<1>2. CASE Notify(r) \/ BeginRead(r) \/ Refresh(r)
  BY <1>2 DEF Notify, BeginRead, Refresh
<1>3. CASE BeginTransaction(r) \/ BeginInCallback(r)
  BY <1>3 DEF BeginTransaction, BeginInCallback
<1>4. CASE Commit(r) \/ CancelTransaction(r) \/ Invalidate(r)
  BY <1>4 DEF Commit, CancelTransaction, Invalidate
<1> QED
  BY <1>1, <1>2, <1>3, <1>4 DEF RealmStep

LEMMA WorkerStepInv ==
    ASSUME BasicInv, TypeOK', [Next]_vars
    PROVE  WorkerInv'
<1> USE DEF BasicInv
<1>1. latest \in Nat \ {0} /\ {sgVersion, skipVersion, skipTo, runTo} \subseteq Nat
  BY DEF TypeOK, Version
<1>2. ASSUME UNCHANGED vars
      PROVE  WorkerInv'
  BY <1>2 DEF WorkerInv, Alive, In, vars, fileVars, ntfVars, coordVars, groupVars,
              workerVars
<1>3. ASSUME NEW r \in Realms, RealmStep(r), ~Commit(r)
      PROVE  WorkerInv'
  <2>1. UNCHANGED <<ntf, asyncError, groupVars, workerVars, latest, skipVersion>>
    BY <1>3, RealmFrame
  <2>2. writer' # NoRealm => latest' < MaxVersion
    BY <1>3, <2>1, WriterFrame DEF WorkerInv
  <2> QED
    BY <2>1, <2>2 DEF WorkerInv, Alive, In, groupVars, workerVars
<1>4. ASSUME NEW r \in Realms, Commit(r)
      PROVE  WorkerInv'
  <2>1. UNCHANGED <<ntf, asyncError, groupVars, workerVars>> /\ writer' = NoRealm
    BY <1>4 DEF Commit
  <2>2. skipVersion' \in {skipVersion, latest + 1}
    BY <1>4 DEF Commit, SkipVersion
  <2>3. sgVersion <= latest /\ runTo <= latest
    BY <1>1 DEF TypeOK
  <2> QED
    BY <1>1, <2>1, <2>2, <2>3 DEF WorkerInv, Alive, In, groupVars, workerVars
<1>5. ASSUME NEW n \in Notifiers, RegisterNotifier(n)
      PROVE  WorkerInv'
  <2>1. /\ ntf[n].place = "none" /\ ntf'[n].place = "new"
        /\ \A m \in Notifiers \ {n} : ntf'[m] = ntf[m]
    BY <1>5 DEF RegisterNotifier, TypeOK
  <2>2. Alive(In("main"))' = Alive(In("main"))
    BY <2>1 DEF Alive, In
  <2>3. wpc # "idle" => ~asyncError'
    <3> SUFFICES ASSUME wpc # "idle", PinFails
                 PROVE  FALSE
      BY <1>5 DEF RegisterNotifier, WorkerInv
    <3>1. PICK m \in Notifiers : ntf[m].place = "main"
      BY DEF WorkerInv, TypeOK, In
    <3> QED
      BY <3>1 DEF PinFails
  <2>4. ~asyncError' => ~asyncError
    BY <1>5 DEF RegisterNotifier, PinFails
  <2> QED
    BY <1>5, <2>2, <2>3, <2>4 DEF RegisterNotifier, WorkerInv, fileVars, workerVars
<1>6. ASSUME NEW n \in Notifiers, Unregister(n)
      PROVE  WorkerInv'
  <2>1. \A m \in Notifiers : /\ ntf'[m].place = ntf[m].place
                             /\ ntf'[m].alive => ntf[m].alive
    BY <1>6, NotifierFields DEF Unregister, NotifierT, TypeOK
  <2>2. Alive(In("main"))' \subseteq Alive(In("main"))
    BY <2>1 DEF Alive, In
  <2> QED
    BY <1>6, <2>2 DEF Unregister, WorkerInv, fileVars, coordVars, groupVars,
                      workerVars
<1>7. ASSUME NEW n \in Notifiers, AddCallback(n) \/ RemoveCallback(n) \/ SuppressNext(n)
      PROVE  WorkerInv'
  BY <1>7 DEF AddCallback, RemoveCallback, SuppressNext, WorkerInv, Alive, In,
              fileVars, coordVars, groupVars, workerVars
<1>8. ASSUME OnChange
      PROVE  WorkerInv'
  <2>0. wpc = "idle" /\ running = {} /\ starting = {} /\ UNCHANGED fileVars
    BY <1>8 DEF OnChange, WorkerInv
  <2>1. CASE WorkerIdles
    <3>1. Alive(In("main"))' = {}
      <4>1. \A n \in Notifiers : ~(ntf'[n].alive /\ ntf'[n].place = "main")
        BY <1>8, <2>1, OnChangeEffect DEF WorkerIdles, Alive, In, SameHistory
      <4> QED
        BY <4>1 DEF Alive, In
    <3>2. skipVersion' \in {skipVersion, 0}
      BY <2>1 DEF WorkerIdles
    <3> QED
      BY <2>0, <2>1, <3>1, <3>2 DEF WorkerIdles, WorkerInv, fileVars, workerVars
  <2>2. CASE WorkerFails
    BY <2>0, <2>2 DEF WorkerFails, WorkerInv, fileVars, groupVars, workerVars
  <2>3. CASE WorkerBegins
    <3>1. /\ runTo' = latest /\ skipVersion' = 0
          /\ wpc' = IF skipTo' = 0 THEN "advancing" ELSE "skipping"
          /\ skipTo' \in {0, skipVersion} /\ skipTo' \in 0 .. latest
          /\ opened' /\ ~asyncError' /\ latest' = latest /\ writer' = writer
          /\ running' = Alive(In("main")) /\ starting' = Alive(In("new"))
          /\ running' \cup starting' # {}
      BY <2>0, <2>3 DEF WorkerBegins, TakeSkipVersion, TypeOK, fileVars
    <3>2. Alive(In("main"))' \subseteq running' \cup starting'
      <4> SUFFICES ASSUME NEW n \in Notifiers, ntf'[n].alive, ntf'[n].place = "main"
                   PROVE  n \in running' \cup starting'
        BY DEF Alive, In
      <4>1. ntf[n].alive /\ ntf[n].place \in {"main", "new"}
        BY <1>8, OnChangeEffect DEF SameHistory
      <4> QED
        BY <3>1, <4>1 DEF Alive, In
    <3>3. running' \cap starting' = {}
      BY <3>1 DEF Alive, In
    <3> QED
      BY <1>1, <3>1, <3>2, <3>3 DEF WorkerInv
  <2> QED
    BY <1>8, <2>1, <2>2, <2>3 DEF OnChange
<1>9. ASSUME RunToSkip \/ RunToNewest
      PROVE  WorkerInv'
  <2>1. PICK ns \in SUBSET Notifiers, v \in 1 .. runTo :
          /\ \/ wpc = "skipping" /\ wpc' = "skipped" /\ v = skipTo
             \/ wpc = "advancing" /\ wpc' = "advanced" /\ v = runTo
          /\ sgVersion <= v /\ sgVersion' = v
          /\ \A n \in Notifiers : /\ ntf'[n].place = ntf[n].place
                                  /\ ntf'[n].alive = ntf[n].alive
    BY <1>9, RunEffect
  <2>2. Alive(In("main"))' = Alive(In("main"))
    BY <2>1 DEF Alive, In
  <2>3. UNCHANGED <<fileVars, asyncError, opened, skipVersion, running, starting,
                    skipTo, runTo>>
    BY <1>9 DEF RunToSkip, RunToNewest
  <2> QED
    BY <1>1, <2>1, <2>2, <2>3 DEF WorkerInv, fileVars
<1>10. ASSUME HandOverSkipped \/ HandOverNewest
      PROVE  WorkerInv'
  <2>1. PICK ns \in SUBSET Notifiers :
          /\ \/ /\ wpc = "skipped" /\ wpc' = "advancing"
                /\ running' = running /\ starting' = starting
                /\ UNCHANGED <<skipTo, runTo, skipVersion>>
                /\ \A n \in Notifiers : ntf'[n].place = ntf[n].place
             \/ /\ wpc = "advanced" /\ wpc' = "idle"
                /\ running' = {} /\ starting' = {}
                /\ \A n \in Notifiers : ntf'[n].place =
                     IF ntf[n].alive THEN ntf[n].place ELSE "gone"
          /\ \A n \in Notifiers : ntf'[n].alive = ntf[n].alive
    BY <1>10, HandOverEffect
  <2>2. Alive(In("main"))' = Alive(In("main"))
    BY <2>1 DEF Alive, In
  <2>3. UNCHANGED <<fileVars, asyncError, opened, sgVersion>>
    BY <1>10 DEF HandOverSkipped, HandOverNewest, coordVars, groupVars
  <2>4. skipVersion' \in {skipVersion, 0}
    BY <1>10 DEF HandOverSkipped, HandOverNewest, coordVars
  <2>5. CASE wpc = "skipped"
    BY <1>1, <2>1, <2>2, <2>3, <2>5 DEF WorkerInv, fileVars
  <2>6. CASE wpc = "advanced"
    BY <1>1, <2>1, <2>2, <2>3, <2>4, <2>6 DEF WorkerInv, fileVars
  <2> QED
    BY <2>1, <2>5, <2>6
<1> QED
  BY <1>2, <1>3, <1>4, <1>5, <1>6, <1>7, <1>8, <1>9, <1>10
     DEF Next, NotifierStep, WorkerStep

LEMMA HistoryStep ==
    ASSUME BasicInv, TypeOK', [Next]_vars, NEW n \in Notifiers
    PROVE  HistoryOf(n)'
<1> USE DEF BasicInv
<1>1. HistoryOf(n) /\ CallbackOf(n)
  BY DEF NotifierInv
<1>2. /\ ntf[n] \in NotifierT(latest)
      /\ sgVersion \in Nat /\ latest \in Nat \ {0} /\ runTo \in Nat
      /\ ntf[n].rows \in Nat /\ ntf[n].version \in Nat
  BY NotifierFields DEF TypeOK, Version
<1>3. ASSUME UNCHANGED <<ntf, asyncError, groupVars, workerVars>>
      PROVE  HistoryOf(n)'
  BY <1>1, <1>3 DEF HistoryOf, RanNow, groupVars, workerVars
<1>4. ASSUME UNCHANGED vars
      PROVE  HistoryOf(n)'
  BY <1>3, <1>4 DEF vars, ntfVars, coordVars
<1>5. ASSUME NEW r \in Realms, RealmStep(r)
      PROVE  HistoryOf(n)'
  BY <1>3, <1>5, RealmFrame
<1>6. ASSUME NEW m \in Notifiers, RegisterNotifier(m)
      PROVE  HistoryOf(n)'
  <2>1. ntf[m] \in NotifierT(latest)
    BY NotifierFields
  <2>2. \/ ntf'[n] = ntf[n]
        \/ /\ n = m /\ ntf[n].place = "none" /\ ntf'[n].place = "new"
           /\ ntf'[n].alive = ntf[n].alive
           /\ ntf'[n].hasRun = ntf[n].hasRun
           /\ ntf'[n].rows = ntf[n].rows
           /\ ntf'[n].changes = ntf[n].changes
    BY <1>6, <2>1 DEF RegisterNotifier, TypeOK, NotifierT
  <2>3. ntf[n].place = "none" => n \notin running \cup starting
    BY DEF TypeOK, In
  <2>4. ~asyncError' => ~asyncError
    BY <1>6 DEF RegisterNotifier, PinFails
  <2>5. UNCHANGED <<sgVersion, workerVars>>
    BY <1>6 DEF RegisterNotifier
  <2> QED
    BY <1>1, <2>2, <2>3, <2>4, <2>5 DEF HistoryOf, RanNow, workerVars
<1>7. ASSUME NEW m \in Notifiers, Unregister(m)
      PROVE  HistoryOf(n)'
  <2>1. ntf[m] \in NotifierT(latest)
    BY NotifierFields
  <2>2. /\ ntf'[n].place = ntf[n].place
        /\ ntf'[n].alive => ntf[n].alive
        /\ ntf'[n].version = ntf[n].version
        /\ ntf'[n].hasRun = ntf[n].hasRun
        /\ ntf'[n].rows = ntf[n].rows
        /\ ntf'[n].changes = ntf[n].changes
    BY <1>7, <2>1 DEF Unregister, TypeOK, NotifierT
  <2>3. UNCHANGED <<coordVars, workerVars>>
    BY <1>7 DEF Unregister
  <2> QED
    BY <1>1, <2>2, <2>3 DEF HistoryOf, RanNow, coordVars, groupVars, workerVars
<1>8. ASSUME NEW m \in Notifiers, AddCallback(m) \/ RemoveCallback(m) \/ SuppressNext(m)
      PROVE  HistoryOf(n)'
  BY <1>3, <1>8 DEF AddCallback, RemoveCallback, SuppressNext, coordVars
<1>9. ASSUME OnChange
      PROVE  HistoryOf(n)'
  <2>0. wpc = "idle" /\ running = {} /\ starting = {}
    BY <1>9 DEF OnChange, WorkerInv
  <2>1. /\ SameHistory(n)
        /\ \/ ntf'[n].place = ntf[n].place
           \/ ntf'[n].place = "gone" /\ ~ntf[n].alive
           \/ ntf[n].place = "new" /\ ntf[n].alive /\ ntf'[n].place = "main"
    BY <1>9, OnChangeEffect
  <2>2. CASE WorkerIdles \/ WorkerFails
    <3>1. /\ UNCHANGED <<sgVersion, workerVars>>
          /\ asyncError' = asyncError \/ asyncError'
      BY <2>2 DEF WorkerIdles, WorkerFails, groupVars
    <3>2. ~asyncError' => ~(ntf[n].place = "new" /\ ntf'[n].place = "main")
      <4>1. CASE WorkerIdles
        <5>1. ntf'[n] = CleanedUp(n)
          BY <4>1 DEF WorkerIdles
        <5> QED
          BY <1>2, <5>1 DEF CleanedUp, NotifierT
      <4>2. CASE WorkerFails
        BY <4>2 DEF WorkerFails
      <4> QED
        BY <2>2, <4>1, <4>2
    <3> QED
      BY <1>1, <2>0, <2>1, <3>1, <3>2 DEF HistoryOf, SameHistory, RanNow, workerVars
  <2>3. CASE WorkerBegins
    <3>1. /\ ~asyncError /\ ~asyncError'
          /\ running' = Alive(In("main")) /\ starting' = Alive(In("new"))
          /\ wpc' \in {"advancing", "skipping"}
          /\ sgVersion' \in {sgVersion, latest}
      BY <2>3 DEF WorkerBegins
    <3>2. sgVersion <= latest /\ sgVersion <= sgVersion'
      BY <1>2, <3>1 DEF TypeOK
    <3>3. n \in running' <=> ntf[n].place = "main" /\ ntf[n].alive
      BY <3>1 DEF Alive, In
    <3>4. n \in starting' <=> ntf[n].place = "new" /\ ntf[n].alive
      BY <3>1 DEF Alive, In
    <3>5. sgVersion' \in Nat
      BY <1>2, <3>1
    <3>6. ~RanNow(n) /\ ~RanNow(n)'
      BY <2>0, <3>1 DEF RanNow
    <3> QED
      BY <1>1, <1>2, <2>0, <2>1, <3>1, <3>2, <3>3, <3>4, <3>5, <3>6
         DEF HistoryOf, SameHistory
  <2> QED
    BY <1>9, <2>2, <2>3 DEF OnChange
<1>10. ASSUME RunToSkip \/ RunToNewest
      PROVE  HistoryOf(n)'
  <2>1. PICK ns \in SUBSET Notifiers, v \in 1 .. runTo :
          /\ \/ /\ wpc = "skipping" /\ wpc' = "skipped"
                /\ ns = running /\ v = skipTo
             \/ /\ wpc = "advancing" /\ wpc' = "advanced"
                /\ ns = running \cup starting /\ v = runTo
          /\ sgVersion <= v /\ sgVersion' = v
          /\ \/ ntf'[n] = ntf[n] /\ (n \in ns =>
                  ~callback[n].present /\ n \notin starting)
             \/ /\ n \in ns
                /\ ntf'[n].place = ntf[n].place
                /\ ntf'[n].alive = ntf[n].alive
                /\ ntf'[n].version = ntf[n].version
                /\ ntf'[n].hasRun = ntf[n].hasRun
                /\ ntf'[n].rows = v
                /\ ntf'[n].changes = IF ntf[n].hasRun /\ callback[n].present
                                     THEN Between(ntf[n].rows, v) ELSE {}
    BY <1>10, RunEffect
  <2>2. UNCHANGED <<asyncError, running, starting>>
    BY <1>10 DEF RunToSkip, RunToNewest
  <2>3. ~RanNow(n)
    BY <2>1 DEF RanNow
  <2>4. n \in ns => RanNow(n)'
    BY <2>1, <2>2 DEF RanNow
  <2>5. Between(ntf[n].rows, v) \subseteq 1 .. v
    BY <1>2 DEF Between
  <2>6. ntf[n].hasRun => ntf[n].version \in 1 .. sgVersion'
    BY <1>1, <1>2, <2>1 DEF HistoryOf
  <2>7. ntf[n].rows <= sgVersion'
    BY <1>1, <1>2, <2>1 DEF HistoryOf
  <2>8. CASE ntf'[n] = ntf[n] /\ (n \in ns =>
                  ~callback[n].present /\ n \notin starting)
    BY <1>1, <2>1, <2>2, <2>3, <2>6, <2>7, <2>8 DEF HistoryOf
  <2>9. CASE /\ n \in ns
             /\ ntf'[n].place = ntf[n].place
             /\ ntf'[n].alive = ntf[n].alive
             /\ ntf'[n].version = ntf[n].version
             /\ ntf'[n].hasRun = ntf[n].hasRun
             /\ ntf'[n].rows = v
             /\ ntf'[n].changes = IF ntf[n].hasRun /\ callback[n].present
                                  THEN Between(ntf[n].rows, v) ELSE {}
    BY <1>1, <1>2, <2>1, <2>2, <2>4, <2>5, <2>6, <2>9 DEF HistoryOf
  <2> QED
    BY <2>1, <2>8, <2>9
<1>11. ASSUME HandOverSkipped \/ HandOverNewest
      PROVE  HistoryOf(n)'
  <2>1. PICK ns \in SUBSET Notifiers :
          /\ \/ /\ wpc = "skipped" /\ wpc' = "advancing" /\ ns = running
                /\ running' = running /\ starting' = starting
                /\ ntf'[n].place = ntf[n].place
             \/ /\ wpc = "advanced" /\ wpc' = "idle"
                /\ ns = running \cup starting
                /\ running' = {} /\ starting' = {}
                /\ ntf'[n].place = IF ntf[n].alive THEN ntf[n].place ELSE "gone"
          /\ ntf'[n].alive = ntf[n].alive
          /\ ntf'[n].rows = ntf[n].rows
          /\ n \in ns => /\ ntf'[n].version = sgVersion
                         /\ ntf'[n].hasRun
                         /\ ntf'[n].changes = {}
          /\ n \notin ns => SameHistory(n)
    BY <1>11, HandOverEffect
  <2>2. UNCHANGED <<asyncError, sgVersion>>
    BY <1>11 DEF HandOverSkipped, HandOverNewest, coordVars, groupVars
  <2>3. /\ wpc = "skipped" => sgVersion >= 1
        /\ wpc = "advanced" => sgVersion >= 1
        /\ running \cap starting = {}
    BY <1>2 DEF WorkerInv, TypeOK
  <2>4. n \in running \cup starting => ntf[n].place = "main"
    BY DEF TypeOK, In
  <2>5. CASE wpc = "skipped"
    BY <1>1, <1>2, <2>1, <2>2, <2>3, <2>4, <2>5 DEF HistoryOf, RanNow, SameHistory
  <2>6. CASE wpc = "advanced"
    BY <1>1, <1>2, <2>1, <2>2, <2>3, <2>4, <2>6 DEF HistoryOf, RanNow, SameHistory
  <2> QED
    BY <2>1, <2>5, <2>6
<1> QED
  BY <1>4, <1>5, <1>6, <1>7, <1>8, <1>9, <1>10, <1>11
     DEF Next, NotifierStep, WorkerStep

-----------------------------------------------------------------------------
(* What the steps do to each callback *)

(* Of a callback that stays, all but its changes and its first call *)
SameCallback(n) ==
    /\ callback[n].present /\ callback'[n].present
    /\ callback'[n].late = callback[n].late
    /\ callback'[n].dropped = callback[n].dropped
    /\ callback'[n].skipNext = callback[n].skipNext

(* package_for_delivery *)
IsPackaged(n) ==
    /\ SameCallback(n)
    /\ callback'[n].toDeliver = callback[n].accumulated
    /\ callback'[n].accumulated = {}
    /\ callback'[n].seen = callback[n].seen
    /\ callback'[n].suppressed = callback[n].suppressed
    /\ callback'[n].initial = callback[n].initial
    /\ callback'[n].base = callback[n].base

(* A call; b is the version at its first. *)
IsCalled(n, b) ==
    /\ SameCallback(n)
    /\ callback'[n].toDeliver = {}
    /\ callback'[n].accumulated = callback[n].accumulated
    /\ callback'[n].seen = callback[n].seen \cup callback[n].toDeliver
    /\ callback'[n].suppressed = callback[n].suppressed
    /\ callback'[n].initial
    /\ callback'[n].base = IF callback[n].initial THEN callback[n].base ELSE b

LEMMA PackageForDeliveryEffect ==
    ASSUME TypeOK, NEW ns, PackageForDelivery(ns), NEW n \in Notifiers
    PROVE  \/ callback'[n] = callback[n] /\ ~(n \in ns /\ callback[n].present)
           \/ n \in ns /\ IsPackaged(n)
<1>1. PICK c \in CallbackT(latest) : c = callback[n]
  BY NotifierFields
<1>2. CASE n \in ns /\ callback[n].present
  <2>1. callback'[n] = [c EXCEPT !.toDeliver = c.accumulated, !.accumulated = {}]
    BY <1>1, <1>2 DEF PackageForDelivery
  <2> QED
    BY <1>1, <1>2, <2>1 DEF IsPackaged, SameCallback, CallbackT
<1>3. CASE ~(n \in ns /\ callback[n].present)
  BY <1>3 DEF PackageForDelivery
<1> QED
  BY <1>2, <1>3

LEMMA DeliverEffect ==
    ASSUME TypeOK, NEW r \in Realms, NEW v \in 1 .. latest, Deliver(r, v),
           NEW n \in Notifiers
    PROVE  LET ns == package[r].notifiers
               at == IF package[r].version = 0 THEN v ELSE package[r].version
           IN  \/ package[r].error /\ n \in ns /\ callback'[n] = NoCallback
               \/ /\ callback'[n] = callback[n]
                  /\ \/ n \notin ns
                     \/ /\ ~package[r].error
                        /\ ~callback[n].present
                           \/ (callback[n].initial /\ callback[n].toDeliver = {})
               \/ /\ ~package[r].error /\ n \in ns
                  /\ IsCalled(n, Newer(at, v))
<1> DEFINE ns == package[r].notifiers
           at == IF package[r].version = 0 THEN v ELSE package[r].version
           b == IF callback[n].initial THEN callback[n].base ELSE Newer(at, v)
<1>1. PICK c \in CallbackT(latest) : c = callback[n]
  BY NotifierFields
<1>2. CASE package[r].error
  <2>1. callback'[n] = IF n \in ns THEN NoCallback ELSE callback[n]
    BY <1>2, Zenon DEF Deliver, Forget
  <2> QED
    BY <1>2, <2>1
<1>3. CASE ~package[r].error
  <2>1. CASE /\ n \in ns /\ callback[n].present
             /\ ~callback[n].initial \/ callback[n].toDeliver # {}
    <3>1. callback' = [m \in Notifiers |->
            IF /\ m \in ns /\ callback[m].present
               /\ ~callback[m].initial \/ callback[m].toDeliver # {}
            THEN [callback[m] EXCEPT
                    !.seen = @ \cup callback[m].toDeliver,
                    !.toDeliver = {}, !.initial = TRUE,
                    !.base = IF callback[m].initial THEN @ ELSE Newer(at, v)]
            ELSE callback[m]]
      BY <1>3 DEF Deliver
    <3>2. callback'[n] = [callback[n] EXCEPT
                    !.seen = @ \cup callback[n].toDeliver,
                    !.toDeliver = {}, !.initial = TRUE, !.base = b]
      BY <2>1, <3>1, Zenon
    <3>3. PICK d : d = b
      OBVIOUS
    <3>4. callback'[n] = [c EXCEPT !.seen = @ \cup c.toDeliver,
                                   !.toDeliver = {}, !.initial = TRUE, !.base = d]
      BY <1>1, <3>2, <3>3
    <3>5. d = IF callback[n].initial THEN callback[n].base ELSE Newer(at, v)
      BY <3>3
    <3> HIDE DEF at, b
    <3>6. IsCalled(n, Newer(at, v))
      BY <1>1, <2>1, <3>4, <3>5 DEF IsCalled, SameCallback, CallbackT
    <3> QED
      BY <1>3, <2>1, <3>6 DEF at
  <2>2. CASE ~(/\ n \in ns /\ callback[n].present
               /\ ~callback[n].initial \/ callback[n].toDeliver # {})
    <3>1. callback'[n] = callback[n]
      BY <1>3, <2>2 DEF Deliver
    <3> QED
      BY <1>1, <1>3, <2>2, <3>1 DEF CallbackT
  <2> QED
    BY <2>1, <2>2
<1> QED
  BY <1>2, <1>3

(* A step of a Realm's thread packages or calls a callback of that Realm,   *)
(* notes what its commit suppresses, or removes the callback. *)
LEMMA RealmEffect ==
    ASSUME BasicInv, NEW r \in Realms, RealmStep(r), NEW n \in Notifiers
    PROVE  /\ n \in asked' => n \in asked
           /\ \/ callback'[n] = callback[n]
              \/ callback'[n] = NoCallback /\ n \notin asked'
              \/ /\ n \in asked /\ Commit(r) /\ n \notin asked'
                 /\ callback'[n] =
                      [callback[n] EXCEPT !.suppressed = @ \cup {latest'}]
              \/ IsPackaged(n)
              \/ \E b : IsCalled(n, b)
<1> USE DEF BasicInv
<1>1. CASE PackageAndWait(r)
  BY <1>1, PackageForDeliveryEffect DEF PackageAndWait, histVars
<1>2. CASE Sleep(r) \/ Return(r) \/ BeginRead(r) \/ BeginTransaction(r)
           \/ BeginInCallback(r) \/ CancelTransaction(r) \/ Invalidate(r)
  BY <1>2 DEF Sleep, Return, BeginRead, BeginTransaction, BeginInCallback,
              CancelTransaction, Invalidate, ntfVars, realmVars, histVars
<1>3. CASE Advance(r)
  <2> DEFINE v == IF package[r].caller = "available" THEN version[r]
                  ELSE IF package[r].caller = "write" \/ package[r].version = 0
                  THEN latest ELSE package[r].version
  <2>1. version[r] \in 1 .. latest /\ latest \in 1 .. latest
        /\ package[r].version \in 0 .. latest
    BY DEF TypeOK, Version
  <2>2. v \in 1 .. latest
    BY <2>1
  <2>3. CASE Deliver(r, v)
    <3> HIDE DEF v
    <3> QED
      BY <2>2, <2>3, DeliverEffect DEF Deliver, Forget
  <2>4. CASE UNCHANGED <<callback, asked>>
    BY <2>4
  <2> QED
    BY <1>3, <2>3, <2>4, Zenon DEF Advance
<1>4. CASE Notify(r)
  BY <1>4, PackageForDeliveryEffect DEF Notify, ProcessAvailable, histVars
<1>5. CASE Refresh(r)
  BY <1>5, PackageForDeliveryEffect DEF Refresh, ProcessAvailable
<1>6. CASE Commit(r)
  BY <1>6 DEF Commit
<1> QED
  BY <1>1, <1>2, <1>3, <1>4, <1>5, <1>6 DEF RealmStep

(* What AddCallback, SuppressNext, a commit and AddChanges leave of a callback *)
LEMMA SuppressedFields ==
    ASSUME TypeOK, NEW n \in Notifiers, NEW v,
           callback'[n] = [callback[n] EXCEPT !.suppressed = @ \cup {v}]
    PROVE  /\ callback'[n].present = callback[n].present
           /\ callback'[n].initial = callback[n].initial
           /\ callback'[n].late = callback[n].late
           /\ callback'[n].base = callback[n].base
           /\ callback'[n].skipNext = callback[n].skipNext
           /\ callback'[n].dropped = callback[n].dropped
           /\ callback'[n].accumulated = callback[n].accumulated
           /\ callback'[n].toDeliver = callback[n].toDeliver
           /\ callback'[n].seen = callback[n].seen
           /\ callback'[n].suppressed = callback[n].suppressed \cup {v}
<1>1. PICK c \in CallbackT(latest) : c = callback[n]
  BY NotifierFields
<1> QED
  BY <1>1 DEF CallbackT

LEMMA AddedFields ==
    ASSUME TypeOK, NEW n \in Notifiers, AddCallback(n)
    PROVE  /\ callback'[n].present
           /\ callback'[n].initial = callback[n].initial
           /\ callback'[n].late <=> n \in running /\ wpc \in {"skipped", "advanced"}
           /\ callback'[n].base = callback[n].base
           /\ callback'[n].skipNext = callback[n].skipNext
           /\ callback'[n].dropped = callback[n].dropped
           /\ callback'[n].accumulated = callback[n].accumulated
           /\ callback'[n].toDeliver = callback[n].toDeliver
           /\ callback'[n].seen = callback[n].seen
           /\ callback'[n].suppressed = callback[n].suppressed
<1>1. PICK c \in CallbackT(latest) : c = callback[n]
  BY NotifierFields
<1>2. PICK late \in BOOLEAN :
        late = (n \in running /\ wpc \in {"skipped", "advanced"})
  OBVIOUS
<1>3. callback'[n] = [c EXCEPT !.present = TRUE, !.late = late]
  BY <1>1, <1>2 DEF AddCallback, TypeOK
<1> QED
  BY <1>1, <1>2, <1>3 DEF CallbackT

LEMMA SkippingFields ==
    ASSUME TypeOK, NEW n \in Notifiers, SuppressNext(n)
    PROVE  /\ callback'[n].present /\ callback[n].present
           /\ callback'[n].initial = callback[n].initial
           /\ callback'[n].late = callback[n].late
           /\ callback'[n].base = callback[n].base
           /\ callback'[n].skipNext
           /\ callback'[n].dropped = callback[n].dropped
           /\ callback'[n].accumulated = callback[n].accumulated
           /\ callback'[n].toDeliver = callback[n].toDeliver
           /\ callback'[n].seen = callback[n].seen
           /\ callback'[n].suppressed = callback[n].suppressed
<1>1. PICK c \in CallbackT(latest) : c = callback[n]
  BY NotifierFields
<1>2. callback'[n] = [c EXCEPT !.skipNext = TRUE] /\ c.present
  BY <1>1 DEF SuppressNext, TypeOK
<1> QED
  BY <1>1, <1>2 DEF CallbackT

LEMMA AddChangesFields ==
    ASSUME TypeOK, NEW n \in Notifiers, NEW x,
           callback'[n] = AddChanges(callback[n], x)
    PROVE  /\ callback'[n].present = callback[n].present
           /\ callback'[n].initial = callback[n].initial
           /\ callback'[n].late = callback[n].late
           /\ callback'[n].base = callback[n].base
           /\ ~callback'[n].skipNext
           /\ callback'[n].toDeliver = callback[n].toDeliver
           /\ callback'[n].seen = callback[n].seen
           /\ callback'[n].suppressed = callback[n].suppressed
           /\ callback[n].skipNext =>
                /\ callback'[n].dropped = callback[n].dropped \cup x
                /\ callback'[n].accumulated = callback[n].accumulated
           /\ ~callback[n].skipNext =>
                /\ callback'[n].dropped = callback[n].dropped
                /\ callback'[n].accumulated = callback[n].accumulated \cup x
<1>1. PICK c \in CallbackT(latest) : c = callback[n]
  BY NotifierFields
<1> QED
  BY <1>1 DEF CallbackT, AddChanges

LEMMA CallbackStep ==
    ASSUME BasicInv, TypeOK', [Next]_vars, NEW n \in Notifiers
    PROVE  CallbackOf(n)'
<1> USE DEF BasicInv
<1>1. CallbackOf(n)
  BY DEF NotifierInv
<1>2. ASSUME UNCHANGED vars
      PROVE  CallbackOf(n)'
  BY <1>1, <1>2 DEF CallbackOf, vars, ntfVars, histVars
<1>3. ASSUME NEW r \in Realms, RealmStep(r)
      PROVE  CallbackOf(n)'
  <2>1. ntf' = ntf
    BY <1>3, RealmFrame
  <2>2. \/ callback'[n] = callback[n] /\ (n \in asked' => n \in asked)
        \/ callback'[n] = NoCallback /\ n \notin asked'
        \/ callback[n].present /\ callback'[n].present
    <3>1. CASE n \in asked /\ callback'[n] =
                 [callback[n] EXCEPT !.suppressed = @ \cup {latest'}]
      BY <1>1, <3>1, SuppressedFields DEF CallbackOf
    <3> QED
      BY <1>3, <3>1, RealmEffect DEF IsPackaged, IsCalled, SameCallback
  <2> QED
    BY <1>1, <2>1, <2>2 DEF CallbackOf, NoCallback
<1>4. ASSUME NEW m \in Notifiers, RegisterNotifier(m) \/ Unregister(m)
      PROVE  CallbackOf(n)'
  <2>1. UNCHANGED <<callback, asked>>
    BY <1>4 DEF RegisterNotifier, Unregister, histVars
  <2>2. \/ ntf'[n].alive = ntf[n].alive /\ ntf'[n].place \in {ntf[n].place, "new"}
        \/ ~callback[n].present
    BY <1>4, NotifierFields DEF RegisterNotifier, Unregister, TypeOK, NotifierT
  <2> QED
    BY <1>1, <2>1, <2>2 DEF CallbackOf
<1>5. ASSUME NEW m \in Notifiers, AddCallback(m)
      PROVE  CallbackOf(n)'
  <2>1. UNCHANGED <<ntf, asked>>
    BY <1>5 DEF AddCallback, histVars
  <2>2. m = n => ntf[n].alive /\ ntf[n].place \in {"new", "main"}
    BY <1>5 DEF AddCallback, NotifiersFor, Alive, In
  <2>3. /\ m = n => callback'[n].present
        /\ m # n => callback'[n] = callback[n]
    <3>1. CASE m = n
      BY <1>5, <3>1, AddedFields
    <3>2. CASE m # n
      BY <1>5, <3>2 DEF AddCallback, TypeOK
    <3> QED
      BY <3>1, <3>2
  <2> QED
    BY <1>1, <2>1, <2>2, <2>3 DEF CallbackOf
<1>6. ASSUME NEW m \in Notifiers, RemoveCallback(m)
      PROVE  CallbackOf(n)'
  <2>1. /\ ntf' = ntf
        /\ asked' = asked \ {m}
        /\ callback'[n] = IF n = m THEN NoCallback ELSE callback[n]
    BY <1>6 DEF RemoveCallback, Forget
  <2> QED
    BY <1>1, <2>1 DEF CallbackOf, NoCallback
<1>7. ASSUME NEW m \in Notifiers, SuppressNext(m)
      PROVE  CallbackOf(n)'
  <2>1. /\ ntf' = ntf /\ asked' = asked \cup {m}
        /\ m = n => callback[n].present /\ callback'[n].present
        /\ m # n => callback'[n] = callback[n]
    BY <1>7, SkippingFields DEF SuppressNext, TypeOK
  <2> QED
    BY <1>1, <2>1 DEF CallbackOf
<1>8. ASSUME OnChange
      PROVE  CallbackOf(n)'
  <2>1. UNCHANGED <<callback, asked>>
    BY <1>8 DEF OnChange, histVars
  <2>2. /\ ntf'[n].alive = ntf[n].alive
        /\ ntf[n].alive /\ ntf[n].place \in {"new", "main"} =>
             ntf'[n].place \in {"new", "main"}
    BY <1>8, OnChangeEffect DEF SameHistory
  <2> QED
    BY <1>1, <2>1, <2>2 DEF CallbackOf
<1>9. ASSUME RunToSkip \/ RunToNewest
      PROVE  CallbackOf(n)'
  <2>1. UNCHANGED <<callback, asked>>
    BY <1>9 DEF RunToSkip, RunToNewest, histVars
  <2>2. ntf'[n].alive = ntf[n].alive /\ ntf'[n].place = ntf[n].place
    BY <1>9, RunEffect
  <2> QED
    BY <1>1, <2>1, <2>2 DEF CallbackOf
<1>10. ASSUME HandOverSkipped \/ HandOverNewest
      PROVE  CallbackOf(n)'
  <2>1. /\ ntf'[n].alive = ntf[n].alive
        /\ ntf[n].alive => ntf'[n].place = ntf[n].place
        /\ \/ callback'[n] = callback[n]
           \/ /\ callback[n].present
              /\ callback'[n] = AddChanges(callback[n], ntf[n].changes)
    BY <1>10, HandOverEffect
  <2>2. asked' = asked
    BY <1>10 DEF HandOverSkipped, HandOverNewest, histVars
  <2>3. callback'[n].present = callback[n].present
    BY <2>1, AddChangesFields
  <2> QED
    BY <1>1, <2>1, <2>2, <2>3 DEF CallbackOf
<1> QED
  BY <1>2, <1>3, <1>4, <1>5, <1>6, <1>7, <1>8, <1>9, <1>10
     DEF Next, NotifierStep, WorkerStep

LEMMA BasicStep ==
    ASSUME BasicInv, [Next]_vars
    PROVE  BasicInv'
<1>1. TypeOK'
  BY TypeStep
<1>2. WorkerInv'
  BY <1>1, WorkerStepInv
<1>3. NotifierInv'
  <2>1. \A n \in Notifiers : HistoryOf(n)' /\ CallbackOf(n)'
    BY <1>1, HistoryStep, CallbackStep
  <2> QED
    BY <2>1 DEF NotifierInv
<1> QED
  BY <1>1, <1>2, <1>3 DEF BasicInv

(* Every variable of the notifications keeps its type, no Realm or notifier *)
(* is ahead of the file, and the worker never goes back. *)
THEOREM TypeCorrect == Spec => []TypeOK
<1>1. Spec => []BasicInv
  BY BasicInit, BasicStep, PTL DEF Spec
<1>2. BasicInv => TypeOK
  BY DEF BasicInv
<1> QED
  BY <1>1, <1>2, PTL

-----------------------------------------------------------------------------
(* The pinned version *)

(* Dead notifiers that are still in m_new_notifiers count as well: they keep *)
(* PinVersion from moving the pin to a newer version. *)
Pinned == ~asyncError => \A n \in In("new") : pin \in 1 .. ntf[n].version

LEMMA PinnedStep ==
    ASSUME BasicInv, Pinned, [Next]_vars
    PROVE  Pinned'
<1> USE DEF BasicInv
<1>1. ASSUME \A n \in Notifiers : /\ ntf'[n].place = "new" => ntf[n].place = "new"
                                  /\ ntf'[n].place = "new" =>
                                       ntf'[n].version = ntf[n].version,
             UNCHANGED <<asyncError, pin>>
      PROVE  Pinned'
  BY <1>1 DEF Pinned, In
<1>2. ASSUME UNCHANGED <<ntf, asyncError, pin>>
      PROVE  Pinned'
  BY <1>2 DEF Pinned, In
<1>3. ASSUME UNCHANGED vars
      PROVE  Pinned'
  BY <1>2, <1>3 DEF vars, ntfVars, coordVars, groupVars
<1>4. ASSUME NEW r \in Realms, RealmStep(r)
      PROVE  Pinned'
  BY <1>2, <1>4, RealmFrame DEF groupVars
<1>5. ASSUME NEW n \in Notifiers, RegisterNotifier(n)
      PROVE  Pinned'
  <2> DEFINE v == version[realmOf[n]]
  <2>1. v \in Nat \ {0} /\ pin \in Nat
    BY DEF TypeOK, Version
  <2>2. /\ ntf'[n].version = v
        /\ \A m \in Notifiers \ {n} : ntf'[m] = ntf[m]
    BY <1>5, NotifierFields DEF RegisterNotifier, TypeOK, NotifierT
  <2>3. CASE asyncError \/ PinFails
    BY <1>5, <2>3 DEF RegisterNotifier, PinFails, Pinned
  <2>4. CASE ~asyncError /\ PinVersion(v) /\ UNCHANGED asyncError
    <3>1. CASE In("new") = {}
      <4>1. pin' = v
        BY <2>4, <3>1 DEF PinVersion
      <4>2. \A m \in In("new")' : m = n
        BY <2>2, <3>1 DEF In
      <4> QED
        BY <2>1, <2>2, <4>1, <4>2 DEF Pinned
    <3>2. CASE In("new") # {}
      <4>1. pin >= 1 /\ \A m \in In("new") : pin <= ntf[m].version
        BY <2>4, <3>2 DEF Pinned, In
      <4>2. pin' \in Nat /\ pin' >= 1 /\ pin' <= pin /\ pin' <= v
        BY <2>1, <2>4, <3>2, <4>1 DEF PinVersion
      <4>3. \A m \in In("new")' : m = n \/ (m \in In("new") /\ ntf'[m] = ntf[m])
        BY <2>2 DEF In
      <4>4. \A m \in In("new")' :
              pin' <= ntf'[m].version /\ ntf'[m].version \in Nat
        <5> SUFFICES ASSUME NEW m \in In("new")'
                     PROVE  pin' <= ntf'[m].version /\ ntf'[m].version \in Nat
          OBVIOUS
        <5>1. CASE m = n
          BY <2>1, <2>2, <4>2, <5>1
        <5>2. CASE m \in In("new") /\ ntf'[m] = ntf[m]
          <6>1. ntf[m].version \in Nat
            BY <5>2 DEF TypeOK, In, Version
          <6> QED
            BY <2>1, <4>1, <4>2, <5>2, <6>1
        <5> QED
          BY <4>3, <5>1, <5>2
      <4> QED
        BY <4>2, <4>4 DEF Pinned
    <3> QED
      BY <3>1, <3>2
  <2> QED
    BY <1>5, <2>3, <2>4 DEF RegisterNotifier
<1>6. ASSUME NEW n \in Notifiers, Unregister(n)
      PROVE  Pinned'
  <2>1. \A m \in Notifiers : ntf'[m].place = ntf[m].place
                             /\ ntf'[m].version = ntf[m].version
    BY <1>6, NotifierFields DEF Unregister, TypeOK, NotifierT
  <2> QED
    BY <1>1, <1>6, <2>1 DEF Unregister, coordVars, groupVars
<1>7. ASSUME NEW n \in Notifiers, AddCallback(n) \/ RemoveCallback(n) \/ SuppressNext(n)
      PROVE  Pinned'
  BY <1>2, <1>7 DEF AddCallback, RemoveCallback, SuppressNext, coordVars, groupVars
<1>8. ASSUME OnChange
      PROVE  Pinned'
  <2>1. CASE WorkerFails
    BY <2>1 DEF WorkerFails, Pinned
  <2>2. CASE WorkerIdles \/ WorkerBegins
    <3>1. \A n \in Notifiers : ntf'[n].place # "new"
      BY <1>8, <2>2, NotifierFields
         DEF WorkerIdles, WorkerBegins, CleanedUp, Alive, In, NotifierT
    <3> QED
      BY <3>1 DEF Pinned, In
  <2> QED
    BY <1>8, <2>1, <2>2 DEF OnChange
<1>9. ASSUME RunToSkip \/ RunToNewest
      PROVE  Pinned'
  <2>1. \A n \in Notifiers : ntf'[n].place = ntf[n].place
                             /\ ntf'[n].version = ntf[n].version
    BY <1>9, RunEffect
  <2> QED
    BY <1>1, <1>9, <2>1 DEF RunToSkip, RunToNewest
<1>10. ASSUME HandOverSkipped \/ HandOverNewest
      PROVE  Pinned'
  <2>1. PICK ns \in SUBSET Notifiers :
          /\ ns \subseteq running \cup starting
          /\ \/ /\ wpc = "skipped" /\ pin' = pin
                /\ \A n \in Notifiers : ntf'[n].place = ntf[n].place
             \/ /\ wpc = "advanced"
                /\ \A n \in Notifiers : ntf'[n].place =
                     IF ntf[n].alive THEN ntf[n].place ELSE "gone"
          /\ \A n \in Notifiers : n \notin ns => ntf'[n].version = ntf[n].version
    BY <1>10, HandOverEffect DEF SameHistory
  <2>2. \A n \in ns : ntf[n].place = "main"
    BY <2>1 DEF TypeOK, In
  <2>3. \A n \in Notifiers :
          ntf'[n].place = "new" => /\ ntf[n].place = "new"
                                   /\ ntf'[n].version = ntf[n].version
    BY <2>1, <2>2
  <2>4. asyncError' = asyncError
    BY <1>10 DEF HandOverSkipped, HandOverNewest, coordVars
  <2>5. CASE wpc = "skipped"
    BY <1>1, <2>1, <2>3, <2>4, <2>5
  <2>6. CASE wpc = "advanced"
    <3>1. \/ pin' = pin
          \/ Alive(In("new")) = {}
      BY <1>10, <2>6 DEF HandOverSkipped, HandOverNewest
    <3>2. CASE Alive(In("new")) = {}
      <4>1. In("new")' = {}
        BY <2>1, <2>6, <3>2 DEF Alive, In
      <4> QED
        BY <4>1 DEF Pinned
    <3> QED
      BY <1>1, <2>3, <2>4, <3>1, <3>2
  <2> QED
    BY <2>1, <2>5, <2>6
<1> QED
  BY <1>3, <1>4, <1>5, <1>6, <1>7, <1>8, <1>9, <1>10
     DEF Next, NotifierStep, WorkerStep

(* Whatever is registered and let go in the meantime, the version a new     *)
(* notifier was handed over at can still be read when the worker takes it.  *)
THEOREM Handover == Spec => []HandoverIsPinned
<1>1. Init => Pinned
  BY DEF Init, Pinned, In, NewNotifier
<1>2. Pinned => HandoverIsPinned
  BY DEF Pinned, HandoverIsPinned, Alive
<1> QED
  BY <1>1, <1>2, BasicInit, BasicStep, PinnedStep, PTL DEF Spec

-----------------------------------------------------------------------------
(* The versions the notifiers are at *)

Agree ==
    /\ wpc \notin {"skipped", "advanced"} =>
         \A n \in Alive(In("main")) :
           ntf[n].hasRun => ntf[n].version = sgVersion
    /\ RunNotifiersAgree

LEMMA AgreeStep ==
    ASSUME BasicInv, Agree, [Next]_vars
    PROVE  Agree'
<1> USE DEF BasicInv
<1>1. ASSUME \A n \in Notifiers :
               ntf'[n].alive /\ ntf'[n].place = "main" /\ ntf'[n].hasRun =>
                 /\ ntf[n].alive /\ ntf[n].place = "main" /\ ntf[n].hasRun
                 /\ ntf'[n].version = ntf[n].version,
             wpc' \notin {"skipped", "advanced"} =>
               wpc' = wpc /\ sgVersion' = sgVersion
      PROVE  Agree'
  BY <1>1 DEF Agree, RunNotifiersAgree, Alive, In
<1>2. ASSUME UNCHANGED <<ntf, sgVersion, wpc>>
      PROVE  Agree'
  BY <1>2 DEF Agree, RunNotifiersAgree, Alive, In
<1>3. ASSUME UNCHANGED vars
      PROVE  Agree'
  BY <1>2, <1>3 DEF vars, ntfVars, coordVars, groupVars, workerVars
<1>4. ASSUME NEW r \in Realms, RealmStep(r)
      PROVE  Agree'
  BY <1>2, <1>4, RealmFrame DEF groupVars, workerVars
<1>5. ASSUME NEW n \in Notifiers, RegisterNotifier(n)
      PROVE  Agree'
  <2>1. /\ \A m \in Notifiers \ {n} : ntf'[m] = ntf[m]
        /\ ntf'[n].place = "new"
    BY <1>5, NotifierFields DEF RegisterNotifier, TypeOK, NotifierT
  <2> QED
    BY <1>1, <1>5, <2>1 DEF RegisterNotifier, workerVars
<1>6. ASSUME NEW n \in Notifiers, Unregister(n)
      PROVE  Agree'
  <2>1. \A m \in Notifiers : /\ ntf'[m].place = ntf[m].place
                             /\ ntf'[m].alive => ntf[m].alive
                             /\ ntf'[m].hasRun = ntf[m].hasRun
                             /\ ntf'[m].version = ntf[m].version
    BY <1>6, NotifierFields DEF Unregister, TypeOK, NotifierT
  <2> QED
    BY <1>1, <1>6, <2>1 DEF Unregister, coordVars, groupVars, workerVars
<1>7. ASSUME NEW n \in Notifiers, AddCallback(n) \/ RemoveCallback(n) \/ SuppressNext(n)
      PROVE  Agree'
  BY <1>2, <1>7 DEF AddCallback, RemoveCallback, SuppressNext, coordVars, groupVars,
                    workerVars
<1>8. ASSUME OnChange
      PROVE  Agree'
  <2>1. \A n \in Notifiers :
          ntf'[n].alive /\ ntf'[n].place = "main" /\ ntf'[n].hasRun =>
            /\ ntf[n].alive /\ ntf[n].place = "main" /\ ntf[n].hasRun
            /\ ntf'[n].version = ntf[n].version
    BY <1>8, OnChangeEffect DEF SameHistory, NotifierInv, HistoryOf
  <2>2. CASE WorkerIdles \/ WorkerFails
    BY <1>1, <2>1, <2>2 DEF WorkerIdles, WorkerFails, groupVars, workerVars
  <2>3. CASE WorkerBegins
    <3>1. Alive(In("main")) # {} => sgVersion' = sgVersion
      BY <2>3 DEF WorkerBegins, WorkerInv
    <3>2. wpc \notin {"skipped", "advanced"}
      BY <1>8 DEF OnChange
    <3>3. \A n \in Alive(In("main")) :
            ntf[n].hasRun => ntf[n].version = sgVersion
      BY <3>2 DEF Agree
    <3>4. \A n \in Alive(In("main"))' :
            ntf'[n].hasRun => ntf'[n].version = sgVersion'
      BY <2>1, <3>1, <3>3 DEF Alive, In
    <3> QED
      BY <3>4 DEF Agree, RunNotifiersAgree
  <2> QED
    BY <1>8, <2>2, <2>3 DEF OnChange
<1>9. ASSUME RunToSkip \/ RunToNewest
      PROVE  Agree'
  <2>1. \A n \in Notifiers : /\ ntf'[n].place = ntf[n].place
                             /\ ntf'[n].alive = ntf[n].alive
                             /\ ntf'[n].hasRun = ntf[n].hasRun
                             /\ ntf'[n].version = ntf[n].version
    BY <1>9, RunEffect
  <2>2. wpc' \in {"skipped", "advanced"}
    BY <1>9 DEF RunToSkip, RunToNewest
  <2> QED
    BY <1>1, <2>1, <2>2
<1>10. ASSUME HandOverSkipped \/ HandOverNewest
      PROVE  Agree'
  <2>1. PICK ns \in SUBSET Notifiers :
          /\ \/ wpc = "skipped" /\ ns = running
             \/ wpc = "advanced" /\ ns = running \cup starting
          /\ \A n \in Notifiers :
               /\ ntf'[n].alive = ntf[n].alive
               /\ \/ ntf'[n].place = ntf[n].place
                  \/ ntf'[n].place = IF ntf[n].alive THEN ntf[n].place ELSE "gone"
               /\ n \in ns => ntf'[n].version = sgVersion
               /\ n \notin ns => SameHistory(n)
    BY <1>10, HandOverEffect, Zenon
  <2>2. sgVersion' = sgVersion
    BY <1>10 DEF HandOverSkipped, HandOverNewest, coordVars, groupVars
  <2>3. \A n \in Notifiers :
          ntf'[n].alive /\ ntf'[n].place = "main" /\ ntf'[n].hasRun =>
            ntf'[n].version = sgVersion'
    <3> SUFFICES ASSUME NEW n \in Notifiers,
                        ntf'[n].alive, ntf'[n].place = "main", ntf'[n].hasRun
                 PROVE  n \in ns
      BY <2>1, <2>2
    <3>1. n \in running \cup starting
      BY <2>1 DEF WorkerInv, Alive, In
    <3>2. n \in starting => ~ntf[n].hasRun
      BY DEF NotifierInv, HistoryOf
    <3> QED
      BY <2>1, <3>1, <3>2 DEF SameHistory
  <2> QED
    BY <2>3 DEF Agree, RunNotifiersAgree, Alive, In
<1> QED
  BY <1>3, <1>4, <1>5, <1>6, <1>7, <1>8, <1>9, <1>10
     DEF Next, NotifierStep, WorkerStep

(* Notifiers of any number, registered at any versions and run in turns,    *)
(* are at one version whenever a thread may look. *)
THEOREM RunAgree == Spec => []RunNotifiersAgree
<1>1. Init => Agree
  BY DEF Init, Agree, RunNotifiersAgree, Alive, In, NewNotifier
<1>2. Agree => RunNotifiersAgree
  BY DEF Agree
<1> QED
  BY <1>1, <1>2, BasicInit, BasicStep, AgreeStep, PTL DEF Spec

-----------------------------------------------------------------------------
(* The packages *)

(* Is the thread of r in the middle of a call that packages? *)
Waiting(r) == pc[r] \in {"waiting", "asleep", "rechecking"}
Inside(r) == Waiting(r) \/ pc[r] = "packaged"

(* A package is for notifiers that stay alive.  A write transaction's is    *)
(* for the newest version, which stays the newest, and one made without     *)
(* waiting is for the version the Realm stays at.  What is in it has run,   *)
(* and goes on to be run. *)
PackageOf(r) ==
    /\ Inside(r) => package[r].notifiers \subseteq NotifiersFor(r)
    /\ Waiting(r) => /\ ~package[r].error
                     /\ package[r].version = 0
                     /\ package[r].caller # "available"
    /\ pc[r] = "packaged" /\ package[r].caller = "available"
         /\ ~package[r].error /\ inRead[r] =>
           package[r].version = version[r]
    /\ Inside(r) /\ package[r].caller = "write" =>
         writer = r /\ package[r].target = latest
    /\ pc[r] = "packaged" /\ package[r].caller = "write" =>
         package[r].version \in {0, latest}
    /\ pc[r] = "packaged" /\ ~package[r].error =>
         \A n \in package[r].notifiers :
           ntf[n].hasRun /\ package[r].version \in 1 .. ntf[n].version

PackageInv == PayloadFits /\ \A r \in Realms : PackageOf(r)

(* A thread changes nothing of another Realm. *)
LEMMA RealmLocal ==
    ASSUME TypeOK, NEW r \in Realms, NEW s \in Realms, s # r, RealmStep(s)
    PROVE  /\ pc'[r] = pc[r] /\ package'[r] = package[r]
           /\ version'[r] = version[r] /\ inRead'[r] = inRead[r]
           /\ jumped'[r] = jumped[r]
<1> USE DEF realmVars, histVars
<1>1. CASE PackageAndWait(s) \/ Sleep(s) \/ Return(s)
  BY <1>1 DEF PackageAndWait, Sleep, Return, TypeOK
<1>2. CASE Advance(s)
  <2>1. /\ package' = [package EXCEPT ![s] = NoPackage]
        /\ \E p : pc' = [pc EXCEPT ![s] = p]
        /\ UNCHANGED <<inRead, jumped>>
        /\ \/ version' = version
           \/ \E v : version' = [version EXCEPT ![s] = v]
    BY <1>2 DEF Advance
  <2> QED
    BY <2>1 DEF TypeOK
<1>3. CASE Notify(s)
  BY <1>3 DEF Notify, ProcessAvailable, MakePackage, Wait, TypeOK
<1>4. CASE BeginRead(s) \/ Refresh(s)
  BY <1>4 DEF BeginRead, Refresh, ReadNewest, ProcessAvailable, MakePackage, Wait,
              TypeOK
<1>5. CASE BeginTransaction(s) \/ BeginInCallback(s)
  BY <1>5 DEF BeginTransaction, ReadNewest, BeginInCallback, MakePackage, Wait, TypeOK
<1>6. CASE Commit(s) \/ CancelTransaction(s) \/ Invalidate(s)
  BY <1>6 DEF Commit, CancelTransaction, Invalidate, TypeOK
<1> QED
  BY <1>1, <1>2, <1>3, <1>4, <1>5, <1>6 DEF RealmStep

(* While r is inside a call that began a write transaction, no other thread *)
(* writes. *)
LEMMA WriteExcludes ==
    ASSUME TypeOK, NEW r \in Realms, NEW s \in Realms, s # r, RealmStep(s),
           writer = r
    PROVE  writer' = r /\ latest' = latest
<1> USE NotifiersAssumption DEF fileVars
<1>1. CASE PackageAndWait(s) \/ Sleep(s) \/ Advance(s) \/ Return(s)
  BY <1>1 DEF PackageAndWait, Sleep, Advance, Return
<1>2. CASE Notify(s) \/ BeginRead(s) \/ Refresh(s)
  BY <1>2 DEF Notify, BeginRead, Refresh
<1>3. CASE BeginTransaction(s) \/ BeginInCallback(s)
  BY <1>3 DEF BeginTransaction, BeginInCallback
<1>4. CASE Commit(s) \/ CancelTransaction(s) \/ Invalidate(s)
  BY <1>4 DEF Commit, CancelTransaction, Invalidate
<1> QED
  BY <1>1, <1>2, <1>3, <1>4 DEF RealmStep

(* NotifiersFor loses nothing while the Realm's thread is inside a call. *)
LEMMA StillThere ==
    ASSUME BasicInv, NEW r \in Realms, Inside(r), [Next]_vars,
           NEW n \in NotifiersFor(r)
    PROVE  /\ n \in NotifiersFor(r)'
           /\ ntf[n].hasRun => /\ ntf'[n].hasRun
                               /\ ntf'[n].version \in Nat
                               /\ ntf[n].version <= ntf'[n].version
<1> USE DEF BasicInv
<1>1. /\ n \in Notifiers /\ ntf[n].alive /\ ntf[n].place \in {"new", "main"}
      /\ realmOf[n] = r /\ ~UserCode(r)
      /\ ntf[n].version \in Nat /\ sgVersion \in Nat
      /\ ntf[n].hasRun => ntf[n].version <= sgVersion
  BY DEF NotifiersFor, Alive, In, UserCode, Inside, Waiting, TypeOK, Version,
         NotifierInv, HistoryOf
<1>2. ASSUME ntf'[n].alive, ntf'[n].place \in {"new", "main"}, realmOf' = realmOf,
             ntf[n].hasRun =>
               ntf'[n].hasRun /\ ntf'[n].version \in {ntf[n].version, sgVersion}
      PROVE  /\ n \in NotifiersFor(r)'
             /\ ntf[n].hasRun => /\ ntf'[n].hasRun
                                 /\ ntf'[n].version \in Nat
                                 /\ ntf[n].version <= ntf'[n].version
  BY <1>1, <1>2 DEF NotifiersFor, Alive, In
<1>3. CASE UNCHANGED vars
  BY <1>1, <1>2, <1>3 DEF vars, ntfVars
<1>4. ASSUME NEW s \in Realms, RealmStep(s)
      PROVE  UNCHANGED <<realmOf, ntf>>
  BY <1>4, RealmFrame
<1>5. ASSUME NEW m \in Notifiers, RegisterNotifier(m) \/ Unregister(m)
      PROVE  realmOf' = realmOf /\ ntf'[n] = ntf[n]
  <2>1. m # n
    BY <1>1, <1>5 DEF RegisterNotifier, Unregister
  <2> QED
    BY <1>1, <1>5, <2>1 DEF RegisterNotifier, Unregister, TypeOK
<1>6. ASSUME NEW m \in Notifiers, AddCallback(m) \/ RemoveCallback(m) \/ SuppressNext(m)
      PROVE  UNCHANGED <<realmOf, ntf>>
  BY <1>6 DEF AddCallback, RemoveCallback, SuppressNext
<1>7. CASE OnChange
  BY <1>1, <1>2, <1>7, OnChangeEffect DEF OnChange, SameHistory
<1>8. CASE RunToSkip \/ RunToNewest
  <2>1. realmOf' = realmOf
    BY <1>8 DEF RunToSkip, RunToNewest
  <2> QED
    BY <1>1, <1>2, <1>8, <2>1, RunEffect
<1>9. CASE HandOverSkipped \/ HandOverNewest
  <2>1. realmOf' = realmOf
    BY <1>9 DEF HandOverSkipped, HandOverNewest
  <2>2. /\ ntf'[n].alive /\ ntf'[n].place = ntf[n].place
        /\ \/ ntf'[n].version = sgVersion /\ ntf'[n].hasRun
           \/ SameHistory(n)
    BY <1>1, <1>9, HandOverEffect
  <2> QED
    BY <1>1, <1>2, <2>1, <2>2 DEF SameHistory
<1> QED
  BY <1>1, <1>2, <1>3, <1>4, <1>5, <1>6, <1>7, <1>8, <1>9
     DEF Next, NotifierStep, WorkerStep

LEMMA PackageKept ==
    ASSUME BasicInv, [Next]_vars, NEW r \in Realms, PackageOf(r),
           package'[r] = package[r],
           version'[r] = version[r], inRead'[r] = inRead[r],
           pc'[r] = "packaged" => pc[r] = "packaged",
           Waiting(r)' => Waiting(r),
           Inside(r) /\ writer = r => writer' = writer /\ latest' = latest
    PROVE  PackageOf(r)'
<1>1. Inside(r)' => Inside(r)
  BY DEF Inside
<1>2. Inside(r)' => package'[r].notifiers \subseteq NotifiersFor(r)'
  BY <1>1, StillThere DEF PackageOf
<1>3. pc'[r] = "packaged" /\ ~package'[r].error =>
        \A n \in package'[r].notifiers :
          ntf'[n].hasRun /\ package'[r].version \in 1 .. ntf'[n].version
  <2> SUFFICES ASSUME pc[r] = "packaged", ~package[r].error,
                      NEW n \in package[r].notifiers
               PROVE  ntf'[n].hasRun /\ package[r].version \in 1 .. ntf'[n].version
    OBVIOUS
  <2>1. /\ n \in NotifiersFor(r) /\ Inside(r)
        /\ ntf[n].hasRun /\ package[r].version \in 1 .. ntf[n].version
    BY DEF PackageOf, Inside
  <2>2. n \in Notifiers /\ ntf[n].version \in Nat
    BY <2>1 DEF NotifiersFor, Alive, In, BasicInv, TypeOK, Version
  <2>3. /\ ntf'[n].hasRun /\ ntf'[n].version \in Nat
        /\ ntf[n].version <= ntf'[n].version
    BY <2>1, StillThere
  <2> QED
    BY <2>1, <2>2, <2>3
<1>4. /\ Waiting(r)' => /\ ~package'[r].error
                        /\ package'[r].version = 0
                        /\ package'[r].caller # "available"
      /\ pc'[r] = "packaged" /\ package'[r].caller = "available"
           /\ ~package'[r].error /\ inRead'[r] =>
             package'[r].version = version'[r]
  BY DEF PackageOf
<1>5. Inside(r)' /\ package'[r].caller = "write" =>
        writer' = r /\ package'[r].target = latest'
  BY <1>1 DEF PackageOf
<1>6. pc'[r] = "packaged" /\ package'[r].caller = "write" =>
        package'[r].version \in {0, latest'}
  BY DEF PackageOf, Inside
<1> QED
  BY <1>2, <1>3, <1>4, <1>5, <1>6, Zenon DEF PackageOf

LEMMA MakePackageStep ==
    ASSUME TypeOK, NEW r \in Realms, NEW v, NEW why \in {"notify", "refresh", "write"},
           MakePackage(r, why, v), Wait(r), UNCHANGED <<realmOf, ntf, latest>>,
           why = "write" => writer' = r /\ v = latest
    PROVE  PackageOf(r)'
<1>1. PICK ns : ns = NotifiersFor(r)
  OBVIOUS
<1>2. PICK e \in BOOLEAN : e = asyncError
  BY DEF TypeOK
<1>3. package'[r] = [NoPackage EXCEPT !.caller = why, !.notifiers = ns,
                                      !.target = v, !.error = e]
  BY <1>1, <1>2 DEF MakePackage, TypeOK
<1>4. /\ package'[r].caller = why /\ package'[r].notifiers = ns
      /\ package'[r].target = v /\ package'[r].version = 0
      /\ package'[r].error = e
  BY <1>3 DEF NoPackage
<1>5. pc'[r] = IF e \/ ns = {} THEN "packaged" ELSE "waiting"
  BY <1>1, <1>2 DEF Wait, TypeOK
<1>6. NotifiersFor(r)' = ns
  BY <1>1 DEF NotifiersFor, Alive, In
<1> QED
  BY <1>2, <1>4, <1>5, <1>6 DEF PackageOf, Inside, Waiting

(* What has run of a Realm's notifiers is at one version. *)
LEMMA RunOfRealm ==
    ASSUME BasicInv, Agree, NEW r \in Realms,
           NEW m \in NotifiersFor(r), NEW n \in NotifiersFor(r),
           ntf[m].hasRun, ntf[n].hasRun
    PROVE  ntf[m].version = ntf[n].version
<1>1. m \in Alive(In("main")) /\ n \in Alive(In("main"))
  BY DEF NotifiersFor, Alive, In, BasicInv, NotifierInv, HistoryOf
<1> QED
  BY <1>1 DEF Agree, RunNotifiersAgree

LEMMA ProcessAvailableStep ==
    ASSUME BasicInv, Agree, NEW r \in Realms, NEW v, NEW reading \in BOOLEAN,
           ProcessAvailable(r, v, reading), UNCHANGED <<realmOf, ntf>>,
           inRead'[r] => reading,
           reading => version'[r] = v
    PROVE  PackageOf(r)'
<1> USE DEF BasicInv
<1> DEFINE ready == IF asyncError THEN NotifiersFor(r)
                    ELSE {n \in NotifiersFor(r) : Current(n, v, reading)}
<1>1. PICK ns : ns = ready
  OBVIOUS
<1>2. PICK e \in BOOLEAN : e = asyncError
  BY DEF TypeOK
<1>3. /\ package'[r] = [NoPackage EXCEPT !.caller = "available", !.notifiers = ns,
                               !.version = NewestOf(ns), !.error = e]
      /\ pc'[r] = IF ns = {} THEN "idle" ELSE "packaged"
  BY <1>1, <1>2 DEF ProcessAvailable, TypeOK
<1>4. /\ package'[r].caller = "available" /\ package'[r].notifiers = ns
      /\ package'[r].version = NewestOf(ns)
      /\ package'[r].error = e
  BY <1>3 DEF NoPackage
<1>5. NotifiersFor(r)' = NotifiersFor(r) /\ ns \subseteq NotifiersFor(r)
  BY <1>1 DEF NotifiersFor, Alive, In
<1>6. ns \in SUBSET Notifiers /\ latest \in Nat
      /\ \A n \in ns : ntf[n].version \in 0 .. latest
  BY <1>5 DEF NotifiersFor, Alive, In, TypeOK, Version
<1>7. ns # {} => NewestOf(ns) \in {ntf[n].version : n \in ns}
  BY <1>6, NewestOfType
<1>8. ~e => \A n \in ns : /\ ntf[n].hasRun /\ ntf[n].version = NewestOf(ns)
                          /\ reading => ntf[n].version = v
  <2> SUFFICES ASSUME ~e, NEW n \in ns
               PROVE  /\ ntf[n].hasRun /\ ntf[n].version = NewestOf(ns)
                      /\ reading => ntf[n].version = v
    OBVIOUS
  <2>1. \A m \in ns : m \in NotifiersFor(r) /\ Current(m, v, reading)
    BY <1>1, <1>2
  <2>2. \A m \in ns : ntf[m].hasRun /\ (reading => ntf[m].version = v)
    BY <2>1 DEF Current
  <2>3. PICK m \in ns : NewestOf(ns) = ntf[m].version
    BY <1>7
  <2>4. ntf[m].version = ntf[n].version
    BY <2>1, <2>2, <2>3, RunOfRealm
  <2> QED
    BY <2>2, <2>3, <2>4
<1>9. \A n \in ns : ntf[n].hasRun => ntf[n].version \in Nat \ {0}
  BY <1>6 DEF NotifierInv, HistoryOf, TypeOK, Version
<1> QED
  BY <1>2, <1>3, <1>4, <1>5, <1>8, <1>9 DEF PackageOf, Inside, Waiting

LEMMA PackageAndWaitStep ==
    ASSUME BasicInv, Agree, NEW r \in Realms, PackageOf(r), PackageAndWait(r)
    PROVE  PackageOf(r)'
<1> USE DEF BasicInv
<1> DEFINE ran == {n \in package[r].notifiers : ntf[n].hasRun}
<1>1. PICK ns : ns = ran
  OBVIOUS
<1>2. PICK p \in PackageT(latest) : p = package[r]
  BY DEF TypeOK, PackageT
<1>3. /\ pc'[r] = "packaged" /\ Waiting(r) /\ ~UserCode(r)
      /\ UNCHANGED <<latest, writer, ntf, realmOf>>
      /\ inRead' = inRead /\ version' = version
  BY DEF PackageAndWait, TypeOK, Waiting, fileVars, UserCode
<1>4. /\ ns \subseteq NotifiersFor(r) /\ ~p.error /\ p.version = 0
      /\ p.caller # "available"
      /\ p.caller = "write" => writer = r /\ p.target = latest
  BY <1>1, <1>2, <1>3 DEF PackageOf, Inside
<1>5. NotifiersFor(r)' = NotifiersFor(r) /\ ns \subseteq Notifiers
  BY <1>3, <1>4 DEF NotifiersFor, Alive, In
<1>6. \A n \in ns : ntf[n].hasRun /\ ntf[n].version \in 1 .. latest
  BY <1>1, <1>5 DEF NotifierInv, HistoryOf, TypeOK, Version
<1>7. \A m, n \in ns : ntf[m].version = ntf[n].version
  BY <1>4, <1>6, RunOfRealm
<1>8. CASE package' = [package EXCEPT ![r].notifiers = {}]
  <2>1. package'[r] = [p EXCEPT !.notifiers = {}]
    BY <1>2, <1>8 DEF TypeOK
  <2>2. /\ package'[r].notifiers = {} /\ package'[r].caller = p.caller
        /\ package'[r].target = p.target /\ package'[r].version = p.version
        /\ package'[r].error = p.error
    BY <2>1 DEF PackageT
  <2> QED
    BY <1>3, <1>4, <2>2 DEF PackageOf, Inside, Waiting
<1>9. CASE \E n \in ns : /\ ntf[n].version >= package[r].target
                         /\ package' = [package EXCEPT ![r].notifiers = ns,
                                                       ![r].version = ntf[n].version]
  <2>1. PICK n \in ns : /\ ntf[n].version >= package[r].target
                        /\ package' = [package EXCEPT ![r].notifiers = ns,
                                                      ![r].version = ntf[n].version]
    BY <1>9
  <2>2. PICK v \in 1 .. latest : v = ntf[n].version
    BY <1>6
  <2>3. package'[r] = [p EXCEPT !.notifiers = ns, !.version = v]
    BY <1>2, <2>1, <2>2 DEF TypeOK
  <2>4. /\ package'[r].notifiers = ns /\ package'[r].caller = p.caller
        /\ package'[r].target = p.target /\ package'[r].version = v
        /\ package'[r].error = p.error
    BY <2>3 DEF PackageT
  <2>5. p.caller = "write" => v = latest
    BY <1>2, <1>4, <2>1, <2>2 DEF TypeOK, Version
  <2>6. \A m \in ns : ntf[m].hasRun /\ v \in 1 .. ntf[m].version
    BY <1>6, <1>7, <2>2
  <2> QED
    BY <1>3, <1>4, <1>5, <2>4, <2>5, <2>6 DEF PackageOf, Inside, Waiting
<1> QED
  BY <1>1, <1>8, <1>9 DEF PackageAndWait

(* What a Realm imports was computed for the version it is at. *)
LEMMA AdvanceFits ==
    ASSUME BasicInv, NEW r \in Realms, PackageOf(r), Advance(r)
    PROVE  misfits' = misfits
<1> USE DEF BasicInv
<1> DEFINE v == IF package[r].caller = "available" THEN version[r]
                ELSE IF package[r].caller = "write" \/ package[r].version = 0
                THEN latest ELSE package[r].version
           at == IF package[r].version = 0 THEN v ELSE package[r].version
<1>1. CASE UNCHANGED misfits
  BY <1>1
<1>2. CASE Deliver(r, v) /\ package[r].error
  BY <1>2 DEF Deliver
<1>3. CASE Deliver(r, v) /\ ~package[r].error
  <2>1. misfits' = misfits \cup {n \in package[r].notifiers : inRead[r] /\ at # v}
    BY <1>3 DEF Deliver
  <2>2. pc[r] = "packaged"
    BY DEF Advance
  <2>3. inRead[r] => at = v
    BY <1>3, <2>2 DEF PackageOf, Inside
  <2> QED
    BY <2>1, <2>3
<1> QED
  BY <1>1, <1>2, <1>3, Zenon DEF Advance

LEMMA PackageStep ==
    ASSUME BasicInv, Agree, PackageInv, [Next]_vars
    PROVE  PackageInv'
<1> USE DEF BasicInv
<1>1. PayloadFits'
  <2>1. ASSUME NEW r \in Realms, RealmStep(r)
        PROVE  misfits' = misfits
    <3>1. CASE Advance(r)
      BY <3>1, AdvanceFits DEF PackageInv
    <3>2. CASE PackageAndWait(r) \/ Sleep(r) \/ Return(r) \/ Notify(r)
      BY <3>2 DEF PackageAndWait, Sleep, Return, Notify, histVars
    <3>3. CASE BeginRead(r) \/ Refresh(r) \/ BeginTransaction(r)
      BY <3>3 DEF BeginRead, Refresh, BeginTransaction
    <3>4. CASE BeginInCallback(r) \/ Commit(r) \/ CancelTransaction(r) \/ Invalidate(r)
      BY <3>4 DEF BeginInCallback, Commit, CancelTransaction, Invalidate, histVars
    <3> QED
      BY <2>1, <3>1, <3>2, <3>3, <3>4 DEF RealmStep
  <2>2. ASSUME NEW n \in Notifiers, NotifierStep(n)
        PROVE  misfits' = misfits
    BY <2>2 DEF NotifierStep, RegisterNotifier, AddCallback, RemoveCallback,
                Unregister, SuppressNext, histVars
  <2>3. WorkerStep => misfits' = misfits
    BY DEF WorkerStep, OnChange, RunToSkip, HandOverSkipped, RunToNewest,
           HandOverNewest, histVars
  <2>4. UNCHANGED vars => misfits' = misfits
    BY DEF vars, histVars
  <2> QED
    BY <2>1, <2>2, <2>3, <2>4 DEF Next, PackageInv, PayloadFits
<1>2. ASSUME NEW r \in Realms
      PROVE  PackageOf(r)'
  <2>0. PackageOf(r)
    BY DEF PackageInv
  <2>1. CASE UNCHANGED vars
    BY <2>0, <2>1, PackageKept DEF vars, realmVars, fileVars, Waiting
  <2>2. ASSUME NEW n \in Notifiers, NotifierStep(n)
        PROVE  UNCHANGED <<realmVars, fileVars>>
    BY <2>2 DEF NotifierStep, RegisterNotifier, AddCallback, RemoveCallback,
                Unregister, SuppressNext
  <2>3. CASE \E n \in Notifiers : NotifierStep(n)
    BY <2>0, <2>2, <2>3, PackageKept DEF realmVars, fileVars, Waiting
  <2>4. CASE WorkerStep
    <3>1. UNCHANGED <<fileVars, package, version, inRead>>
      BY <2>4 DEF WorkerStep, OnChange, RunToSkip, HandOverSkipped, RunToNewest,
           HandOverNewest, realmVars
    <3>2. \/ pc'[r] = pc[r]
          \/ pc[r] = "asleep" /\ pc'[r] = "rechecking"
      BY <2>4 DEF WorkerStep, OnChange, RunToSkip, HandOverSkipped, RunToNewest,
           HandOverNewest, realmVars, WakeWaiting
    <3> QED
      BY <2>0, <3>1, <3>2, PackageKept DEF fileVars, Waiting
  <2>5. ASSUME NEW s \in Realms, s # r, RealmStep(s)
        PROVE  PackageOf(r)'
    BY <2>0, <2>5, RealmLocal, WriteExcludes, PackageKept DEF Waiting
  <2>6. CASE RealmStep(r)
    <3>1. CASE PackageAndWait(r)
      BY <2>0, <3>1, PackageAndWaitStep
    <3>2. CASE Sleep(r)
      BY <2>0, <3>2, PackageKept DEF Sleep, fileVars, Waiting, TypeOK
    <3>3. CASE \/ Advance(r) \/ Return(r) \/ BeginRead(r) \/ BeginInCallback(r)
               \/ Commit(r) \/ CancelTransaction(r) \/ Invalidate(r)
      <4>1. pc'[r] \in {"idle", "calling"}
        BY <3>3 DEF Advance, Return, BeginRead, BeginInCallback, Commit,
             CancelTransaction, Invalidate, UserCode, realmVars, TypeOK
      <4> QED
        BY <4>1 DEF PackageOf, Inside, Waiting
    <3>4. CASE Notify(r)
      <4>1. pc[r] = "idle" /\ UNCHANGED <<version, inRead, realmOf, ntf, fileVars>>
        BY <3>4 DEF Notify
      <4>2. CASE UNCHANGED <<pc, package, callback>>
        BY <4>1, <4>2 DEF PackageOf, Inside, Waiting
      <4>3. CASE ProcessAvailable(r, version[r], inRead[r])
        BY <4>1, <4>3, ProcessAvailableStep DEF TypeOK
      <4>4. CASE MakePackage(r, "notify", 0) /\ Wait(r)
        BY <4>1, <4>4, MakePackageStep DEF fileVars
      <4> QED
        BY <3>4, <4>2, <4>3, <4>4 DEF Notify
    <3>5. CASE Refresh(r)
      <4>1. UNCHANGED <<realmOf, ntf, fileVars>>
        BY <3>5 DEF Refresh
      <4>2. CASE MakePackage(r, "refresh", latest) /\ Wait(r)
        BY <4>1, <4>2, MakePackageStep DEF fileVars
      <4>3. CASE ReadNewest(r) /\ ProcessAvailable(r, latest, TRUE)
        BY <4>1, <4>3, ProcessAvailableStep DEF ReadNewest, TypeOK
      <4> QED
        BY <3>5, <4>2, <4>3 DEF Refresh
    <3>6. CASE BeginTransaction(r)
      BY <3>6, MakePackageStep DEF BeginTransaction, ntfVars
    <3> QED
      BY <2>6, <3>1, <3>2, <3>3, <3>4, <3>5, <3>6 DEF RealmStep
  <2> QED
    BY <2>1, <2>3, <2>4, <2>5, <2>6 DEF Next
<1> QED
  BY <1>1, <1>2 DEF PackageInv

(* Results the worker computed are imported at the version they are of,     *)
(* whichever call packages them and however long it waits. *)
THEOREM Payload == Spec => []PayloadFits
<1>1. Init => Agree
  BY DEF Init, Agree, RunNotifiersAgree, Alive, In, NewNotifier
<1>2. Init => PackageInv
  BY DEF Init, PackageInv, PayloadFits, PackageOf, Inside, Waiting
<1>3. PackageInv => PayloadFits
  BY DEF PackageInv
<1> QED
  BY <1>1, <1>2, <1>3, BasicInit, BasicStep, AgreeStep, PackageStep, PTL DEF Spec

-----------------------------------------------------------------------------
(* What the callbacks are told *)

(* What is registered or let go keeps its history. *)
LEMMA RegisteredFields ==
    ASSUME TypeOK, NEW n \in Notifiers, NEW m \in Notifiers,
           RegisterNotifier(m) \/ Unregister(m)
    PROVE  /\ ntf'[n].hasRun = ntf[n].hasRun
           /\ ntf'[n].rows = ntf[n].rows
           /\ ntf'[n].changes = ntf[n].changes
           /\ \/ ntf'[n] = ntf[n]
              \/ n = m /\ ntf[n].place = "none" /\ ntf'[n].alive = ntf[n].alive
              \/ n = m /\ ~callback[n].present /\ ~ntf'[n].alive
<1>1. PICK e \in NotifierT(latest) : e = ntf[n]
  BY NotifierFields
<1>2. CASE m # n
  BY <1>2 DEF RegisterNotifier, Unregister, TypeOK
<1>3. CASE m = n /\ RegisterNotifier(n)
  <2>1. ntf'[n] = [e EXCEPT !.place = "new", !.version = version[realmOf[n]]]
        /\ ntf[n].place = "none"
    BY <1>1, <1>3 DEF RegisterNotifier, TypeOK
  <2> QED
    BY <1>1, <1>3, <2>1 DEF NotifierT
<1>4. CASE m = n /\ Unregister(n)
  <2>1. ntf'[n] = [e EXCEPT !.alive = FALSE] /\ ~callback[n].present
    BY <1>1, <1>4 DEF Unregister, TypeOK
  <2> QED
    BY <1>1, <1>4, <2>1 DEF NotifierT
<1> QED
  BY <1>2, <1>3, <1>4

-----------------------------------------------------------------------------
(* No change is told twice *)

(* The changes on their way to a callback, told or dropped *)
Told(c) == c.seen \cup c.toDeliver \cup c.accumulated \cup c.dropped

Apart(c) ==
    /\ c.seen \cap (c.toDeliver \cup c.accumulated) = {}
    /\ c.toDeliver \cap c.accumulated = {}
    /\ c.dropped \cap (c.seen \cup c.toDeliver \cup c.accumulated) = {}

(* What a callback was told lies behind the rows its notifier found last,   *)
(* and behind the changes the notifier is going to hand over. *)
ToldOf(n) ==
    /\ Apart(callback[n])
    /\ Told(callback[n]) \subseteq 1 .. ntf[n].rows
    /\ \A u \in Told(callback[n]), x \in ntf[n].changes : u < x
    /\ ~ntf[n].hasRun => Told(callback[n]) = {}

ToldInv == \A n \in Notifiers : ToldOf(n)

LEMMA ToldByRealm ==
    ASSUME BasicInv, NEW n \in Notifiers, ToldOf(n),
           NEW r \in Realms, RealmStep(r)
    PROVE  ToldOf(n)'
<1>1. ntf' = ntf
  BY RealmFrame
<1>2. /\ Apart(callback'[n])
      /\ Told(callback'[n]) \subseteq Told(callback[n])
  <2>1. CASE callback'[n] = callback[n]
    BY <2>1 DEF ToldOf
  <2>2. CASE callback'[n] = NoCallback
    BY <2>2 DEF Apart, Told, NoCallback
  <2>3. CASE callback'[n] = [callback[n] EXCEPT !.suppressed = @ \cup {latest'}]
    BY <2>3, SuppressedFields DEF ToldOf, Apart, Told, BasicInv
  <2>4. CASE IsPackaged(n)
    BY <2>4 DEF IsPackaged, SameCallback, ToldOf, Apart, Told
  <2>5. CASE \E b : IsCalled(n, b)
    BY <2>5 DEF IsCalled, SameCallback, ToldOf, Apart, Told
  <2> QED
    BY <2>1, <2>2, <2>3, <2>4, <2>5, RealmEffect
<1> QED
  BY <1>1, <1>2 DEF ToldOf

LEMMA ToldStep ==
    ASSUME BasicInv, ToldInv, [Next]_vars
    PROVE  ToldInv'
<1> USE DEF BasicInv
<1> SUFFICES ASSUME NEW n \in Notifiers
             PROVE  ToldOf(n)'
  BY DEF ToldInv
<1>1. ToldOf(n) /\ HistoryOf(n) /\ ntf[n].rows \in Nat /\ sgVersion \in Nat
  BY DEF ToldInv, NotifierInv, TypeOK
<1>2. CASE UNCHANGED vars
  BY <1>1, <1>2 DEF vars, ntfVars, ToldOf
<1>3. ASSUME NEW r \in Realms, RealmStep(r)
      PROVE  ToldOf(n)'
  BY <1>1, <1>3, ToldByRealm
<1>4. ASSUME NEW m \in Notifiers, RegisterNotifier(m) \/ Unregister(m)
      PROVE  ToldOf(n)'
  <2>1. callback' = callback
    BY <1>4 DEF RegisterNotifier, Unregister
  <2>2. /\ ntf'[n].rows = ntf[n].rows /\ ntf'[n].changes = ntf[n].changes
        /\ ntf'[n].hasRun = ntf[n].hasRun
    BY <1>4, RegisteredFields
  <2> QED
    BY <1>1, <2>1, <2>2 DEF ToldOf
<1>5. ASSUME NEW m \in Notifiers, AddCallback(m)
      PROVE  ToldOf(n)'
  <2>1. ntf' = ntf /\ (m # n => callback'[n] = callback[n])
    BY <1>5 DEF AddCallback, TypeOK
  <2>2. CASE m = n
    BY <1>1, <1>5, <2>1, <2>2, AddedFields DEF ToldOf, Apart, Told
  <2> QED
    BY <1>1, <2>1, <2>2 DEF ToldOf
<1>6. ASSUME NEW m \in Notifiers, RemoveCallback(m)
      PROVE  ToldOf(n)'
  <2>1. ntf' = ntf /\ callback'[n] \in {NoCallback, callback[n]}
    BY <1>6 DEF RemoveCallback, Forget
  <2> QED
    BY <1>1, <2>1 DEF ToldOf, Apart, Told, NoCallback
<1>7. ASSUME NEW m \in Notifiers, SuppressNext(m)
      PROVE  ToldOf(n)'
  <2>1. ntf' = ntf /\ (m # n => callback'[n] = callback[n])
    BY <1>7 DEF SuppressNext, TypeOK
  <2>2. CASE m = n
    BY <1>1, <1>7, <2>1, <2>2, SkippingFields DEF ToldOf, Apart, Told
  <2> QED
    BY <1>1, <2>1, <2>2 DEF ToldOf
<1>8. CASE OnChange
  <2>1. callback' = callback /\ SameHistory(n)
    BY <1>8, OnChangeEffect DEF OnChange
  <2> QED
    BY <1>1, <2>1 DEF ToldOf, SameHistory
<1>9. CASE RunToSkip \/ RunToNewest
  <2>1. callback' = callback
    BY <1>9 DEF RunToSkip, RunToNewest
  <2>2. PICK v \in 1 .. runTo :
          /\ sgVersion <= v
          /\ \/ ntf'[n] = ntf[n]
             \/ /\ ntf'[n].hasRun = ntf[n].hasRun
                /\ ntf'[n].rows = v
                /\ ntf'[n].changes \subseteq Between(ntf[n].rows, v)
    BY <1>9, RunEffect
  <2> QED
    BY <1>1, <2>1, <2>2 DEF ToldOf, HistoryOf, Between, TypeOK
<1>10. CASE HandOverSkipped \/ HandOverNewest
  <2>1. /\ ntf'[n].rows = ntf[n].rows
        /\ \/ SameHistory(n) /\ callback'[n] = callback[n]
           \/ /\ ntf'[n].hasRun /\ ntf'[n].changes = {}
              /\ \/ callback'[n] = callback[n]
                 \/ callback'[n] = AddChanges(callback[n], ntf[n].changes)
    BY <1>10, HandOverEffect
  <2>2. CASE callback'[n] = callback[n]
    BY <1>1, <2>1, <2>2 DEF ToldOf, SameHistory
  <2>3. CASE /\ ntf'[n].hasRun /\ ntf'[n].changes = {}
             /\ callback'[n] = AddChanges(callback[n], ntf[n].changes)
    <3>1. Told(callback'[n]) = Told(callback[n]) \cup ntf[n].changes
      BY <2>3, AddChangesFields DEF Told
    <3>2. \A u \in Told(callback[n]) : u \notin ntf[n].changes
      BY <1>1 DEF ToldOf, Told
    <3>3. Apart(callback'[n])
      BY <1>1, <2>3, <3>2, AddChangesFields DEF ToldOf, Apart, Told
    <3> QED
      BY <1>1, <2>1, <2>3, <3>1, <3>3 DEF ToldOf, HistoryOf
  <2> QED
    BY <2>1, <2>2, <2>3
<1> QED
  BY <1>2, <1>3, <1>4, <1>5, <1>6, <1>7, <1>8, <1>9, <1>10
     DEF Next, NotifierStep, WorkerStep

(* However commits, packages and callbacks interleave, no change is told    *)
(* twice, or told after a skip flag dropped it. *)
THEOREM NeverTwice == Spec => []ToldOnce
<1>1. Init => ToldInv
  BY DEF Init, ToldInv, ToldOf, Apart, Told, NewNotifier, NoCallback
<1>2. ToldInv => ToldOnce
  BY Zenon DEF ToldInv, ToldOf, Apart, ToldOnce
<1> QED
  BY <1>1, <1>2, BasicInit, BasicStep, ToldStep, PTL DEF Spec

-----------------------------------------------------------------------------
(* Nothing is lost, and what is dropped was to be dropped *)

(* Is n in a package that is going to be delivered? *)
Packed(n) ==
    LET r == realmOf[n]
    IN  pc[r] = "packaged" /\ n \in package[r].notifiers /\ ~package[r].error

(* A callback there is something to say of: it has been called, or is going *)
(* to be at the version of its package.  Mark is the version of that call.  *)
Known(n) ==
    callback[n].present /\ ~callback[n].late /\ (callback[n].initial \/ Packed(n))

Mark(n) == IF callback[n].initial THEN callback[n].base
           ELSE package[realmOf[n]].version

(* What a Realm's thread has for n.  A callback is in the package its Realm *)
(* waits for.  It has been told the newest version of the file while its    *)
(* Realm writes, unless the Realm did not wait. *)
PackedOf(n) ==
    LET r == realmOf[n]
        c == callback[n]
    IN  /\ Inside(r) /\ writer = r => package[r].caller = "write"
        /\ Packed(n) => c.toDeliver \subseteq 1 .. package[r].version
        /\ Packed(n) /\ c.initial /\ ~c.late =>
             \A u \in c.accumulated : u <= c.base \/ u > package[r].version
        /\ c.present /\ Waiting(r) => n \in package[r].notifiers
        /\ c.present /\ pc[r] = "packaged" /\ package[r].caller # "available"
             /\ (c.initial \/ package[r].target # 0 \/ package[r].error) =>
               n \in package[r].notifiers
        /\ c.present /\ writer = r /\ UserCode(r) /\ ~jumped[r] =>
             /\ c.initial /\ ntf[n].hasRun
             /\ ntf[n].version = latest /\ version[r] = latest
             /\ ~c.late => c.accumulated \cup c.toDeliver \subseteq 1 .. c.base

(* The worker: what n is going to hand over goes on from where it is, and   *)
(* it is new to its callback or older than the first call. *)
RunOf(n) ==
    LET c == callback[n]
    IN  /\ c.initial => ntf[n].hasRun
        /\ Told(c) \subseteq 1 .. ntf[n].version
        /\ RanNow(n) /\ c.present /\ ~c.late =>
             /\ ntf[n].rows = sgVersion
             /\ ntf[n].hasRun =>
                  Between(ntf[n].version, sgVersion) \subseteq ntf[n].changes
        /\ Known(n) =>
             /\ \A x \in ntf[n].changes : x <= Mark(n) \/ x > ntf[n].version
             /\ ntf[n].rows >= ntf[n].version \/ ntf[n].version <= Mark(n)

(* What waits for a callback is not older than its Realm, which is at most  *)
(* one commit of its own ahead of the notifier. *)
KeptOf(n) ==
    LET r == realmOf[n]
        c == callback[n]
    IN  Known(n) /\ ~jumped[r] =>
          /\ Between(Mark(n), ntf[n].version) \subseteq Told(c)
          /\ c.initial =>
               /\ \A u \in c.accumulated \cup c.toDeliver :
                    u <= c.base \/ u >= version[r]
               /\ version[r] <= ntf[n].version + 1 \/ version[r] <= c.base
               /\ \A u \in c.toDeliver : u <= c.base \/ Packed(n)

(* A skip flag that is set is for a commit the worker is going to stop at,  *)
(* or for the transaction under way. *)
SkipOf(n) ==
    LET r == realmOf[n]
        c == callback[n]
    IN  /\ n \in asked => writer = r /\ UserCode(r)
        /\ ~jumped[r] /\ ~c.initial => ~c.skipNext /\ c.dropped = {}
        /\ ~overwritten /\ ~jumped[r] /\ c.skipNext /\ n \notin asked =>
             \E s \in c.suppressed :
               /\ ntf[n].version = s - 1
               /\ \/ skipVersion = s
                  \/ wpc \in {"skipping", "skipped"} /\ skipTo = s
        /\ c.initial /\ ~c.late /\ ~overwritten /\ ~jumped[r] =>
             \A v \in c.dropped \ c.suppressed : v <= c.base

DeliveryInv ==
    \A n \in Notifiers : PackedOf(n) /\ RunOf(n) /\ KeptOf(n) /\ SkipOf(n)

(* A thread leaves the callbacks of other Realms alone. *)
LEMMA Elsewhere ==
    ASSUME BasicInv, NEW n \in Notifiers, SkipOf(n),
           NEW s \in Realms, s # realmOf[n], PackageOf(s), RealmStep(s)
    PROVE  /\ callback'[n] = callback[n]
           /\ n \in asked' <=> n \in asked
<1> USE DEF BasicInv
<1>1. n \notin NotifiersFor(s)
  BY DEF NotifiersFor
<1>2. Inside(s) => n \notin package[s].notifiers
  BY <1>1 DEF PackageOf
<1>3. CASE PackageAndWait(s)
  BY <1>2, <1>3 DEF PackageAndWait, PackageForDelivery, Inside, Waiting, histVars
<1>4. CASE Sleep(s) \/ Return(s) \/ BeginRead(s) \/ BeginTransaction(s)
           \/ BeginInCallback(s) \/ CancelTransaction(s) \/ Invalidate(s)
  BY <1>4 DEF Sleep, Return, BeginRead, BeginTransaction, BeginInCallback,
              CancelTransaction, Invalidate, ntfVars, realmVars, histVars
<1>5. CASE Advance(s)
  <2>1. n \notin package[s].notifiers
    BY <1>2, <1>5 DEF Advance, Inside
  <2>2. ASSUME NEW v, Deliver(s, v)
        PROVE  /\ callback'[n] = callback[n]
               /\ n \in asked' <=> n \in asked
    BY <2>1, <2>2 DEF Deliver, Forget
  <2>3. \/ UNCHANGED <<callback, asked>>
        \/ \E v : Deliver(s, v)
    BY <1>5, Zenon DEF Advance
  <2> QED
    BY <2>2, <2>3
<1>6. CASE Notify(s)
  BY <1>1, <1>6 DEF Notify, ProcessAvailable, PackageForDelivery, histVars
<1>7. CASE Refresh(s)
  BY <1>1, <1>7 DEF Refresh, ProcessAvailable, PackageForDelivery
<1>8. CASE Commit(s)
  <2>1. n \notin asked
    BY <1>8 DEF Commit, SkipOf
  <2> QED
    BY <1>8, <2>1 DEF Commit
<1> QED
  BY <1>3, <1>4, <1>5, <1>6, <1>7, <1>8 DEF RealmStep

(* Packaging takes what waits for a callback; what is packaged has run, and *)
(* its version is the package's. *)
NewlyPacked(n) ==
    LET r == realmOf[n]
    IN  /\ ~Packed(n)
        /\ (IsPackaged(n) /\ Packed(n)') \/ callback'[n] = callback[n]
        /\ Packed(n)' =>
             /\ IsPackaged(n) \/ (~callback[n].present /\ callback'[n] = callback[n])
             /\ ntf[n].hasRun /\ package'[r].version = ntf[n].version

LEMMA PackageAndWaitPacks ==
    ASSUME BasicInv, Agree, NEW n \in Notifiers, PackageOf(realmOf[n]),
           PackageAndWait(realmOf[n])
    PROVE  NewlyPacked(n)
<1> USE DEF BasicInv
<1>1. PICK r \in Realms : r = realmOf[n]
  BY DEF TypeOK
<1>2. PICK ns : ns = {m \in package[r].notifiers : ntf[m].hasRun}
  OBVIOUS
<1>3. /\ pc[r] # "packaged" /\ Inside(r) /\ realmOf' = realmOf
      /\ PackageForDelivery(ns)
  BY <1>1, <1>2 DEF PackageAndWait, Inside, Waiting
<1>4. \A m \in ns : ntf[m].hasRun /\ m \in NotifiersFor(r)
  BY <1>1, <1>2, <1>3 DEF PackageOf
<1>5. Packed(n)' => n \in ns /\ package'[r].version = ntf[n].version
  <2>1. CASE package' = [package EXCEPT ![r].notifiers = {}]
    <3>1. package'[r].notifiers = {}
      BY <2>1 DEF TypeOK
    <3> QED
      BY <1>1, <1>3, <3>1 DEF Packed
  <2>2. CASE \E m \in ns : package' = [package EXCEPT ![r].notifiers = ns,
                                                      ![r].version = ntf[m].version]
    <3>1. PICK m \in ns : package' = [package EXCEPT ![r].notifiers = ns,
                                                     ![r].version = ntf[m].version]
      BY <2>2
    <3>2. package'[r].notifiers = ns /\ package'[r].version = ntf[m].version
      BY <3>1 DEF TypeOK
    <3>3. n \in ns => ntf[n].version = ntf[m].version
      BY <1>4, RunOfRealm
    <3> QED
      BY <1>1, <1>3, <3>2, <3>3 DEF Packed
  <2> QED
    BY <1>1, <1>2, <2>1, <2>2 DEF PackageAndWait
<1>6. \/ callback'[n] = callback[n] /\ ~(n \in ns /\ callback[n].present)
      \/ n \in ns /\ IsPackaged(n)
  BY <1>3, PackageForDeliveryEffect
<1>7. ~Packed(n)
  BY <1>1, <1>3 DEF Packed
<1>8. Packed(n)' => /\ IsPackaged(n) \/ (~callback[n].present /\ callback'[n] = callback[n])
                    /\ ntf[n].hasRun /\ package'[r].version = ntf[n].version
  BY <1>4, <1>5, <1>6
<1>9. ASSUME n \in ns, callback[n].present
      PROVE  Packed(n)'
  <2>1. ntf[n].version \in Nat /\ package[r].target \in Nat
    BY DEF TypeOK, Version
  <2>2. ~(ntf[n].version < package[r].target)
    BY <1>1, <1>2, <1>9, <2>1 DEF PackageAndWait, Ready
  <2>3. PICK m \in ns : package' = [package EXCEPT ![r].notifiers = ns,
                                                   ![r].version = ntf[m].version]
    BY <1>1, <1>2, <1>9, <2>2 DEF PackageAndWait
  <2>4. package'[r].notifiers = ns /\ package'[r].error = package[r].error
    BY <2>3 DEF TypeOK
  <2>5. Waiting(r) /\ pc'[r] = "packaged"
    BY <1>1 DEF PackageAndWait, Waiting, TypeOK
  <2> QED
    BY <1>1, <1>3, <1>9, <2>4, <2>5 DEF Packed, PackageOf
<1>10. (IsPackaged(n) /\ Packed(n)') \/ callback'[n] = callback[n]
  BY <1>6, <1>9 DEF IsPackaged, SameCallback
<1> QED
  BY <1>1, <1>7, <1>8, <1>10 DEF NewlyPacked

LEMMA ProcessAvailablePacks ==
    ASSUME BasicInv, Agree, NEW n \in Notifiers,
           NEW v, NEW reading \in BOOLEAN, ProcessAvailable(realmOf[n], v, reading),
           pc[realmOf[n]] = "idle", UNCHANGED <<realmOf, ntf>>
    PROVE  NewlyPacked(n)
<1> USE DEF BasicInv
<1>1. PICK r \in Realms : r = realmOf[n]
  BY DEF TypeOK
<1>2. PICK e \in BOOLEAN : e = asyncError
  BY DEF TypeOK
<1>3. PICK ns : ns = IF e THEN NotifiersFor(r)
                     ELSE {m \in NotifiersFor(r) : Current(m, v, reading)}
  OBVIOUS
<1>4. /\ PackageForDelivery(IF e THEN {} ELSE ns)
      /\ package'[r] = [NoPackage EXCEPT !.caller = "available", !.notifiers = ns,
                               !.version = NewestOf(ns), !.error = e]
  BY <1>1, <1>2, <1>3 DEF ProcessAvailable, TypeOK
<1>5. /\ package'[r].notifiers = ns /\ package'[r].version = NewestOf(ns)
      /\ package'[r].error = e
  BY <1>4 DEF NoPackage
<1>6. ~e => \A m \in ns : ntf[m].hasRun /\ m \in NotifiersFor(r)
  BY <1>3 DEF Current
<1>7. ns \in SUBSET Notifiers /\ latest \in Nat
      /\ \A m \in ns : ntf[m].version \in 0 .. latest
  BY <1>3 DEF NotifiersFor, Alive, In, TypeOK, Version
<1>8. Packed(n)' => n \in ns /\ ~e /\ package'[r].version = ntf[n].version
  <2> SUFFICES ASSUME n \in ns, ~e
               PROVE  NewestOf(ns) = ntf[n].version
    BY <1>1, <1>5 DEF Packed
  <2>1. PICK m \in ns : NewestOf(ns) = ntf[m].version
    BY <1>7, NewestOfType
  <2> QED
    BY <1>6, <2>1, RunOfRealm
<1>9. PICK ps : ps = IF e THEN {} ELSE ns
  OBVIOUS
<1>10. \/ callback'[n] = callback[n] /\ ~(n \in ps /\ callback[n].present)
       \/ n \in ps /\ IsPackaged(n)
  BY <1>4, <1>9, PackageForDeliveryEffect
<1>11. ~Packed(n)
  BY DEF Packed
<1>12. n \in ps <=> n \in ns /\ ~e
  BY <1>9
<1>13. Packed(n)' => /\ IsPackaged(n) \/ (~callback[n].present /\ callback'[n] = callback[n])
                     /\ ntf[n].hasRun /\ package'[r].version = ntf[n].version
  BY <1>6, <1>8, <1>10, <1>12
<1>14. n \in ps => Packed(n)'
  <2>1. n \in ps => pc'[r] = "packaged"
    BY <1>1, <1>2, <1>3, <1>12 DEF ProcessAvailable, TypeOK
  <2> QED
    BY <1>1, <1>5, <1>12, <2>1 DEF Packed
<1>15. (IsPackaged(n) /\ Packed(n)') \/ callback'[n] = callback[n]
  BY <1>10, <1>14
<1> QED
  BY <1>1, <1>11, <1>13, <1>15 DEF NewlyPacked

(* Advance drops a package that is older than its Realm, or else tells the  *)
(* callbacks the package is for. *)
IsDelivered(n) ==
    LET r == realmOf[n]
        p == package[r]
        v == version'[r]
    IN  /\ version'[r] = IF p.caller = "available" THEN version[r]
                         ELSE IF p.caller = "write" \/ p.version = 0 THEN latest
                         ELSE p.version
        /\ \/ callback'[n] = NoCallback
           \/ callback'[n] = callback[n] /\ n \notin p.notifiers
           \/ /\ callback'[n] = callback[n] /\ Packed(n)
              /\ callback[n].present =>
                   callback[n].initial /\ callback[n].toDeliver = {}
           \/ Packed(n) /\ IsCalled(n, Newer(p.version, v))

LEMMA AdvanceEffect ==
    ASSUME BasicInv, NEW n \in Notifiers, PackageOf(realmOf[n]), Advance(realmOf[n])
    PROVE  LET r == realmOf[n]
           IN  /\ pc[r] = "packaged" /\ pc'[r] \in {"idle", "calling"}
               /\ UNCHANGED <<latest, writer, realmOf, ntf, jumped, inRead>>
               /\ \/ /\ package[r].caller = "notify"
                     /\ package[r].version < version[r]
                     /\ version'[r] = version[r] /\ callback'[n] = callback[n]
                  \/ IsDelivered(n)
<1> USE DEF BasicInv
<1>1. PICK r \in Realms : r = realmOf[n]
  BY DEF TypeOK
<1>2. PICK p \in PackageT(latest) : p = package[r]
  BY DEF TypeOK, PackageT
<1>3. PICK v : v = IF p.caller = "available" THEN version[r]
                   ELSE IF p.caller = "write" \/ p.version = 0 THEN latest
                   ELSE p.version
  OBVIOUS
<1>4. /\ version[r] \in 1 .. latest /\ latest \in Nat \ {0}
      /\ p.version \in 0 .. latest /\ v \in 1 .. latest
  BY <1>2, <1>3 DEF TypeOK, Version, PackageT
<1>5. /\ pc[r] = "packaged" /\ pc'[r] \in {"idle", "calling"}
      /\ UNCHANGED <<latest, writer, realmOf, ntf, jumped, inRead>>
  BY <1>1 DEF Advance, TypeOK, fileVars
<1>6. \/ Discarded(r) /\ pc'[r] = "idle" /\ UNCHANGED <<version, callback>>
      \/ version'[r] = v /\ Deliver(r, v)
  BY <1>1, <1>2, <1>3 DEF Advance, TypeOK
<1>7. CASE Discarded(r) /\ pc'[r] = "idle" /\ UNCHANGED <<version, callback>>
  BY <1>1, <1>5, <1>7 DEF Discarded
<1>8. CASE version'[r] = v /\ Deliver(r, v)
  <2>1. \/ p.error /\ n \in p.notifiers /\ callback'[n] = NoCallback
        \/ /\ callback'[n] = callback[n]
           /\ \/ n \notin p.notifiers
              \/ /\ ~p.error
                 /\ ~callback[n].present
                    \/ (callback[n].initial /\ callback[n].toDeliver = {})
        \/ /\ ~p.error /\ n \in p.notifiers
           /\ IsCalled(n, Newer(IF p.version = 0 THEN v ELSE p.version, v))
    BY <1>1, <1>2, <1>4, <1>8, DeliverEffect
  <2>2. n \in p.notifiers /\ ~p.error => Packed(n) /\ p.version # 0
    BY <1>1, <1>2, <1>4, <1>5 DEF Packed, PackageOf
  <2>3. IsDelivered(n)
    BY <1>1, <1>2, <1>3, <1>8, <2>1, <2>2 DEF IsDelivered
  <2> QED
    BY <1>1, <1>5, <2>3
<1> QED
  BY <1>6, <1>7, <1>8

(* Every other step of a Realm's thread packages, commits, or neither       *)
(* touches the callback nor has anything packaged for it. *)
LEMMA OtherEffect ==
    ASSUME BasicInv, Agree, NEW n \in Notifiers, PackageOf(realmOf[n]),
           RealmStep(realmOf[n])
    PROVE  \/ Advance(realmOf[n])
           \/ NewlyPacked(n)
           \/ /\ ~Packed(n) /\ ~Packed(n)'
              /\ \/ callback'[n] = callback[n]
                 \/ callback'[n] = [callback[n] EXCEPT !.suppressed = @ \cup {latest'}]
<1> USE DEF BasicInv
<1>1. PICK r \in Realms : r = realmOf[n]
  BY DEF TypeOK
<1>2. realmOf' = realmOf /\ ntf' = ntf
  BY <1>1, RealmFrame
<1> DEFINE Same == ~Packed(n) /\ ~Packed(n)' /\ callback'[n] = callback[n]
<1>3. CASE PackageAndWait(r)
  BY <1>1, <1>3, PackageAndWaitPacks
<1>4. CASE Sleep(r) \/ Return(r) \/ BeginRead(r) \/ BeginInCallback(r)
           \/ CancelTransaction(r) \/ Invalidate(r) \/ Commit(r)
  <2>1. pc[r] # "packaged" /\ pc'[r] # "packaged"
    BY <1>4 DEF Sleep, Return, BeginRead, BeginInCallback, CancelTransaction,
                Invalidate, Commit, UserCode, realmVars, TypeOK
  <2>2. \/ callback'[n] = callback[n]
        \/ callback'[n] = [callback[n] EXCEPT !.suppressed = @ \cup {latest'}]
    BY <1>4 DEF Sleep, Return, BeginRead, BeginInCallback, CancelTransaction,
                Invalidate, Commit, ntfVars
  <2> QED
    BY <1>1, <1>2, <2>1, <2>2 DEF Packed
<1>5. ASSUME NEW why, NEW v, MakePackage(r, why, v), Wait(r), callback' = callback,
             pc[r] = "idle"
      PROVE  Same
  <2>1. PICK ns : ns = NotifiersFor(r)
    OBVIOUS
  <2>2. PICK e \in BOOLEAN : e = asyncError
    BY DEF TypeOK
  <2>3. package'[r] = [NoPackage EXCEPT !.caller = why, !.notifiers = ns,
                                        !.target = v, !.error = e]
    BY <1>5, <2>1, <2>2 DEF MakePackage, TypeOK
  <2>4. /\ package'[r].notifiers = ns /\ package'[r].error = e
        /\ pc'[r] = IF e \/ ns = {} THEN "packaged" ELSE "waiting"
    BY <1>5, <2>1, <2>2, <2>3 DEF NoPackage, Wait, TypeOK
  <2> QED
    BY <1>1, <1>2, <1>5, <2>4 DEF Packed
<1>6. CASE Notify(r)
  <2>1. pc[r] = "idle"
    BY <1>6 DEF Notify
  <2>2. CASE UNCHANGED <<pc, package, callback>>
    BY <1>1, <1>2, <2>1, <2>2 DEF Packed
  <2>3. CASE ProcessAvailable(r, version[r], inRead[r])
    BY <1>1, <1>2, <2>1, <2>3, ProcessAvailablePacks DEF TypeOK
  <2>4. CASE MakePackage(r, "notify", 0) /\ Wait(r) /\ UNCHANGED callback
    BY <1>5, <2>1, <2>4
  <2> QED
    BY <1>6, <2>2, <2>3, <2>4 DEF Notify
<1>7. CASE Refresh(r)
  <2>1. pc[r] = "idle"
    BY <1>7 DEF Refresh
  <2>2. CASE MakePackage(r, "refresh", latest) /\ Wait(r) /\ UNCHANGED callback
    BY <1>5, <2>1, <2>2
  <2>3. CASE ProcessAvailable(r, latest, TRUE)
    BY <1>1, <1>2, <2>1, <2>3, ProcessAvailablePacks
  <2> QED
    BY <1>7, <2>2, <2>3 DEF Refresh
<1>8. CASE BeginTransaction(r)
  BY <1>5, <1>8 DEF BeginTransaction, ntfVars
<1> QED
  BY <1>1, <1>3, <1>4, <1>6, <1>7, <1>8 DEF RealmStep

(* A Realm's thread adds no callback, and calls none for the first time     *)
(* whose notifier has not run. *)
LEMMA RealmKeeps ==
    ASSUME BasicInv, Agree, PackageInv, NEW n \in Notifiers, SkipOf(n),
           NEW s \in Realms, RealmStep(s)
    PROVE  /\ Told(callback'[n]) \subseteq Told(callback[n])
           /\ callback'[n].present => /\ callback[n].present
                                      /\ callback'[n].late = callback[n].late
           /\ callback'[n].initial => callback[n].initial \/ ntf[n].hasRun
<1> USE DEF BasicInv
<1>1. CASE callback'[n] = callback[n]
  BY <1>1
<1>2. CASE callback'[n] = NoCallback
  BY <1>2 DEF NoCallback, Told
<1>3. CASE callback'[n] = [callback[n] EXCEPT !.suppressed = @ \cup {latest'}]
  BY <1>3, SuppressedFields DEF Told
<1>4. CASE IsPackaged(n)
  BY <1>4 DEF IsPackaged, SameCallback, Told
<1>5. CASE s = realmOf[n] /\ Advance(s)
  <2>1. CASE IsDelivered(n) /\ \E b : Packed(n) /\ IsCalled(n, b)
    <3>1. PackageOf(realmOf[n])
      BY <1>5 DEF PackageInv
    <3>2. Packed(n) => ntf[n].hasRun
      BY <3>1 DEF Packed, PackageOf
    <3> QED
      BY <2>1, <3>2 DEF IsCalled, SameCallback, Told
  <2> QED
    BY <1>1, <1>2, <1>5, <2>1, AdvanceEffect DEF PackageInv, IsDelivered
<1>6. CASE s # realmOf[n]
  BY <1>1, <1>6, Elsewhere DEF PackageInv
<1>7. CASE s = realmOf[n] /\ ~Advance(s)
  BY <1>1, <1>3, <1>4, <1>7, OtherEffect DEF PackageInv, NewlyPacked
<1> QED
  BY <1>5, <1>6, <1>7

(* What a callback is known by only moves on, and begins at the version of  *)
(* its notifier. *)
LEMMA KnownByRealm ==
    ASSUME BasicInv, BasicInv', Agree, PackageInv, NEW n \in Notifiers, SkipOf(n),
           NEW s \in Realms, RealmStep(s), Known(n)'
    PROVE  \/ Known(n) /\ Mark(n) <= Mark(n)'
           \/ Mark(n)' = ntf[n].version /\ ~callback'[n].initial
<1> USE DEF BasicInv
<1>1. PICK r \in Realms : r = realmOf[n] /\ r = realmOf'[n]
  BY RealmFrame DEF TypeOK
<1>2. /\ callback[n].present /\ ~callback[n].late /\ callback'[n].present
      /\ ~callback'[n].late
  BY RealmKeeps DEF Known
<1>3. PackageOf(r)
  BY DEF PackageInv
<1>4. /\ callback[n].base \in Nat /\ callback'[n].base \in Nat
      /\ package[r].version \in Nat /\ package'[r].version \in Nat
      /\ version'[r] \in Nat /\ ntf[n].version \in Nat
  BY DEF TypeOK, Version
<1>5. CASE s # r
  <2>1. callback'[n] = callback[n]
    BY <1>1, <1>5, Elsewhere DEF PackageInv
  <2>2. pc'[r] = pc[r] /\ package'[r] = package[r]
    BY <1>5, RealmLocal
  <2> QED
    BY <1>1, <1>4, <2>1, <2>2 DEF Known, Packed, Mark
<1>6. CASE s = r /\ Advance(r)
  <2>1. /\ pc'[r] # "packaged"
        /\ \/ callback'[n] = callback[n]
           \/ IsDelivered(n)
    BY <1>1, <1>3, <1>6, AdvanceEffect
  <2>2. callback'[n].initial
    BY <1>1, <2>1 DEF Known, Packed
  <2>3. CASE callback'[n] = callback[n]
    BY <1>2, <1>4, <2>2, <2>3 DEF Known, Mark
  <2>4. CASE Packed(n) /\ IsCalled(n, Newer(package[r].version, version'[r]))
    <3>1. Known(n)
      BY <1>2, <2>4 DEF Known
    <3>2. callback'[n].base = IF callback[n].initial THEN callback[n].base
                              ELSE Newer(package[r].version, version'[r])
      BY <2>4 DEF IsCalled
    <3>3. Mark(n) <= callback'[n].base
      BY <1>1, <1>4, <3>2 DEF Mark, Newer
    <3> QED
      BY <2>2, <3>1, <3>3 DEF Mark
  <2> QED
    BY <1>1, <1>2, <2>1, <2>3, <2>4 DEF IsDelivered, NoCallback
<1>7. CASE s = r /\ NewlyPacked(n)
  <2>1. callback'[n].initial = callback[n].initial /\ callback'[n].base = callback[n].base
    BY <1>7 DEF NewlyPacked, IsPackaged
  <2>2. CASE callback[n].initial
    BY <1>2, <1>4, <2>1, <2>2 DEF Known, Mark
  <2>3. CASE ~callback[n].initial
    <3>1. Packed(n)'
      BY <2>1, <2>3 DEF Known
    <3> QED
      BY <1>1, <1>7, <2>1, <2>3, <3>1 DEF NewlyPacked, Mark
  <2> QED
    BY <2>2, <2>3
<1>8. CASE /\ ~Packed(n)'
           /\ \/ callback'[n] = callback[n]
              \/ callback'[n] = [callback[n] EXCEPT !.suppressed = @ \cup {latest'}]
  <2>1. callback'[n].initial = callback[n].initial /\ callback'[n].base = callback[n].base
    BY <1>8, SuppressedFields
  <2> QED
    BY <1>2, <1>4, <1>8, <2>1 DEF Known, Mark
<1> QED
  BY <1>1, <1>3, <1>5, <1>6, <1>7, <1>8, OtherEffect

(* The worker's handover adds to a callback. *)
LEMMA HandedOver ==
    ASSUME BasicInv, NEW n \in Notifiers, HandOverSkipped \/ HandOverNewest
    PROVE  /\ callback'[n].present = callback[n].present
           /\ callback'[n].initial = callback[n].initial
           /\ callback'[n].late = callback[n].late
           /\ callback'[n].base = callback[n].base
           /\ callback'[n].toDeliver = callback[n].toDeliver
           /\ callback'[n].suppressed = callback[n].suppressed
<1>1. \/ callback'[n] = callback[n]
      \/ callback'[n] = AddChanges(callback[n], ntf[n].changes)
  BY HandOverEffect
<1> QED
  BY <1>1, AddChangesFields DEF BasicInv

LEMMA KnownByOthers ==
    ASSUME BasicInv, NEW n \in Notifiers,
           \/ \E m \in Notifiers : NotifierStep(m)
           \/ WorkerStep
           \/ UNCHANGED vars
    PROVE  /\ UNCHANGED <<realmOf, package, version, inRead, jumped, latest, writer>>
           /\ \A r \in Realms : \/ pc'[r] = pc[r]
                                \/ pc[r] = "asleep" /\ pc'[r] = "rechecking"
           /\ Packed(n)' <=> Packed(n)
           /\ Known(n)' => Known(n) /\ Mark(n)' = Mark(n)
<1> USE DEF BasicInv
<1>1. /\ UNCHANGED <<realmOf, package, version, inRead, jumped, latest, writer>>
      /\ \/ pc' = pc
         \/ (HandOverNewest /\ WakeWaiting)
  <2>1. CASE \E m \in Notifiers : NotifierStep(m)
    BY <2>1 DEF NotifierStep, RegisterNotifier, AddCallback, RemoveCallback, Unregister,
         SuppressNext, fileVars, realmVars, histVars
  <2>2. CASE OnChange \/ RunToSkip \/ HandOverSkipped \/ RunToNewest
    BY <2>2 DEF OnChange, RunToSkip, HandOverSkipped, RunToNewest,
         fileVars, realmVars, ntfVars, histVars
  <2>3. CASE HandOverNewest
    BY <2>3 DEF HandOverNewest, fileVars, realmVars, histVars
  <2>4. CASE UNCHANGED vars
    BY <2>4 DEF vars, fileVars, realmVars, ntfVars, histVars
  <2> QED
    BY <2>1, <2>2, <2>3, <2>4, Zenon DEF WorkerStep
<1>2. \A r \in Realms : \/ pc'[r] = pc[r]
                        \/ pc[r] = "asleep" /\ pc'[r] = "rechecking"
  BY <1>1 DEF WakeWaiting
<1>3. PICK r \in Realms : r = realmOf[n] /\ r = realmOf'[n]
  BY <1>1 DEF TypeOK
<1>4. Packed(n)' <=> Packed(n)
  BY <1>1, <1>2, <1>3 DEF Packed
<1>5. ASSUME callback'[n].initial <=> callback[n].initial,
             callback'[n].base = callback[n].base,
             callback'[n].late <=> callback[n].late,
             callback'[n].present <=> callback[n].present
      PROVE  Known(n)' => Known(n) /\ Mark(n)' = Mark(n)
  BY <1>1, <1>3, <1>4, <1>5 DEF Known, Mark
<1>6. ASSUME callback' = callback
      PROVE  Known(n)' => Known(n) /\ Mark(n)' = Mark(n)
  BY <1>5, <1>6
<1>7. ASSUME NEW m \in Notifiers, AddCallback(m)
      PROVE  Known(n)' => Known(n) /\ Mark(n)' = Mark(n)
  <2>1. CASE m = n
    <3>1. callback[n] = NoCallback
      BY <1>7, <2>1 DEF AddCallback, NotifierInv, CallbackOf
    <3>2. ~callback'[n].initial
      BY <1>7, <2>1, <3>1, AddedFields DEF NoCallback
    <3>3. ~Packed(n)
      BY <1>7, <2>1 DEF AddCallback, UserCode, Packed
    <3> QED
      BY <1>4, <3>2, <3>3 DEF Known
  <2>2. CASE m # n
    <3>1. callback'[n] = callback[n]
      BY <1>7, <2>2 DEF AddCallback, TypeOK
    <3> QED
      BY <1>5, <3>1
  <2> QED
    BY <2>1, <2>2
<1>8. ASSUME NEW m \in Notifiers, RemoveCallback(m)
      PROVE  Known(n)' => Known(n) /\ Mark(n)' = Mark(n)
  <2>1. callback'[n] = IF n = m THEN NoCallback ELSE callback[n]
    BY <1>8 DEF RemoveCallback, Forget
  <2>2. CASE n = m
    BY <2>1, <2>2 DEF Known, NoCallback
  <2>3. CASE callback'[n] = callback[n]
    BY <1>5, <2>3
  <2> QED
    BY <2>1, <2>2, <2>3
<1>9. ASSUME NEW m \in Notifiers, SuppressNext(m)
      PROVE  Known(n)' => Known(n) /\ Mark(n)' = Mark(n)
  <2>1. m # n => callback'[n] = callback[n]
    BY <1>9 DEF SuppressNext, TypeOK
  <2>2. CASE m = n
    BY <1>5, <1>9, <2>2, SkippingFields
  <2>3. CASE callback'[n] = callback[n]
    BY <1>5, <2>3
  <2> QED
    BY <2>1, <2>2, <2>3
<1>10. ASSUME HandOverSkipped \/ HandOverNewest
      PROVE  Known(n)' => Known(n) /\ Mark(n)' = Mark(n)
  BY <1>5, <1>10, HandedOver
<1>11. ASSUME OnChange \/ RunToSkip \/ RunToNewest \/ UNCHANGED vars
              \/ \E m \in Notifiers : RegisterNotifier(m) \/ Unregister(m)
      PROVE  Known(n)' => Known(n) /\ Mark(n)' = Mark(n)
  <2>1. callback' = callback
    BY <1>11 DEF OnChange, RunToSkip, RunToNewest, RegisterNotifier, Unregister,
                 vars, ntfVars
  <2> QED
    BY <1>6, <2>1
<1>12. Known(n)' => Known(n) /\ Mark(n)' = Mark(n)
  BY <1>7, <1>8, <1>9, <1>10, <1>11 DEF NotifierStep, WorkerStep
<1> QED
  BY <1>1, <1>2, <1>4, <1>12, Zenon

(* What the worker hands over goes on from where its notifier is. *)
LEMMA RunStep ==
    ASSUME BasicInv, BasicInv', Agree, PackageInv, ToldInv, [Next]_vars,
           NEW n \in Notifiers, RunOf(n), SkipOf(n)
    PROVE  RunOf(n)'
<1> USE DEF BasicInv
<1>1. /\ HistoryOf(n) /\ CallbackOf(n) /\ ToldOf(n)
      /\ ntf[n].rows \in Nat /\ ntf[n].version \in Nat /\ sgVersion \in Nat
      /\ callback[n].base \in Nat /\ package[realmOf[n]].version \in Nat
      /\ latest \in Nat
  BY DEF ToldInv, NotifierInv, TypeOK, Version
<1>2. Mark(n) \in Nat
  BY <1>1 DEF Mark
<1>3. ASSUME NEW s \in Realms, RealmStep(s)
      PROVE  RunOf(n)'
  <2>1. ntf' = ntf /\ sgVersion' = sgVersion
        /\ UNCHANGED <<wpc, running, starting>>
    BY <1>3, RealmFrame DEF groupVars, workerVars
  <2>2. /\ Told(callback'[n]) \subseteq Told(callback[n])
        /\ callback'[n].present => /\ callback[n].present
                                   /\ callback'[n].late = callback[n].late
        /\ callback'[n].initial => callback[n].initial \/ ntf[n].hasRun
    BY <1>3, RealmKeeps
  <2>3. Known(n)' => \/ Known(n) /\ Mark(n) <= Mark(n)'
                     \/ Mark(n)' = ntf[n].version
    BY <1>3, KnownByRealm
  <2>4. Mark(n)' \in Nat
    <3>1. callback'[n].base \in Nat /\ package'[realmOf'[n]].version \in Nat
      BY DEF TypeOK, Version
    <3> QED
      BY <3>1 DEF Mark
  <2>5. ntf[n].changes \subseteq Nat
    BY <1>1 DEF HistoryOf
  <2>6. Known(n)' =>
          /\ \A x \in ntf[n].changes : x <= Mark(n)' \/ x > ntf[n].version
          /\ ntf[n].rows >= ntf[n].version \/ ntf[n].version <= Mark(n)'
    BY <1>1, <1>2, <2>3, <2>4, <2>5 DEF RunOf
  <2>7. RanNow(n)' = RanNow(n)
    BY <2>1 DEF RanNow
  <2> QED
    BY <2>1, <2>2, <2>6, <2>7 DEF RunOf
<1>4. ASSUME \/ \E m \in Notifiers : NotifierStep(m)
             \/ WorkerStep
             \/ UNCHANGED vars
      PROVE  Known(n)' => Known(n) /\ Mark(n)' = Mark(n)
  BY <1>4, KnownByOthers
<1>5. ASSUME ntf'[n].hasRun <=> ntf[n].hasRun,
             callback'[n].initial => callback[n].initial,
             Told(callback'[n]) \subseteq 1 .. ntf'[n].version,
             callback'[n].present =>
               /\ callback[n].present
               /\ callback'[n].late <=> callback[n].late
               /\ ntf'[n].version = ntf[n].version
               /\ ntf'[n].rows = ntf[n].rows
               /\ ntf'[n].changes = ntf[n].changes
               /\ RanNow(n)' => RanNow(n) /\ sgVersion' = sgVersion,
             Known(n)' => Known(n) /\ Mark(n)' = Mark(n)
      PROVE  RunOf(n)'
  <2>1. Known(n)' => callback'[n].present
    BY DEF Known
  <2> QED
    BY <1>5, <2>1 DEF RunOf
<1>6. CASE UNCHANGED vars
  <2>1. /\ UNCHANGED <<ntf, callback, sgVersion>>
        /\ RanNow(n)' <=> RanNow(n)
    BY <1>6 DEF vars, ntfVars, coordVars, groupVars, workerVars, RanNow
  <2> QED
    BY <1>4, <1>5, <1>6, <2>1 DEF RunOf
<1>7. ASSUME NEW m \in Notifiers, RegisterNotifier(m) \/ Unregister(m)
      PROVE  RunOf(n)'
  <2>1. /\ callback' = callback /\ sgVersion' = sgVersion
        /\ RanNow(n)' <=> RanNow(n)
    BY <1>7 DEF RegisterNotifier, Unregister, coordVars, groupVars, workerVars, RanNow
  <2>2. /\ ntf'[n].hasRun = ntf[n].hasRun
        /\ callback[n].present => ntf'[n] = ntf[n]
    BY <1>1, <1>7, RegisteredFields DEF CallbackOf
  <2>3. Told(callback[n]) \subseteq 1 .. ntf'[n].version
    <3>1. callback[n].present \/ Told(callback[n]) = {}
      BY <1>1 DEF CallbackOf, Told, NoCallback
    <3> QED
      BY <2>2, <3>1 DEF RunOf
  <2> QED
    BY <1>4, <1>5, <1>7, <2>1, <2>2, <2>3 DEF NotifierStep
<1>8. ASSUME NEW m \in Notifiers, AddCallback(m) \/ RemoveCallback(m) \/ SuppressNext(m)
      PROVE  RunOf(n)'
  <2>1. /\ UNCHANGED <<ntf, sgVersion, wpc, running, starting>>
        /\ RanNow(n)' <=> RanNow(n)
    BY <1>8 DEF AddCallback, RemoveCallback, SuppressNext, coordVars, groupVars,
                workerVars, RanNow
  <2>2. Known(n)' => Known(n) /\ Mark(n)' = Mark(n)
    BY <1>4, <1>8 DEF NotifierStep
  <2>3. CASE callback'[n] = callback[n]
    BY <1>5, <2>1, <2>2, <2>3 DEF RunOf
  <2>4. CASE callback'[n] = NoCallback
    BY <1>5, <2>1, <2>2, <2>4 DEF Told, NoCallback
  <2>5. CASE m = n /\ SuppressNext(n)
    <3>1. Told(callback'[n]) = Told(callback[n])
      BY <2>5, SkippingFields DEF Told
    <3> QED
      BY <1>5, <2>1, <2>2, <2>5, <3>1, SkippingFields DEF RunOf
  <2>6. CASE m = n /\ AddCallback(n)
    <3>1. callback[n] = NoCallback
      BY <1>1, <2>6 DEF AddCallback, CallbackOf
    <3>2. /\ ~callback'[n].initial /\ Told(callback'[n]) = {}
          /\ callback'[n].late <=> n \in running /\ wpc \in {"skipped", "advanced"}
      BY <2>6, <3>1, AddedFields DEF NoCallback, Told
    <3>3. ~Known(n)
      BY <3>1 DEF Known, NoCallback
    <3>4. RanNow(n) /\ ~callback'[n].late => n \in starting /\ wpc = "advanced"
      BY <3>2 DEF RanNow
    <3> QED
      BY <1>1, <2>1, <2>2, <3>2, <3>3, <3>4 DEF RunOf, HistoryOf
  <2>7. \/ callback'[n] = callback[n]
        \/ callback'[n] = NoCallback
        \/ m = n /\ SuppressNext(n)
        \/ m = n /\ AddCallback(n)
    <3>1. CASE AddCallback(m) \/ SuppressNext(m)
      BY <3>1 DEF AddCallback, SuppressNext, TypeOK
    <3>2. CASE RemoveCallback(m)
      BY <3>2 DEF RemoveCallback, Forget
    <3> QED
      BY <1>8, <3>1, <3>2
  <2> QED
    BY <2>3, <2>4, <2>5, <2>6, <2>7
<1>9. CASE OnChange
  <2>1. callback' = callback /\ SameHistory(n)
    BY <1>9, OnChangeEffect DEF OnChange
  <2>2. ~RanNow(n)'
    BY <1>9 DEF OnChange, WorkerIdles, WorkerFails, WorkerBegins, workerVars, RanNow
  <2>3. Known(n)' => Known(n) /\ Mark(n)' = Mark(n)
    BY <1>4, <1>9 DEF WorkerStep
  <2> QED
    BY <1>5, <2>1, <2>2, <2>3 DEF SameHistory, RunOf
<1>10. CASE RunToSkip \/ RunToNewest
  <2>1. callback' = callback /\ UNCHANGED <<running, starting>>
    BY <1>10 DEF RunToSkip, RunToNewest
  <2>2. Known(n)' => Known(n) /\ Mark(n)' = Mark(n)
    BY <1>4, <1>10 DEF WorkerStep
  <2>3. PICK ns \in SUBSET Notifiers, v \in 1 .. runTo :
          /\ \/ /\ wpc = "skipping" /\ wpc' = "skipped"
                /\ ns = running
             \/ /\ wpc = "advancing" /\ wpc' = "advanced"
                /\ ns = running \cup starting
          /\ sgVersion <= v /\ sgVersion' = v
          /\ \/ ntf'[n] = ntf[n] /\ (n \in ns => ~callback[n].present)
             \/ /\ n \in ns
                /\ ntf'[n].version = ntf[n].version
                /\ ntf'[n].hasRun = ntf[n].hasRun
                /\ ntf'[n].rows = v
                /\ ntf'[n].changes = IF ntf[n].hasRun /\ callback[n].present
                                     THEN Between(ntf[n].rows, v) ELSE {}
    BY <1>10, RunEffect
  <2>4. ~RanNow(n) /\ (RanNow(n)' <=> n \in ns)
    BY <2>1, <2>3 DEF RanNow
  <2>5. CASE ntf'[n] = ntf[n] /\ (n \in ns => ~callback[n].present)
    BY <1>5, <2>1, <2>2, <2>4, <2>5 DEF RunOf
  <2>6. CASE /\ n \in ns
             /\ ntf'[n].version = ntf[n].version
             /\ ntf'[n].hasRun = ntf[n].hasRun
             /\ ntf'[n].rows = v
             /\ ntf'[n].changes = IF ntf[n].hasRun /\ callback[n].present
                                  THEN Between(ntf[n].rows, v) ELSE {}
    <3>1. v \in Nat /\ (ntf[n].hasRun => ntf[n].rows <= ntf[n].version)
      BY <1>1, <2>4 DEF HistoryOf, TypeOK
    <3>2. callback[n].present /\ ntf[n].hasRun =>
            Between(ntf[n].version, v) \subseteq ntf'[n].changes
      BY <1>1, <2>6, <3>1 DEF Between
    <3>3. Known(n) => \A x \in ntf'[n].changes : x <= Mark(n) \/ x > ntf[n].version
      BY <1>1, <1>2, <2>6, <3>1 DEF Between, RunOf
    <3>4. Known(n) => v >= ntf[n].version \/ ntf[n].version <= Mark(n)
      <4>1. Known(n) => ntf[n].version <= sgVersion \/ ~ntf[n].hasRun
        BY <1>1 DEF HistoryOf
      <4>2. Known(n) => ntf[n].hasRun
        <5>1. PackageOf(realmOf[n])
          BY DEF PackageInv, TypeOK
        <5> QED
          BY <5>1 DEF Known, Packed, PackageOf, RunOf
      <4> QED
        BY <1>1, <2>3, <3>1, <4>1, <4>2
    <3> QED
      BY <2>1, <2>2, <2>3, <2>6, <3>2, <3>3, <3>4 DEF RunOf
  <2> QED
    BY <2>3, <2>5, <2>6
<1>11. CASE HandOverSkipped \/ HandOverNewest
  <2>1. sgVersion' = sgVersion
    BY <1>11 DEF HandOverSkipped, HandOverNewest, coordVars, groupVars
  <2>2. Known(n)' => Known(n) /\ Mark(n)' = Mark(n)
    BY <1>4, <1>11 DEF WorkerStep
  <2>3. ~RanNow(n)'
    BY <1>11 DEF HandOverSkipped, HandOverNewest, RanNow
  <2>4. PICK ns \in SUBSET Notifiers :
             /\ \/ wpc = "skipped" /\ ns = running
                \/ wpc = "advanced" /\ ns = running \cup starting
             /\ ntf'[n].rows = ntf[n].rows
             /\ n \in ns => /\ ntf'[n].version = sgVersion
                            /\ ntf'[n].hasRun
                            /\ ntf'[n].changes = {}
             /\ n \notin ns => SameHistory(n)
             /\ callback'[n] = IF n \in ns /\ callback[n].present
                               THEN AddChanges(callback[n], ntf[n].changes)
                               ELSE callback[n]
    BY <1>11, HandOverEffect
  <2>5. CASE n \notin ns
    BY <1>5, <2>2, <2>3, <2>4, <2>5 DEF SameHistory, RunOf
  <2>6. CASE n \in ns
    <3>1. RanNow(n)
      BY <2>4, <2>6 DEF RanNow
    <3>2. Told(callback'[n]) \subseteq Told(callback[n]) \cup ntf[n].changes
      BY <2>4, AddChangesFields DEF Told
    <3>3. Told(callback'[n]) \subseteq 1 .. sgVersion
      BY <1>1, <3>2 DEF ToldOf, HistoryOf
    <3>4. Known(n) => ntf[n].rows = sgVersion
      BY <3>1 DEF RunOf, Known
    <3> QED
      BY <1>1, <2>2, <2>3, <2>4, <2>6, <3>3, <3>4 DEF RunOf
  <2> QED
    BY <2>5, <2>6
<1> QED
  BY <1>3, <1>6, <1>7, <1>8, <1>9, <1>10, <1>11
     DEF Next, NotifierStep, WorkerStep

(* Delivering tells a callback of the package's version, the newest if its  *)
(* Realm writes. *)
LEMMA PackedByAdvance ==
    ASSUME BasicInv, BasicInv', PackageInv, NEW n \in Notifiers, PackedOf(n),
           Advance(realmOf[n])
    PROVE  PackedOf(n)'
<1> USE DEF BasicInv
<1>1. PICK r \in Realms : r = realmOf[n] /\ r = realmOf'[n]
  BY RealmFrame DEF TypeOK, RealmStep
<1>2. PackageOf(r)
  BY DEF PackageInv
<1>3. /\ pc[r] = "packaged" /\ pc'[r] \in {"idle", "calling"}
      /\ UNCHANGED <<latest, writer, realmOf, ntf, jumped, inRead>>
      /\ \/ /\ package[r].caller = "notify"
            /\ package[r].version < version[r]
            /\ version'[r] = version[r] /\ callback'[n] = callback[n]
         \/ IsDelivered(n)
  BY <1>1, <1>2, AdvanceEffect
<1>4. /\ ~Packed(n)' /\ ~Waiting(r)' /\ ~Inside(r)'
  BY <1>1, <1>3 DEF Packed, Waiting, Inside
<1>5. ASSUME callback'[n].present, writer = r, ~jumped[r]
      PROVE  /\ callback'[n].initial /\ ntf[n].hasRun
             /\ ntf[n].version = latest /\ version'[r] = latest
             /\ ~callback'[n].late =>
                  callback'[n].accumulated \cup callback'[n].toDeliver
                    \subseteq 1 .. callback'[n].base
  <2>1. PICK p \in PackageT(latest) : p = package[r]
    BY DEF TypeOK, PackageT
  <2>2. p.caller = "write" /\ p.target = latest /\ p.version \in {0, latest}
    BY <1>1, <1>2, <1>3, <1>5, <2>1 DEF PackedOf, PackageOf, Inside
  <2>3. latest \in Nat \ {0} /\ ntf[n].version \in 0 .. latest
        /\ callback[n].accumulated \subseteq 2 .. latest
        /\ callback[n].base \in Nat
    BY DEF TypeOK, Version
  <2>4. IsDelivered(n) /\ version'[r] = latest
    BY <1>1, <1>3, <2>1, <2>2 DEF IsDelivered
  <2>5. callback[n].present
    BY <1>1, <1>5, <2>4 DEF IsDelivered, IsCalled, SameCallback, NoCallback
  <2>6. n \in p.notifiers
    BY <1>1, <1>3, <2>1, <2>2, <2>3, <2>5 DEF PackedOf
  <2>7. Packed(n)
        /\ \/ /\ callback'[n] = callback[n]
              /\ callback[n].initial /\ callback[n].toDeliver = {}
           \/ IsCalled(n, Newer(p.version, latest))
    BY <1>1, <1>5, <2>1, <2>4, <2>5, <2>6 DEF IsDelivered, NoCallback
  <2>8. ntf[n].hasRun /\ p.version \in 1 .. ntf[n].version
    BY <1>1, <1>2, <2>1, <2>7 DEF Packed, PackageOf
  <2>9. p.version = latest /\ ntf[n].version = latest
    BY <2>2, <2>3, <2>8
  <2>10. callback[n].initial /\ ~callback[n].late =>
           callback[n].accumulated \subseteq 1 .. callback[n].base
    <3>1. callback[n].initial /\ ~callback[n].late =>
            \A u \in callback[n].accumulated : u <= callback[n].base \/ u > latest
      BY <1>1, <2>1, <2>7, <2>9 DEF PackedOf
    <3> QED
      BY <2>3, <3>1
  <2>11. CASE /\ callback'[n] = callback[n]
              /\ callback[n].initial /\ callback[n].toDeliver = {}
    BY <2>4, <2>8, <2>9, <2>10, <2>11
  <2>12. CASE IsCalled(n, Newer(p.version, latest))
    <3>1. Newer(p.version, latest) = latest
      BY <2>3, <2>9 DEF Newer
    <3> QED
      BY <2>3, <2>4, <2>8, <2>9, <2>10, <2>12, <3>1 DEF IsCalled, SameCallback
  <2> QED
    BY <2>7, <2>11, <2>12
<1> QED
  BY <1>1, <1>3, <1>4, <1>5 DEF PackedOf

(* A wait that ends leaves no callback out that it waited for. *)
LEMMA PackedByPackaging ==
    ASSUME BasicInv, BasicInv', Agree, PackageInv, NEW n \in Notifiers,
           PackedOf(n), RunOf(n), PackageAndWait(realmOf[n])
    PROVE  PackedOf(n)'
<1> USE DEF BasicInv
<1>1. PICK r \in Realms : r = realmOf[n] /\ r = realmOf'[n]
  BY RealmFrame DEF TypeOK, RealmStep
<1>2. PackageOf(r) /\ NewlyPacked(n)
  BY <1>1, PackageAndWaitPacks DEF PackageInv
<1>3. PICK ns : ns = {m \in package[r].notifiers : ntf[m].hasRun}
  OBVIOUS
<1>4. /\ pc'[r] = "packaged" /\ Waiting(r) /\ Inside(r) /\ Ready(r)
      /\ ~UserCode(r)' /\ ~Waiting(r)'
      /\ UNCHANGED <<latest, writer, ntf, realmOf, jumped>>
  BY <1>1 DEF PackageAndWait, TypeOK, Waiting, Inside, fileVars, histVars, UserCode
<1>5. PICK p \in PackageT(latest) : p = package[r]
  BY DEF TypeOK, PackageT
<1>6. /\ package'[r].caller = p.caller /\ package'[r].target = p.target
      /\ package'[r].error = p.error
      /\ \/ package'[r].notifiers = {} /\ \A m \in ns : ntf[m].version < p.target
         \/ package'[r].notifiers = ns
  <2>1. CASE /\ package' = [package EXCEPT ![r].notifiers = {}]
             /\ \A m \in ns : ntf[m].version < p.target
    <3>1. package'[r] = [p EXCEPT !.notifiers = {}]
      BY <1>5, <2>1 DEF TypeOK
    <3> QED
      BY <2>1, <3>1 DEF PackageT
  <2>2. CASE \E m \in ns : package' = [package EXCEPT ![r].notifiers = ns,
                                                      ![r].version = ntf[m].version]
    <3>1. PICK m \in ns : package' = [package EXCEPT ![r].notifiers = ns,
                                                     ![r].version = ntf[m].version]
      BY <2>2
    <3>2. PICK v : v = ntf[m].version
      OBVIOUS
    <3>3. package'[r] = [p EXCEPT !.notifiers = ns, !.version = v]
      BY <1>5, <3>1, <3>2 DEF TypeOK
    <3> QED
      BY <3>3 DEF PackageT
  <2> QED
    BY <1>1, <1>3, <1>5, <2>1, <2>2 DEF PackageAndWait
<1>7. /\ callback'[n].present => callback[n].present
      /\ callback'[n].initial <=> callback[n].initial
  BY <1>2 DEF NewlyPacked, IsPackaged, SameCallback
<1>8. ASSUME callback[n].present, callback[n].initial \/ p.target # 0 \/ p.error
      PROVE  n \in package'[r].notifiers
  <2>1. n \in p.notifiers /\ ~p.error
    BY <1>1, <1>2, <1>4, <1>5, <1>8 DEF PackedOf, PackageOf
  <2>2. p.target \in Nat /\ ntf[n].version \in Nat
    BY <1>5 DEF PackageT, TypeOK, Version
  <2>3. p.target # 0 => ntf[n].hasRun /\ ntf[n].version >= p.target
    BY <1>4, <1>5, <1>8, <2>1 DEF Ready
  <2>4. callback[n].initial => ntf[n].hasRun
    BY DEF RunOf
  <2>5. n \in ns /\ ~(ntf[n].version < p.target)
    BY <1>3, <1>5, <1>8, <2>1, <2>2, <2>3, <2>4
  <2> QED
    BY <1>6, <2>5
<1>9. Packed(n)' => /\ callback'[n].toDeliver \subseteq 1 .. package'[r].version
                    /\ callback'[n].accumulated = {}
  <2>1. callback[n].accumulated \subseteq 1 .. ntf[n].version
    BY DEF RunOf, Told
  <2>2. ~callback[n].present => callback[n] = NoCallback
    BY DEF NotifierInv, CallbackOf
  <2> QED
    BY <1>1, <1>2, <2>1, <2>2 DEF NewlyPacked, IsPackaged, NoCallback
<1>10. Inside(r)' /\ writer = r => package'[r].caller = "write"
  BY <1>1, <1>4, <1>5, <1>6 DEF PackedOf
<1> QED
  BY <1>1, <1>4, <1>5, <1>6, <1>7, <1>8, <1>9, <1>10 DEF PackedOf

LEMMA PackedByRealm ==
    ASSUME BasicInv, BasicInv', Agree, PackageInv, NEW n \in Notifiers,
           PackedOf(n), RunOf(n), RealmStep(realmOf[n])
    PROVE  PackedOf(n)'
<1> USE DEF BasicInv
<1>1. PICK r \in Realms : r = realmOf[n] /\ r = realmOf'[n]
  BY RealmFrame DEF TypeOK, RealmStep
<1>2. PackageOf(r) /\ UNCHANGED <<realmOf, ntf>> /\ r # NoRealm
  BY <1>1, RealmFrame, NotifiersAssumption DEF PackageInv
<1>3. CASE Advance(r)
  BY <1>1, <1>3, PackedByAdvance
<1>4. CASE PackageAndWait(r)
  BY <1>1, <1>4, PackedByPackaging
<1>5. CASE Sleep(r)
  <2>1. /\ UNCHANGED <<writer, latest, version, package, jumped, callback>>
        /\ Waiting(r) /\ pc'[r] = "asleep"
    BY <1>5 DEF Sleep, fileVars, ntfVars, histVars, Waiting, TypeOK
  <2> QED
    BY <1>1, <2>1 DEF PackedOf, Packed, Waiting, Inside, UserCode
<1>6. CASE Return(r) \/ BeginRead(r)
  <2>1. /\ UNCHANGED <<writer, latest, callback>>
        /\ UserCode(r) /\ UserCode(r)' /\ pc'[r] # "packaged" /\ ~Waiting(r)'
        /\ ~jumped'[r] => ~jumped[r] /\ version'[r] = version[r]
    BY <1>6 DEF Return, BeginRead, ReadNewest, fileVars, ntfVars, histVars, Waiting,
                UserCode, TypeOK
  <2> QED
    BY <1>1, <1>2, <2>1 DEF PackedOf, Packed, Inside
<1>7. CASE BeginInCallback(r) \/ Commit(r) \/ CancelTransaction(r) \/ Invalidate(r)
  <2>1. /\ pc'[r] # "packaged" /\ ~Waiting(r)'
        /\ writer' # r \/ jumped'[r]
    BY <1>2, <1>7 DEF BeginInCallback, Commit, CancelTransaction, Invalidate,
                realmVars, Waiting, UserCode, TypeOK
  <2> QED
    BY <1>1, <1>2, <2>1 DEF PackedOf, Packed, Inside
<1>8. ASSUME NEW why \in {"notify", "refresh", "write"}, NEW v,
             MakePackage(r, why, v), Wait(r), callback' = callback,
             writer' = r => why = "write"
      PROVE  PackedOf(n)'
  <2>1. PICK ns : ns = NotifiersFor(r)
    OBVIOUS
  <2>2. PICK e \in BOOLEAN : e = asyncError
    BY DEF TypeOK
  <2>3. package'[r] = [NoPackage EXCEPT !.caller = why, !.notifiers = ns,
                                        !.target = v, !.error = e]
    BY <1>8, <2>1, <2>2 DEF MakePackage, TypeOK
  <2>4. /\ package'[r].notifiers = ns /\ package'[r].error = e
        /\ package'[r].caller = why
        /\ pc'[r] = IF e \/ ns = {} THEN "packaged" ELSE "waiting"
    BY <1>8, <2>1, <2>2, <2>3 DEF NoPackage, Wait, TypeOK
  <2>5. callback[n].present => n \in ns
    BY <1>1, <2>1 DEF NotifiersFor, Alive, In, NotifierInv, CallbackOf
  <2>6. ~Packed(n)' /\ ~UserCode(r)'
    BY <1>1, <2>4 DEF Packed, UserCode
  <2> QED
    BY <1>1, <1>8, <2>4, <2>5, <2>6 DEF PackedOf
<1>9. ASSUME NEW v, NEW reading \in BOOLEAN, ProcessAvailable(r, v, reading),
             pc[r] = "idle", writer' # r
      PROVE  PackedOf(n)'
  <2>1. PICK ns : ns = IF asyncError THEN NotifiersFor(r)
                       ELSE {m \in NotifiersFor(r) : Current(m, v, reading)}
    OBVIOUS
  <2>2. PICK e \in BOOLEAN : e = asyncError
    BY DEF TypeOK
  <2>3. package'[r] = [NoPackage EXCEPT !.caller = "available", !.notifiers = ns,
                               !.version = NewestOf(ns), !.error = e]
    BY <1>9, <2>1, <2>2 DEF ProcessAvailable, TypeOK
  <2>4. package'[r].caller = "available" /\ ~Waiting(r)'
    BY <1>9, <2>3 DEF NoPackage, ProcessAvailable, Waiting, TypeOK
  <2>5. NewlyPacked(n)
    BY <1>1, <1>2, <1>9, ProcessAvailablePacks
  <2>6. Packed(n)' => /\ callback'[n].toDeliver \subseteq 1 .. package'[r].version
                      /\ callback'[n].accumulated = {}
    <3>1. callback[n].accumulated \subseteq 1 .. ntf[n].version
      BY DEF RunOf, Told
    <3>2. ~callback[n].present => callback[n] = NoCallback
      BY DEF NotifierInv, CallbackOf
    <3> QED
      BY <1>1, <2>5, <3>1, <3>2 DEF NewlyPacked, IsPackaged, NoCallback
  <2> QED
    BY <1>1, <1>9, <2>4, <2>6 DEF PackedOf
<1>10. CASE Notify(r)
  <2>1. /\ pc[r] = "idle" /\ UNCHANGED <<writer, latest, version, jumped>>
    BY <1>10 DEF Notify, fileVars, histVars
  <2>2. CASE UNCHANGED <<pc, package, callback>>
    BY <1>1, <1>2, <2>1, <2>2 DEF PackedOf, Packed, Waiting, Inside, UserCode
  <2>3. CASE writer # r /\ ProcessAvailable(r, version[r], inRead[r])
    BY <1>9, <2>1, <2>3 DEF TypeOK
  <2>4. CASE writer # r /\ MakePackage(r, "notify", 0) /\ Wait(r) /\ UNCHANGED callback
    BY <1>8, <2>1, <2>4
  <2> QED
    BY <1>10, <2>2, <2>3, <2>4 DEF Notify
<1>11. CASE Refresh(r)
  <2>1. pc[r] = "idle" /\ writer # r /\ writer' = writer
    BY <1>11 DEF Refresh, fileVars
  <2>2. CASE MakePackage(r, "refresh", latest) /\ Wait(r) /\ UNCHANGED callback
    BY <1>8, <2>1, <2>2
  <2>3. CASE ProcessAvailable(r, latest, TRUE)
    BY <1>9, <2>1, <2>3
  <2> QED
    BY <1>11, <2>2, <2>3 DEF Refresh
<1>12. CASE BeginTransaction(r)
  BY <1>8, <1>12 DEF BeginTransaction, ntfVars
<1> QED
  BY <1>1, <1>3, <1>4, <1>5, <1>6, <1>7, <1>10, <1>11, <1>12 DEF RealmStep

(* The same for the steps of other threads *)
LEMMA PackedStep ==
    ASSUME BasicInv, BasicInv', Agree, PackageInv, [Next]_vars,
           NEW n \in Notifiers, PackedOf(n), RunOf(n), SkipOf(n)
    PROVE  PackedOf(n)'
<1> USE DEF BasicInv
<1>1. PICK r \in Realms : r = realmOf[n]
  BY DEF TypeOK
<1>2. /\ CallbackOf(n) /\ HistoryOf(n) /\ PackageOf(r)
      /\ ntf[n].version \in 0 .. latest /\ sgVersion \in 0 .. latest /\ latest \in Nat
      /\ r # NoRealm
  BY NotifiersAssumption DEF NotifierInv, PackageInv, TypeOK, Version
<1>3. CASE RealmStep(r)
  BY <1>1, <1>3, PackedByRealm
<1>4. ASSUME NEW s \in Realms, s # r, RealmStep(s)
      PROVE  PackedOf(n)'
  <2>1. /\ pc'[r] = pc[r] /\ package'[r] = package[r]
        /\ version'[r] = version[r] /\ jumped'[r] = jumped[r]
    BY <1>4, RealmLocal
  <2>2. callback'[n] = callback[n]
    BY <1>1, <1>4, Elsewhere DEF PackageInv
  <2>3. UNCHANGED <<ntf, realmOf>>
    BY <1>4, RealmFrame
  <2>4. writer' = r => writer = r /\ latest' = latest
    BY <1>2, <1>4, WriterFrame, WriteExcludes
  <2> QED
    BY <1>1, <2>1, <2>2, <2>3, <2>4 DEF PackedOf, Packed, Waiting, Inside, UserCode
<1>5. ASSUME \/ \E m \in Notifiers : NotifierStep(m)
             \/ WorkerStep
             \/ UNCHANGED vars
      PROVE  /\ UNCHANGED <<realmOf, package, version, inRead, jumped, latest, writer>>
             /\ Packed(n)' <=> Packed(n)
             /\ Waiting(r)' <=> Waiting(r)
             /\ Inside(r)' <=> Inside(r)
             /\ UserCode(r)' <=> UserCode(r)
             /\ pc'[r] = "packaged" <=> pc[r] = "packaged"
  <2>1. /\ UNCHANGED <<realmOf, package, version, inRead, jumped, latest, writer>>
        /\ \/ pc'[r] = pc[r]
           \/ pc[r] = "asleep" /\ pc'[r] = "rechecking"
        /\ Packed(n)' <=> Packed(n)
    BY <1>5, KnownByOthers
  <2> QED
    BY <2>1 DEF Waiting, Inside, UserCode
<1>6. ASSUME \/ \E m \in Notifiers : NotifierStep(m)
             \/ WorkerStep
             \/ UNCHANGED vars,
             callback'[n].present => /\ callback[n].present
                                     /\ ntf'[n].hasRun <=> ntf[n].hasRun
                                     /\ ntf'[n].version = ntf[n].version,
             callback'[n].initial <=> callback[n].initial,
             callback'[n].late <=> callback[n].late,
             callback'[n].base = callback[n].base,
             callback'[n].toDeliver = callback[n].toDeliver,
             callback'[n].accumulated = callback[n].accumulated
      PROVE  PackedOf(n)'
  BY <1>1, <1>5, <1>6 DEF PackedOf
<1>7. CASE UNCHANGED vars
  BY <1>6, <1>7 DEF vars, ntfVars
<1>8. ASSUME NEW m \in Notifiers, RegisterNotifier(m) \/ Unregister(m)
      PROVE  PackedOf(n)'
  <2>1. callback' = callback
    BY <1>8 DEF RegisterNotifier, Unregister
  <2>2. callback[n].present => ntf'[n] = ntf[n]
    BY <1>2, <1>8, RegisteredFields DEF CallbackOf
  <2> QED
    BY <1>6, <1>8, <2>1, <2>2 DEF NotifierStep
<1>9. ASSUME NEW m \in Notifiers, SuppressNext(m)
      PROVE  PackedOf(n)'
  <2>1. ntf' = ntf /\ (m # n => callback'[n] = callback[n])
    BY <1>9 DEF SuppressNext, TypeOK
  <2>2. CASE m = n
    BY <1>6, <1>9, <2>1, <2>2, SkippingFields DEF NotifierStep
  <2>3. CASE callback'[n] = callback[n]
    BY <1>6, <1>9, <2>1, <2>3 DEF NotifierStep
  <2> QED
    BY <2>1, <2>2, <2>3
<1>10. ASSUME NEW m \in Notifiers, RemoveCallback(m)
      PROVE  PackedOf(n)'
  <2>1. ntf' = ntf /\ callback'[n] \in {NoCallback, callback[n]}
    BY <1>10 DEF RemoveCallback, Forget
  <2>2. CASE callback'[n] = NoCallback
    BY <1>1, <1>5, <1>10, <2>2 DEF NotifierStep, PackedOf, NoCallback
  <2>3. CASE callback'[n] = callback[n]
    BY <1>6, <1>10, <2>1, <2>3 DEF NotifierStep
  <2> QED
    BY <2>1, <2>2, <2>3
<1>11. ASSUME NEW m \in Notifiers, AddCallback(m)
      PROVE  PackedOf(n)'
  <2>1. ntf' = ntf /\ (m # n => callback'[n] = callback[n])
    BY <1>11 DEF AddCallback, TypeOK
  <2>2. CASE m = n
    <3>1. UserCode(r) /\ writer # r
      BY <1>1, <1>11, <2>2 DEF AddCallback
    <3>2. ~Inside(r) /\ ~Waiting(r) /\ pc[r] # "packaged" /\ ~Packed(n)
      BY <1>1, <3>1 DEF UserCode, Inside, Waiting, Packed
    <3> QED
      BY <1>1, <1>5, <1>11, <3>1, <3>2 DEF NotifierStep, PackedOf
  <2>3. CASE callback'[n] = callback[n]
    BY <1>6, <1>11, <2>1, <2>3 DEF NotifierStep
  <2> QED
    BY <2>1, <2>2, <2>3
<1>12. CASE OnChange
  <2>1. callback' = callback /\ SameHistory(n)
    BY <1>12, OnChangeEffect DEF OnChange
  <2> QED
    BY <1>6, <1>12, <2>1 DEF WorkerStep, SameHistory
<1>13. CASE RunToSkip \/ RunToNewest
  <2>1. callback' = callback
    BY <1>13 DEF RunToSkip, RunToNewest
  <2>2. ntf'[n].version = ntf[n].version /\ ntf'[n].hasRun = ntf[n].hasRun
    BY <1>13, RunEffect
  <2> QED
    BY <1>6, <1>13, <2>1, <2>2 DEF WorkerStep
<1>14. CASE HandOverSkipped \/ HandOverNewest
  <2>1. /\ \/ SameHistory(n)
           \/ ntf'[n].version = sgVersion /\ ntf'[n].hasRun
        /\ \/ callback'[n] = callback[n]
           \/ callback'[n] = AddChanges(callback[n], ntf[n].changes)
    BY <1>14, HandOverEffect
  <2>2. /\ callback'[n].present = callback[n].present
        /\ callback'[n].initial = callback[n].initial
        /\ callback'[n].late = callback[n].late
        /\ callback'[n].base = callback[n].base
        /\ callback'[n].toDeliver = callback[n].toDeliver
    BY <1>14, HandedOver
  <2>3. callback'[n].accumulated \subseteq callback[n].accumulated \cup ntf[n].changes
    BY <2>1, AddChangesFields
  <2>4. /\ UNCHANGED <<realmOf, package, version, inRead, jumped, latest, writer>>
        /\ Packed(n)' <=> Packed(n)
        /\ Waiting(r)' <=> Waiting(r)
        /\ Inside(r)' <=> Inside(r)
        /\ UserCode(r)' <=> UserCode(r)
        /\ pc'[r] = "packaged" <=> pc[r] = "packaged"
    BY <1>5, <1>14 DEF WorkerStep
  <2>5. callback[n].initial /\ ~callback[n].present => FALSE
    BY <1>2 DEF CallbackOf, NoCallback
  <2>6. /\ callback[n].base \in Nat /\ package[r].version \in Nat
        /\ ntf[n].changes \subseteq 2 .. latest
    BY DEF TypeOK, Version
  <2>7. callback[n].initial /\ ~callback[n].late =>
          \A x \in ntf[n].changes : x <= callback[n].base \/ x > ntf[n].version
    BY <2>5 DEF RunOf, Known, Mark
  <2>8. Packed(n) /\ callback[n].initial /\ ~callback[n].late =>
          \A u \in callback'[n].accumulated : u <= callback[n].base \/ u > package[r].version
    <3>1. Packed(n) => package[r].version \in 1 .. ntf[n].version
      BY <1>1, <1>2 DEF Packed, PackageOf
    <3>2. Packed(n) /\ callback[n].initial /\ ~callback[n].late =>
            \A u \in callback[n].accumulated :
              u <= callback[n].base \/ u > package[r].version
      BY <1>1 DEF PackedOf
    <3> QED
      BY <1>2, <2>3, <2>6, <2>7, <3>1, <3>2
  <2>9. ASSUME callback[n].present, writer = r, UserCode(r), ~jumped[r]
        PROVE  /\ callback[n].initial /\ ntf'[n].hasRun
               /\ ntf'[n].version = latest /\ version[r] = latest
               /\ ~callback[n].late => callback'[n].accumulated \cup callback[n].toDeliver
                                         \subseteq 1 .. callback[n].base
    <3>1. /\ callback[n].initial /\ ntf[n].hasRun
          /\ ntf[n].version = latest /\ version[r] = latest
          /\ ~callback[n].late => callback[n].accumulated \cup callback[n].toDeliver
                                    \subseteq 1 .. callback[n].base
      BY <1>1, <2>9 DEF PackedOf
    <3>2. sgVersion = latest
      BY <1>2, <3>1 DEF HistoryOf
    <3>3. ntf'[n].hasRun /\ ntf'[n].version = latest
      BY <2>1, <3>1, <3>2 DEF SameHistory
    <3>4. ~callback[n].late => ntf[n].changes \subseteq 1 .. callback[n].base
      BY <1>2, <2>6, <2>7, <3>1
    <3> QED
      BY <2>3, <3>1, <3>3, <3>4
  <2> QED
    BY <1>1, <2>2, <2>4, <2>8, <2>9 DEF PackedOf
<1> QED
  BY <1>3, <1>4, <1>7, <1>8, <1>9, <1>10, <1>11, <1>12, <1>13, <1>14
     DEF Next, NotifierStep, WorkerStep

(* A package that is delivered takes its Realm to its version, and what     *)
(* still waits for a callback is newer. *)
LEMMA KeptByAdvance ==
    ASSUME BasicInv, BasicInv', PackageInv, NEW n \in Notifiers,
           PackedOf(n), RunOf(n), KeptOf(n), Advance(realmOf[n])
    PROVE  KeptOf(n)'
<1> USE DEF BasicInv
<1>1. PICK r \in Realms : r = realmOf[n] /\ r = realmOf'[n]
  BY RealmFrame DEF TypeOK, RealmStep
<1>2. PackageOf(r)
  BY DEF PackageInv
<1>3. /\ pc[r] = "packaged" /\ pc'[r] \in {"idle", "calling"}
      /\ UNCHANGED <<latest, writer, realmOf, ntf, jumped, inRead>>
      /\ \/ /\ package[r].caller = "notify"
            /\ package[r].version < version[r]
            /\ version'[r] = version[r] /\ callback'[n] = callback[n]
         \/ IsDelivered(n)
  BY <1>1, <1>2, AdvanceEffect
<1>4. ~Packed(n)'
  BY <1>1, <1>3 DEF Packed
<1>5. /\ latest \in Nat /\ ntf[n].version \in 0 .. latest
      /\ version[r] \in 1 .. latest /\ package[r].version \in 0 .. latest
      /\ callback[n].accumulated \subseteq 2 .. latest
      /\ callback[n].toDeliver \subseteq 2 .. latest
      /\ callback[n].base \in Nat
  BY DEF TypeOK, Version
<1> SUFFICES ASSUME Known(n)', ~jumped[r]
             PROVE  /\ Between(callback'[n].base, ntf[n].version) \subseteq Told(callback'[n])
                    /\ \A u \in callback'[n].accumulated \cup callback'[n].toDeliver :
                         u <= callback'[n].base \/ u >= version'[r]
                    /\ \/ version'[r] <= ntf[n].version + 1
                       \/ version'[r] <= callback'[n].base
                    /\ \A u \in callback'[n].toDeliver : u <= callback'[n].base
  BY <1>1, <1>3, <1>4 DEF KeptOf, Known, Mark
<1>6. callback'[n].initial /\ callback'[n].present /\ ~callback'[n].late
  BY <1>4 DEF Known
<1>7. ASSUME callback'[n] = callback[n]
      PROVE  /\ Known(n) /\ Mark(n) = callback[n].base
             /\ callback[n].initial /\ callback[n].present /\ ~callback[n].late
             /\ Between(callback[n].base, ntf[n].version) \subseteq Told(callback[n])
             /\ \A u \in callback[n].accumulated \cup callback[n].toDeliver :
                  u <= callback[n].base \/ u >= version[r]
             /\ \/ version[r] <= ntf[n].version + 1
                \/ version[r] <= callback[n].base
             /\ \A u \in callback[n].toDeliver : u <= callback[n].base \/ Packed(n)
  <2>1. Known(n) /\ Mark(n) = callback[n].base
    BY <1>6, <1>7 DEF Known, Mark
  <2> QED
    BY <1>1, <1>6, <1>7, <2>1 DEF KeptOf
<1>8. CASE /\ package[r].version < version[r]
           /\ version'[r] = version[r] /\ callback'[n] = callback[n]
  <2>1. Packed(n) => callback[n].toDeliver \subseteq 1 .. package[r].version
    BY <1>1 DEF PackedOf
  <2>2. \A u \in callback[n].toDeliver : u <= callback[n].base
    BY <1>5, <1>7, <1>8, <2>1
  <2> QED
    BY <1>7, <1>8, <2>2
<1>9. CASE IsDelivered(n) /\ callback'[n] = callback[n] /\ n \notin package[r].notifiers
  <2>1. package[r].caller = "available"
    BY <1>1, <1>3, <1>7, <1>9 DEF PackedOf
  <2>2. version'[r] = version[r] /\ ~Packed(n)
    BY <1>1, <1>9, <2>1 DEF IsDelivered, Packed
  <2> QED
    BY <1>7, <1>9, <2>2
<1>10. ASSUME IsDelivered(n), Packed(n)
       PROVE  \/ version'[r] = version[r] /\ package[r].caller = "available"
              \/ version'[r] = package[r].version /\ version'[r] \in 1 .. ntf[n].version
  <2>1. package[r].version \in 1 .. ntf[n].version
    BY <1>1, <1>2, <1>10 DEF Packed, PackageOf
  <2>2. package[r].caller = "write" => package[r].version \in {0, latest}
    BY <1>2, <1>3 DEF PackageOf
  <2> QED
    BY <1>1, <1>5, <1>10, <2>1, <2>2 DEF IsDelivered
<1>11. ASSUME IsDelivered(n), Packed(n), Known(n), callback[n].initial, ~callback[n].late
       PROVE  /\ \A u \in callback[n].accumulated :
                   u <= callback[n].base \/ u >= version'[r]
              /\ \/ version'[r] <= ntf[n].version + 1
                 \/ version'[r] <= callback[n].base
  <2>1. /\ \A u \in callback[n].accumulated :
             u <= callback[n].base \/ u > package[r].version
        /\ \A u \in callback[n].accumulated :
             u <= callback[n].base \/ u >= version[r]
        /\ version[r] <= ntf[n].version + 1 \/ version[r] <= callback[n].base
    BY <1>1, <1>11 DEF PackedOf, KeptOf
  <2>2. CASE version'[r] = version[r]
    BY <2>1, <2>2
  <2>3. CASE version'[r] = package[r].version /\ version'[r] \in 1 .. ntf[n].version
    BY <1>5, <2>1, <2>3
  <2> QED
    BY <1>10, <1>11, <2>2, <2>3
<1>12. CASE /\ IsDelivered(n) /\ callback'[n] = callback[n] /\ Packed(n)
            /\ callback[n].toDeliver = {}
  BY <1>7, <1>11, <1>12
<1>13. CASE IsDelivered(n) /\ Packed(n) /\ IsCalled(n, Newer(package[r].version, version'[r]))
  <2>1. /\ callback[n].present /\ ~callback[n].late
        /\ Told(callback'[n]) = Told(callback[n])
        /\ callback'[n].accumulated = callback[n].accumulated
        /\ callback'[n].toDeliver = {}
        /\ callback'[n].base = IF callback[n].initial THEN callback[n].base
                               ELSE Newer(package[r].version, version'[r])
    BY <1>6, <1>13 DEF IsCalled, SameCallback, Told
  <2>2. Known(n)
    BY <1>13, <2>1 DEF Known
  <2>3. CASE callback[n].initial
    <3>1. Between(callback[n].base, ntf[n].version) \subseteq Told(callback[n])
      BY <1>1, <2>2, <2>3 DEF KeptOf, Mark
    <3> QED
      BY <1>11, <1>13, <2>1, <2>2, <2>3, <3>1
  <2>4. CASE ~callback[n].initial
    <3>1. PICK b : b = Newer(package[r].version, version'[r])
      OBVIOUS
    <3>2. version'[r] \in Nat
      BY DEF TypeOK, Version
    <3>3. b \in Nat /\ b >= package[r].version /\ b >= version'[r]
      BY <1>5, <3>1, <3>2 DEF Newer
    <3>4. Between(package[r].version, ntf[n].version) \subseteq Told(callback[n])
      BY <1>1, <2>2, <2>4 DEF KeptOf, Mark
    <3>5. Between(b, ntf[n].version) \subseteq Told(callback[n])
      BY <1>5, <3>3, <3>4 DEF Between
    <3>6. \A u \in callback[n].accumulated : u <= b \/ u >= version'[r]
      BY <1>5, <3>2, <3>3
    <3> QED
      BY <2>1, <2>4, <3>1, <3>3, <3>5, <3>6
  <2> QED
    BY <2>3, <2>4
<1> QED
  BY <1>1, <1>3, <1>6, <1>8, <1>9, <1>12, <1>13 DEF IsDelivered, NoCallback

(* A Realm that moves on without its notifiers is known to have jumped,     *)
(* unless it commits. *)
LEMMA VersionByRealm ==
    ASSUME TypeOK, NEW r \in Realms, RealmStep(r), ~jumped'[r]
    PROVE  /\ ~jumped[r]
           /\ Advance(r) \/ version'[r] = version[r]
              \/ (Commit(r) /\ writer = r /\ UserCode(r) /\ version'[r] = latest + 1)
<1>1. CASE PackageAndWait(r) \/ Sleep(r) \/ Return(r) \/ Notify(r)
  BY <1>1 DEF PackageAndWait, Sleep, Return, Notify, histVars
<1>2. CASE Advance(r)
  BY <1>2 DEF Advance
<1>3. CASE BeginRead(r) \/ Refresh(r) \/ BeginTransaction(r)
  BY <1>3 DEF BeginRead, Refresh, BeginTransaction, ReadNewest, TypeOK
<1>4. CASE BeginInCallback(r)
  BY <1>4 DEF BeginInCallback, TypeOK
<1>5. CASE CancelTransaction(r) \/ Invalidate(r)
  BY <1>5 DEF CancelTransaction, Invalidate, realmVars, histVars
<1>6. CASE Commit(r)
  BY <1>6 DEF Commit, TypeOK
<1> QED
  BY <1>1, <1>2, <1>3, <1>4, <1>5, <1>6 DEF RealmStep

LEMMA KeptByRealm ==
    ASSUME BasicInv, BasicInv', Agree, PackageInv, NEW n \in Notifiers,
           PackedOf(n), RunOf(n), KeptOf(n), RealmStep(realmOf[n])
    PROVE  KeptOf(n)'
<1> USE DEF BasicInv
<1>1. PICK r \in Realms : r = realmOf[n] /\ r = realmOf'[n]
  BY RealmFrame DEF TypeOK
<1>2. PackageOf(r) /\ ntf' = ntf
  BY <1>1, RealmFrame DEF PackageInv
<1>3. CASE Advance(r)
  BY <1>1, <1>3, KeptByAdvance
<1>4. /\ latest \in Nat /\ ntf[n].version \in 0 .. latest
      /\ version[r] \in 1 .. latest /\ callback[n].base \in Nat
  BY DEF TypeOK, Version
<1>5. ASSUME ~Advance(r), ~jumped'[r]
      PROVE  /\ ~jumped[r]
             /\ \/ version'[r] = version[r]
                \/ /\ Commit(r) /\ writer = r /\ UserCode(r)
                   /\ version'[r] = latest + 1
  BY <1>1, <1>5, VersionByRealm
<1>6. ASSUME ~Advance(r), ~jumped'[r], Known(n), callback[n].initial
      PROVE  /\ Between(callback[n].base, ntf[n].version) \subseteq Told(callback[n])
             /\ \A u \in callback[n].accumulated \cup callback[n].toDeliver :
                  u <= callback[n].base \/ u >= version'[r]
             /\ \/ version'[r] <= ntf[n].version + 1
                \/ version'[r] <= callback[n].base
             /\ \A u \in callback[n].toDeliver : u <= callback[n].base \/ Packed(n)
  <2>1. /\ Between(callback[n].base, ntf[n].version) \subseteq Told(callback[n])
        /\ \A u \in callback[n].accumulated \cup callback[n].toDeliver :
             u <= callback[n].base \/ u >= version[r]
        /\ \/ version[r] <= ntf[n].version + 1
           \/ version[r] <= callback[n].base
        /\ \A u \in callback[n].toDeliver : u <= callback[n].base \/ Packed(n)
    BY <1>1, <1>5, <1>6 DEF KeptOf, Mark
  <2>2. CASE version'[r] = version[r]
    BY <2>1, <2>2
  <2>3. CASE writer = r /\ UserCode(r) /\ version'[r] = latest + 1
    <3>1. /\ ntf[n].version = latest
          /\ callback[n].accumulated \cup callback[n].toDeliver \subseteq 1 .. callback[n].base
      BY <1>1, <1>5, <1>6, <2>3 DEF PackedOf, Known
    <3> QED
      BY <1>4, <2>1, <2>3, <3>1
  <2> QED
    BY <1>5, <1>6, <2>2, <2>3
<1>7. CASE ~Advance(r) /\ NewlyPacked(n)
  <2> SUFFICES ASSUME Known(n)', ~jumped'[r]
               PROVE  /\ Between(Mark(n)', ntf[n].version) \subseteq Told(callback'[n])
                      /\ callback'[n].initial =>
                           /\ \A u \in callback'[n].accumulated \cup callback'[n].toDeliver :
                                u <= callback'[n].base \/ u >= version'[r]
                           /\ \/ version'[r] <= ntf[n].version + 1
                              \/ version'[r] <= callback'[n].base
                           /\ \A u \in callback'[n].toDeliver :
                                u <= callback'[n].base \/ Packed(n)'
    BY <1>1, <1>2 DEF KeptOf
  <2>1. ~Packed(n)
    BY <1>7 DEF NewlyPacked
  <2>2. CASE callback'[n] = callback[n]
    <3>1. CASE callback[n].initial
      <4>1. Known(n) /\ Mark(n)' = callback[n].base
        BY <2>2, <3>1 DEF Known, Mark
      <4> QED
        BY <1>6, <1>7, <2>1, <2>2, <3>1, <4>1
    <3>2. CASE ~callback[n].initial
      <4>1. Packed(n)'
        BY <2>2, <3>2 DEF Known
      <4>2. Mark(n)' = ntf[n].version
        BY <1>1, <1>7, <2>2, <3>2, <4>1 DEF NewlyPacked, Mark
      <4> QED
        BY <1>4, <2>2, <3>2, <4>2 DEF Between
    <3> QED
      BY <3>1, <3>2
  <2>3. CASE IsPackaged(n) /\ Packed(n)'
    <3>1. /\ callback[n].present /\ ~callback[n].late
          /\ callback'[n].initial = callback[n].initial
          /\ callback'[n].base = callback[n].base
          /\ callback'[n].toDeliver = callback[n].accumulated
          /\ callback'[n].accumulated = {}
          /\ Told(callback[n]) \subseteq Told(callback'[n]) \cup callback[n].toDeliver
      BY <2>3 DEF IsPackaged, SameCallback, Told, Known
    <3>2. CASE callback[n].initial
      <4>1. Known(n) /\ Mark(n)' = callback[n].base
        BY <3>1, <3>2 DEF Known, Mark
      <4>2. \A u \in callback[n].toDeliver : u <= callback[n].base
        BY <1>6, <1>7, <2>1, <3>2, <4>1
      <4>3. Between(callback[n].base, ntf[n].version) \cap callback[n].toDeliver = {}
        BY <1>4, <4>2 DEF Between
      <4>4. Between(callback[n].base, ntf[n].version) \subseteq Told(callback'[n])
        BY <1>6, <1>7, <3>1, <3>2, <4>1, <4>3
      <4> QED
        BY <1>6, <1>7, <2>3, <3>1, <3>2, <4>1, <4>4
    <3>3. CASE ~callback[n].initial
      <4>1. Mark(n)' = ntf[n].version
        BY <1>1, <1>7, <2>3, <3>1, <3>3 DEF NewlyPacked, Mark
      <4> QED
        BY <1>4, <3>1, <3>3, <4>1 DEF Between
    <3> QED
      BY <3>2, <3>3
  <2> QED
    BY <1>7, <2>2, <2>3 DEF NewlyPacked
<1>8. CASE /\ ~Advance(r) /\ ~Packed(n) /\ ~Packed(n)'
           /\ \/ callback'[n] = callback[n]
              \/ callback'[n] = [callback[n] EXCEPT !.suppressed = @ \cup {latest'}]
  <2>1. /\ callback'[n].present = callback[n].present
        /\ callback'[n].late = callback[n].late
        /\ callback'[n].initial = callback[n].initial
        /\ callback'[n].base = callback[n].base
        /\ callback'[n].toDeliver = callback[n].toDeliver
        /\ callback'[n].accumulated = callback[n].accumulated
        /\ Told(callback'[n]) = Told(callback[n])
    BY <1>8, SuppressedFields DEF Told
  <2>2. Known(n)' => /\ callback[n].initial /\ Known(n)
                     /\ Mark(n)' = callback[n].base
    BY <1>8, <2>1 DEF Known, Mark
  <2>3. ASSUME Known(n)', ~jumped'[r]
        PROVE  /\ Between(Mark(n)', ntf[n].version) \subseteq Told(callback'[n])
               /\ \A u \in callback'[n].accumulated \cup callback'[n].toDeliver :
                    u <= callback'[n].base \/ u >= version'[r]
               /\ \/ version'[r] <= ntf[n].version + 1
                  \/ version'[r] <= callback'[n].base
               /\ \A u \in callback'[n].toDeliver : u <= callback'[n].base \/ Packed(n)'
    BY <1>6, <1>8, <2>1, <2>2, <2>3
  <2> QED
    BY <1>1, <1>2, <2>3 DEF KeptOf
<1> QED
  BY <1>1, <1>2, <1>3, <1>7, <1>8, OtherEffect

LEMMA KeptStep ==
    ASSUME BasicInv, BasicInv', Agree, PackageInv, [Next]_vars,
           NEW n \in Notifiers, PackedOf(n), RunOf(n), KeptOf(n), SkipOf(n)
    PROVE  KeptOf(n)'
<1> USE DEF BasicInv
<1>1. PICK r \in Realms : r = realmOf[n]
  BY DEF TypeOK
<1>2. /\ CallbackOf(n) /\ HistoryOf(n) /\ PackageOf(r)
      /\ latest \in Nat /\ ntf[n].version \in 0 .. latest /\ sgVersion \in 0 .. latest
      /\ version[r] \in 1 .. latest /\ callback[n].base \in Nat
  BY DEF NotifierInv, PackageInv, TypeOK, Version
<1>3. CASE RealmStep(r)
  BY <1>1, <1>3, KeptByRealm
<1>4. ASSUME NEW s \in Realms, s # r, RealmStep(s)
      PROVE  KeptOf(n)'
  <2>1. /\ pc'[r] = pc[r] /\ package'[r] = package[r]
        /\ version'[r] = version[r] /\ jumped'[r] = jumped[r]
    BY <1>4, RealmLocal
  <2>2. callback'[n] = callback[n]
    BY <1>1, <1>4, Elsewhere DEF PackageInv
  <2>3. UNCHANGED <<ntf, realmOf>>
    BY <1>4, RealmFrame
  <2> QED
    BY <1>1, <2>1, <2>2, <2>3 DEF KeptOf, Packed, Known, Mark
<1>5. ASSUME \/ \E m \in Notifiers : NotifierStep(m)
             \/ WorkerStep
             \/ UNCHANGED vars
      PROVE  /\ UNCHANGED <<realmOf, version, jumped>>
             /\ Packed(n)' <=> Packed(n)
             /\ Known(n)' => Known(n) /\ Mark(n)' = Mark(n)
  BY <1>5, KnownByOthers
<1>6. ASSUME \/ \E m \in Notifiers : NotifierStep(m)
             \/ WorkerStep
             \/ UNCHANGED vars,
             Known(n)' =>
               /\ ntf'[n].version = ntf[n].version
               /\ callback'[n].initial <=> callback[n].initial
               /\ callback'[n].base = callback[n].base
               /\ callback'[n].toDeliver = callback[n].toDeliver
               /\ callback'[n].accumulated = callback[n].accumulated
               /\ Told(callback'[n]) = Told(callback[n])
      PROVE  KeptOf(n)'
  BY <1>1, <1>5, <1>6 DEF KeptOf
<1>7. CASE UNCHANGED vars
  BY <1>6, <1>7 DEF vars, ntfVars
<1>8. ASSUME NEW m \in Notifiers, RegisterNotifier(m) \/ Unregister(m)
      PROVE  KeptOf(n)'
  <2>1. callback' = callback
    BY <1>8 DEF RegisterNotifier, Unregister
  <2>2. callback[n].present => ntf'[n] = ntf[n]
    BY <1>2, <1>8, RegisteredFields DEF CallbackOf
  <2> QED
    BY <1>6, <1>8, <2>1, <2>2 DEF NotifierStep, Known
<1>9. ASSUME NEW m \in Notifiers, AddCallback(m) \/ RemoveCallback(m) \/ SuppressNext(m)
      PROVE  KeptOf(n)'
  <2>1. ntf' = ntf
    BY <1>9 DEF AddCallback, RemoveCallback, SuppressNext
  <2>2. CASE callback'[n] = callback[n]
    BY <1>6, <1>9, <2>1, <2>2 DEF NotifierStep
  <2>3. CASE m = n /\ SuppressNext(n)
    <3>1. Told(callback'[n]) = Told(callback[n])
      BY <2>3, SkippingFields DEF Told
    <3> QED
      BY <1>6, <1>9, <2>1, <2>3, <3>1, SkippingFields DEF NotifierStep
  <2>4. CASE m = n /\ AddCallback(n)
    <3>1. Told(callback'[n]) = Told(callback[n])
      BY <2>4, AddedFields DEF Told
    <3> QED
      BY <1>6, <1>9, <2>1, <2>4, <3>1, AddedFields DEF NotifierStep
  <2>5. CASE callback'[n] = NoCallback
    BY <1>6, <1>9, <2>5 DEF NotifierStep, Known, NoCallback
  <2>6. \/ callback'[n] = callback[n]
        \/ callback'[n] = NoCallback
        \/ m = n /\ SuppressNext(n)
        \/ m = n /\ AddCallback(n)
    <3>1. CASE AddCallback(m) \/ SuppressNext(m)
      BY <3>1 DEF AddCallback, SuppressNext, TypeOK
    <3>2. CASE RemoveCallback(m)
      BY <3>2 DEF RemoveCallback, Forget
    <3> QED
      BY <1>9, <3>1, <3>2
  <2> QED
    BY <2>2, <2>3, <2>4, <2>5, <2>6
<1>10. CASE OnChange
  <2>1. callback' = callback /\ SameHistory(n)
    BY <1>10, OnChangeEffect DEF OnChange
  <2> QED
    BY <1>6, <1>10, <2>1 DEF WorkerStep, SameHistory
<1>11. CASE RunToSkip \/ RunToNewest
  <2>1. callback' = callback
    BY <1>11 DEF RunToSkip, RunToNewest
  <2>2. ntf'[n].version = ntf[n].version
    BY <1>11, RunEffect
  <2> QED
    BY <1>6, <1>11, <2>1, <2>2 DEF WorkerStep
<1>12. CASE HandOverSkipped \/ HandOverNewest
  <2>1. PICK ns \in SUBSET Notifiers :
             /\ \/ wpc = "skipped" /\ ns = running
                \/ wpc = "advanced" /\ ns = running \cup starting
             /\ n \in ns => ntf'[n].version = sgVersion
             /\ n \notin ns => SameHistory(n)
             /\ callback'[n] = IF n \in ns /\ callback[n].present
                               THEN AddChanges(callback[n], ntf[n].changes)
                               ELSE callback[n]
    BY <1>12, HandOverEffect
  <2>2. CASE n \notin ns
    BY <1>6, <1>12, <2>1, <2>2 DEF WorkerStep, SameHistory
  <2>3. CASE n \in ns
    <3> SUFFICES ASSUME Known(n)', ~jumped'[r]
                 PROVE  /\ Between(Mark(n)', ntf'[n].version) \subseteq Told(callback'[n])
                        /\ callback'[n].initial =>
                             /\ \A u \in callback'[n].accumulated \cup callback'[n].toDeliver :
                                  u <= callback'[n].base \/ u >= version'[r]
                             /\ \/ version'[r] <= ntf'[n].version + 1
                                \/ version'[r] <= callback'[n].base
                             /\ \A u \in callback'[n].toDeliver :
                                  u <= callback'[n].base \/ Packed(n)'
      BY <1>1, <1>5, <1>12 DEF WorkerStep, KeptOf
    <3>1. /\ UNCHANGED <<realmOf, version, jumped>>
          /\ Packed(n)' <=> Packed(n)
          /\ Known(n) /\ Mark(n)' = Mark(n)
      BY <1>5, <1>12 DEF WorkerStep
    <3>2. ntf[n].hasRun /\ ntf[n].version <= sgVersion
      <4>1. ntf[n].hasRun
        BY <1>1, <1>2, <3>1 DEF Known, Packed, PackageOf, RunOf
      <4> QED
        BY <1>2, <4>1 DEF HistoryOf
    <3>3. /\ callback[n].present /\ ~callback[n].late /\ RanNow(n)
          /\ ntf'[n].version = sgVersion
      BY <2>1, <2>3, <3>1 DEF Known, RanNow
    <3>4. Between(ntf[n].version, sgVersion) \subseteq ntf[n].changes
      BY <3>2, <3>3 DEF RunOf
    <3>5. /\ Between(Mark(n), ntf[n].version) \subseteq Told(callback[n])
          /\ callback[n].initial =>
               /\ Mark(n) = callback[n].base
               /\ \A u \in callback[n].accumulated \cup callback[n].toDeliver :
                    u <= callback[n].base \/ u >= version[r]
               /\ version[r] <= ntf[n].version + 1 \/ version[r] <= callback[n].base
               /\ \A u \in callback[n].toDeliver : u <= callback[n].base \/ Packed(n)
      BY <1>1, <3>1 DEF KeptOf, Mark
    <3>6. /\ Told(callback'[n]) = Told(callback[n]) \cup ntf[n].changes
          /\ callback'[n].accumulated \subseteq callback[n].accumulated \cup ntf[n].changes
          /\ callback'[n].toDeliver = callback[n].toDeliver
          /\ callback'[n].base = callback[n].base
          /\ callback'[n].initial = callback[n].initial
      BY <2>1, <2>3, <3>3, AddChangesFields DEF Told
    <3>7. Mark(n) \in Nat
      <4>1. package[realmOf[n]].version \in Nat
        BY DEF TypeOK, Version
      <4> QED
        BY <1>2, <4>1 DEF Mark
    <3>8. Between(Mark(n), sgVersion) \subseteq
            Between(Mark(n), ntf[n].version) \cup Between(ntf[n].version, sgVersion)
      BY <1>2, <3>7 DEF Between
    <3>9. callback[n].initial =>
            \A x \in ntf[n].changes : x <= callback[n].base \/ x >= version[r]
      <4>1. ntf[n].changes \subseteq Nat
        BY <1>2 DEF HistoryOf, TypeOK
      <4>2. \A x \in ntf[n].changes : x <= Mark(n) \/ x > ntf[n].version
        BY <3>1 DEF RunOf
      <4> QED
        BY <1>2, <3>5, <4>1, <4>2
    <3>10. callback[n].initial =>
             version[r] <= sgVersion + 1 \/ version[r] <= callback[n].base
      BY <1>2, <3>2, <3>5
    <3> QED
      BY <3>1, <3>3, <3>4, <3>5, <3>6, <3>8, <3>9, <3>10
  <2> QED
    BY <2>2, <2>3
<1> QED
  BY <1>3, <1>4, <1>7, <1>8, <1>9, <1>10, <1>11, <1>12
     DEF Next, NotifierStep, WorkerStep

(* Tokens are forgotten by the commit they are for, or with the callback. *)
LEMMA AskedByRealm ==
    ASSUME TypeOK, NEW n \in Notifiers, NEW s \in Realms, RealmStep(s),
           n \in asked, n \notin asked'
    PROVE  Commit(s) \/ callback'[n] = NoCallback
<1>1. CASE PackageAndWait(s) \/ Sleep(s) \/ Return(s) \/ Notify(s) \/ BeginRead(s)
           \/ Refresh(s) \/ BeginTransaction(s) \/ BeginInCallback(s)
           \/ CancelTransaction(s) \/ Invalidate(s)
  BY <1>1 DEF PackageAndWait, Sleep, Return, Notify, BeginRead, Refresh,
              BeginTransaction, BeginInCallback, CancelTransaction, Invalidate, histVars
<1>2. CASE Advance(s)
  <2>1. ASSUME NEW v, Deliver(s, v)
        PROVE  callback'[n] = NoCallback
    BY <2>1 DEF Deliver, Forget
  <2>2. \/ asked' = asked
        \/ \E v : Deliver(s, v)
    BY <1>2, Zenon DEF Advance
  <2> QED
    BY <2>1, <2>2
<1> QED
  BY <1>1, <1>2 DEF RealmStep

(* The token of a flag is set inside the transaction it is for. *)
LEMMA AskedInside ==
    ASSUME BasicInv, PackageInv, NEW n \in Notifiers, SkipOf(n),
           NEW s \in Realms, RealmStep(s), n \in asked'
    PROVE  writer' = realmOf[n] /\ UserCode(realmOf[n])'
<1> USE DEF BasicInv
<1>1. PICK r \in Realms : r = realmOf[n] /\ r = realmOf'[n]
  BY RealmFrame DEF TypeOK
<1>2. n \in asked /\ r # NoRealm
  BY RealmEffect, NotifiersAssumption
<1>3. writer = r /\ UserCode(r)
  BY <1>1, <1>2 DEF SkipOf
<1>4. CASE s # r
  BY <1>1, <1>3, <1>4, RealmLocal, WriteExcludes DEF UserCode
<1>5. CASE s = r
  <2>1. CASE Return(r) \/ Notify(r) \/ BeginRead(r)
    BY <1>1, <1>3, <2>1 DEF Return, Notify, BeginRead, fileVars, UserCode, TypeOK
  <2>2. ~(PackageAndWait(r) \/ Sleep(r) \/ Advance(r))
    BY <1>3 DEF PackageAndWait, Sleep, Advance, UserCode
  <2>3. ~(Refresh(r) \/ BeginTransaction(r) \/ BeginInCallback(r))
    BY <1>2, <1>3 DEF Refresh, BeginTransaction, BeginInCallback
  <2>4. ~(Commit(r) \/ CancelTransaction(r) \/ Invalidate(r))
    BY <1>2 DEF Commit, CancelTransaction, Invalidate
  <2> QED
    BY <1>5, <2>1, <2>2, <2>3, <2>4 DEF RealmStep
<1> QED
  BY <1>4, <1>5

(* A commit that suppresses a callback leaves the worker the version to     *)
(* stop at. *)
LEMMA SkipByCommit ==
    ASSUME BasicInv, NEW n \in Notifiers, PackedOf(n), SkipOf(n),
           NEW s \in Realms, Commit(s), n \in asked, ~jumped[realmOf[n]]
    PROVE  /\ ntf[n].version = latest /\ skipVersion' = latest + 1
           /\ latest + 1 \in callback'[n].suppressed
<1> USE DEF BasicInv
<1>1. /\ callback[n].present /\ ntf[n].alive /\ ntf[n].place \in {"new", "main"}
      /\ HistoryOf(n)
  BY DEF NotifierInv, CallbackOf
<1>2. s = realmOf[n] /\ writer = s /\ UserCode(s)
  BY DEF SkipOf, Commit
<1>3. ntf[n].hasRun /\ ntf[n].version = latest
  BY <1>1, <1>2 DEF PackedOf
<1>4. n \in Alive(In("main"))
  BY <1>1, <1>3 DEF HistoryOf, Alive, In
<1>5. skipVersion' = latest + 1
  BY <1>2, <1>4 DEF Commit, SkipVersion
<1>6. callback'[n] = [callback[n] EXCEPT !.suppressed = @ \cup {latest + 1}]
  BY DEF Commit
<1>7. PICK v : v = latest + 1
  OBVIOUS
<1>8. v \in callback'[n].suppressed
  BY <1>6, <1>7, SuppressedFields
<1> QED
  BY <1>3, <1>5, <1>7, <1>8

LEMMA SkipByRealm ==
    ASSUME BasicInv, Agree, PackageInv, NEW n \in Notifiers, PackedOf(n), SkipOf(n),
           NEW s \in Realms, RealmStep(s)
    PROVE  SkipOf(n)'
<1> USE DEF BasicInv
<1>1. PICK r \in Realms : r = realmOf[n] /\ r = realmOf'[n]
  BY RealmFrame DEF TypeOK
<1>2. /\ UNCHANGED <<ntf, wpc, skipTo>>
      /\ \/ Commit(s)
         \/ UNCHANGED <<skipVersion, overwritten>>
  BY RealmFrame DEF workerVars
<1>3. n \in asked' => writer' = r /\ UserCode(r)'
  BY <1>1, AskedInside
<1>4. ~jumped'[r] => ~jumped[r]
  BY RealmLocal, VersionByRealm
<1>5. ~overwritten' => ~overwritten
  BY <1>2 DEF Commit, SkipVersion
<1>6. \/ callback'[n] = NoCallback
      \/ /\ callback'[n].late = callback[n].late
         /\ callback'[n].skipNext = callback[n].skipNext
         /\ callback'[n].dropped = callback[n].dropped
         /\ callback[n].suppressed \subseteq callback'[n].suppressed
         /\ \/ /\ callback'[n].initial = callback[n].initial
               /\ callback'[n].base = callback[n].base
            \/ /\ callback'[n].initial
               /\ callback[n].initial => callback'[n].base = callback[n].base
  <2>1. CASE callback'[n] = [callback[n] EXCEPT !.suppressed = @ \cup {latest'}]
    BY <2>1, SuppressedFields
  <2>2. CASE IsPackaged(n)
    BY <2>2 DEF IsPackaged, SameCallback
  <2>3. CASE \E b : IsCalled(n, b)
    BY <2>3 DEF IsCalled, SameCallback
  <2> QED
    BY <2>1, <2>2, <2>3, RealmEffect
<1>7. CASE callback'[n] = NoCallback
  BY <1>1, <1>3, <1>7 DEF SkipOf, NoCallback
<1>8. CASE /\ callback'[n] # NoCallback
           /\ callback'[n].late = callback[n].late
           /\ callback'[n].skipNext = callback[n].skipNext
           /\ callback'[n].dropped = callback[n].dropped
           /\ callback[n].suppressed \subseteq callback'[n].suppressed
           /\ \/ /\ callback'[n].initial = callback[n].initial
                 /\ callback'[n].base = callback[n].base
              \/ /\ callback'[n].initial
                 /\ callback[n].initial => callback'[n].base = callback[n].base
  <2>1. ~jumped'[r] /\ ~callback'[n].initial =>
          ~callback'[n].skipNext /\ callback'[n].dropped = {}
    BY <1>1, <1>4, <1>8 DEF SkipOf
  <2>2. callback'[n].initial /\ ~callback'[n].late /\ ~overwritten' /\ ~jumped'[r] =>
          \A v \in callback'[n].dropped \ callback'[n].suppressed : v <= callback'[n].base
    BY <1>1, <1>4, <1>5, <1>8 DEF SkipOf
  <2>3. ASSUME ~overwritten', ~jumped'[r], callback'[n].skipNext, n \notin asked'
        PROVE  \E t \in callback'[n].suppressed :
                 /\ ntf[n].version = t - 1
                 /\ \/ skipVersion' = t
                    \/ wpc \in {"skipping", "skipped"} /\ skipTo = t
    <3>1. CASE n \in asked
      <4>1. Commit(s)
        BY <1>8, <2>3, <3>1, AskedByRealm
      <4>2. /\ ntf[n].version = latest /\ skipVersion' = latest + 1
            /\ latest + 1 \in callback'[n].suppressed
        BY <1>1, <1>4, <2>3, <3>1, <4>1, SkipByCommit
      <4>3. latest = (latest + 1) - 1
        BY DEF TypeOK, Version
      <4> QED
        BY <4>2, <4>3
    <3>2. CASE n \notin asked
      <4>1. PICK t \in callback[n].suppressed :
              /\ ntf[n].version = t - 1
              /\ \/ skipVersion = t
                 \/ wpc \in {"skipping", "skipped"} /\ skipTo = t
        BY <1>1, <1>4, <1>5, <1>8, <2>3, <3>2 DEF SkipOf
      <4>2. t # 0
        BY <4>1 DEF TypeOK
      <4>3. skipVersion = t => skipVersion' = skipVersion
        BY <1>2, <2>3, <4>2 DEF Commit, SkipVersion
      <4> QED
        BY <1>8, <4>1, <4>3
    <3> QED
      BY <3>1, <3>2
  <2> QED
    BY <1>1, <1>2, <1>3, <2>1, <2>2, <2>3 DEF SkipOf
<1> QED
  BY <1>6, <1>7, <1>8

(* A notifier with a skip flag is run by the worker, which stops where the  *)
(* flag is for. *)
LEMMA SkipByOnChange ==
    ASSUME BasicInv, NEW n \in Notifiers, RunOf(n), SkipOf(n), OnChange
    PROVE  SkipOf(n)'
<1> USE DEF BasicInv
<1>1. PICK r \in Realms : r = realmOf[n]
  BY DEF TypeOK
<1>2. /\ UNCHANGED <<realmOf, callback, asked, jumped, overwritten, writer, pc>>
      /\ SameHistory(n) /\ wpc = "idle"
  BY OnChangeEffect DEF OnChange, fileVars, histVars
<1>3. UserCode(r)' <=> UserCode(r)
  BY <1>2 DEF UserCode
<1>4. ASSUME ~overwritten, ~jumped[r], callback[n].skipNext, n \notin asked
      PROVE  \E t \in callback[n].suppressed :
               /\ ntf[n].version = t - 1
               /\ \/ skipVersion' = t
                  \/ wpc' \in {"skipping", "skipped"} /\ skipTo' = t
  <2>1. PICK t \in callback[n].suppressed : ntf[n].version = t - 1 /\ skipVersion = t
    BY <1>1, <1>2, <1>4 DEF SkipOf
  <2>2. t # 0
    BY <2>1 DEF TypeOK
  <2>3. /\ callback[n].initial /\ ntf[n].hasRun
        /\ ntf[n].alive /\ ntf[n].place = "main"
    BY <1>1, <1>4 DEF SkipOf, RunOf, NotifierInv, CallbackOf, HistoryOf, NoCallback
  <2>4. n \in Alive(In("main")) /\ n \in Alive(In("main") \cup In("new"))
    BY <2>3 DEF Alive, In
  <2>5. CASE WorkerIdles
    BY <2>4, <2>5 DEF WorkerIdles
  <2>6. CASE WorkerFails
    BY <2>1, <2>6 DEF WorkerFails
  <2>7. CASE WorkerBegins
    <3>1. skipTo' = skipVersion /\ wpc' = "skipping"
      BY <2>1, <2>2, <2>4, <2>7 DEF WorkerBegins, TakeSkipVersion
    <3> QED
      BY <2>1, <3>1
  <2> QED
    BY <2>5, <2>6, <2>7 DEF OnChange
<1> QED
  BY <1>1, <1>2, <1>3, <1>4 DEF SkipOf, SameHistory

(* A flag drops the changes of the commits it was set for, which are the    *)
(* next the worker hands over. *)
LEMMA SkipByHandOver ==
    ASSUME BasicInv, NEW n \in Notifiers, PackedOf(n), RunOf(n), SkipOf(n),
           HandOverSkipped \/ HandOverNewest
    PROVE  SkipOf(n)'
<1> USE DEF BasicInv
<1>1. PICK r \in Realms : r = realmOf[n]
  BY DEF TypeOK
<1>2. /\ UNCHANGED <<realmOf, jumped, writer, asked, overwritten>>
      /\ UserCode(r)' <=> UserCode(r)
  <2>1. /\ UNCHANGED <<realmOf, jumped, writer>>
        /\ \/ pc'[r] = pc[r]
           \/ pc[r] = "asleep" /\ pc'[r] = "rechecking"
    BY KnownByOthers DEF WorkerStep
  <2>2. UNCHANGED <<asked, overwritten>>
    BY DEF HandOverSkipped, HandOverNewest, histVars
  <2> QED
    BY <2>1, <2>2 DEF UserCode
<1>3. PICK ns \in SUBSET Notifiers :
        /\ \/ wpc = "skipped" /\ ns = running
           \/ wpc = "advanced" /\ ns = running \cup starting
        /\ callback'[n] = IF n \in ns /\ callback[n].present
                          THEN AddChanges(callback[n], ntf[n].changes)
                          ELSE callback[n]
  BY HandOverEffect
<1>4. /\ latest \in Nat /\ ntf[n].version \in 0 .. latest /\ sgVersion \in 0 .. latest
      /\ runTo \in Nat /\ callback[n].base \in Nat
      /\ ntf[n].changes \subseteq 2 .. latest
      /\ HistoryOf(n) /\ CallbackOf(n)
  BY DEF NotifierInv, TypeOK, Version
<1>5. /\ callback'[n].initial = callback[n].initial
      /\ callback'[n].late = callback[n].late
      /\ callback'[n].base = callback[n].base
      /\ callback'[n].suppressed = callback[n].suppressed
  BY HandedOver
<1>6. CASE ~jumped[r] /\ callback[n].skipNext
  <2>1. /\ callback[n].initial /\ ntf[n].hasRun /\ callback[n].present
        /\ ntf[n].alive /\ ntf[n].place = "main"
    BY <1>1, <1>6 DEF SkipOf, RunOf, NotifierInv, CallbackOf, HistoryOf, NoCallback
  <2>2. n \in running /\ n \in ns
    BY <1>3, <1>4, <2>1 DEF WorkerInv, Alive, In, HistoryOf
  <2>3. /\ ~callback'[n].skipNext
        /\ callback'[n].dropped = callback[n].dropped \cup ntf[n].changes
    BY <1>3, <1>6, <2>1, <2>2, AddChangesFields
  <2>4. ASSUME ~callback[n].late, ~overwritten
        PROVE  \A x \in ntf[n].changes \ callback[n].suppressed : x <= callback[n].base
    <3>1. \A x \in ntf[n].changes : x <= callback[n].base \/ x > ntf[n].version
      BY <2>1, <2>4 DEF RunOf, Known, Mark
    <3>2. CASE n \in asked
      <4>1. ntf[n].version = latest
        BY <1>1, <1>6, <2>1, <3>2 DEF SkipOf, PackedOf
      <4> QED
        BY <1>4, <3>1, <4>1
    <3>3. CASE n \notin asked
      <4>1. PICK t \in callback[n].suppressed :
              /\ ntf[n].version = t - 1
              /\ \/ skipVersion = t
                 \/ wpc = "skipped" /\ skipTo = t
        BY <1>1, <1>3, <1>6, <2>4, <3>3 DEF SkipOf
      <4>2. t \in 2 .. latest
        BY <4>1 DEF TypeOK
      <4>3. sgVersion <= t
        BY <4>1, <4>2, <1>3, <1>4 DEF WorkerInv
      <4>4. \A x \in ntf[n].changes : x <= sgVersion
        BY <1>4 DEF HistoryOf, TypeOK
      <4>5. \A x \in ntf[n].changes : x <= callback[n].base \/ x = t
        BY <1>4, <3>1, <4>1, <4>2, <4>3, <4>4
      <4> QED
        BY <4>1, <4>5
    <3> QED
      BY <3>2, <3>3
  <2> QED
    BY <1>1, <1>2, <1>5, <2>1, <2>3, <2>4 DEF SkipOf
<1>7. CASE ~jumped[r] /\ ~callback[n].skipNext
  <2>1. ~callback'[n].skipNext /\ callback'[n].dropped = callback[n].dropped
    BY <1>3, <1>7, AddChangesFields
  <2> QED
    BY <1>1, <1>2, <1>5, <1>7, <2>1 DEF SkipOf
<1>8. CASE jumped[r]
  BY <1>1, <1>2, <1>8 DEF SkipOf
<1> QED
  BY <1>6, <1>7, <1>8

LEMMA SkipStep ==
    ASSUME BasicInv, Agree, PackageInv, [Next]_vars,
           NEW n \in Notifiers, PackedOf(n), RunOf(n), SkipOf(n)
    PROVE  SkipOf(n)'
<1> USE DEF BasicInv
<1>1. PICK r \in Realms : r = realmOf[n]
  BY DEF TypeOK
<1>2. CallbackOf(n)
  BY DEF NotifierInv
<1>3. ASSUME NEW s \in Realms, RealmStep(s)
      PROVE  SkipOf(n)'
  BY <1>3, SkipByRealm
<1>4. ASSUME \/ \E m \in Notifiers : NotifierStep(m)
             \/ WorkerStep
             \/ UNCHANGED vars
      PROVE  /\ UNCHANGED <<realmOf, jumped, writer>>
             /\ UserCode(r)' <=> UserCode(r)
  <2>1. /\ UNCHANGED <<realmOf, jumped, writer>>
        /\ \/ pc'[r] = pc[r]
           \/ pc[r] = "asleep" /\ pc'[r] = "rechecking"
    BY <1>4, KnownByOthers
  <2> QED
    BY <2>1 DEF UserCode
<1>5. CASE UNCHANGED vars
  BY <1>1, <1>4, <1>5 DEF SkipOf, vars, ntfVars, coordVars, workerVars, histVars
<1>6. ASSUME NEW m \in Notifiers, RegisterNotifier(m) \/ Unregister(m)
      PROVE  SkipOf(n)'
  <2>1. UNCHANGED <<callback, asked, overwritten, skipVersion, wpc, skipTo>>
    BY <1>6 DEF RegisterNotifier, Unregister, histVars, coordVars, workerVars
  <2>2. callback[n].present => ntf'[n] = ntf[n]
    BY <1>2, <1>6, RegisteredFields DEF CallbackOf
  <2>3. callback[n].skipNext => callback[n].present
    BY <1>2 DEF CallbackOf, NoCallback
  <2>4. /\ UNCHANGED <<realmOf, jumped, writer>>
        /\ UserCode(r)' <=> UserCode(r)
    BY <1>4, <1>6 DEF NotifierStep
  <2> QED
    BY <1>1, <2>1, <2>2, <2>3, <2>4 DEF SkipOf
<1>7. ASSUME NEW m \in Notifiers, AddCallback(m) \/ RemoveCallback(m) \/ SuppressNext(m)
      PROVE  SkipOf(n)'
  <2>1. UNCHANGED <<ntf, overwritten, skipVersion, wpc, skipTo>>
    BY <1>7 DEF AddCallback, RemoveCallback, SuppressNext, coordVars, workerVars, histVars
  <2>2. /\ UNCHANGED <<realmOf, jumped, writer>>
        /\ UserCode(r)' <=> UserCode(r)
    BY <1>4, <1>7 DEF NotifierStep
  <2>3. CASE /\ callback'[n] = callback[n]
             /\ n \in asked' <=> n \in asked
    BY <1>1, <2>1, <2>2, <2>3 DEF SkipOf
  <2>4. CASE callback'[n] = NoCallback /\ asked' \subseteq asked
    BY <1>1, <2>1, <2>2, <2>4 DEF SkipOf, NoCallback
  <2>5. CASE m = n /\ AddCallback(n)
    <3>1. callback[n] = NoCallback /\ asked' = asked
      BY <1>2, <2>5 DEF AddCallback, CallbackOf, histVars
    <3> QED
      BY <1>1, <2>1, <2>2, <2>5, <3>1, AddedFields DEF SkipOf, NoCallback
  <2>6. CASE m = n /\ SuppressNext(n)
    <3>1. writer = r /\ UserCode(r) /\ callback[n].present /\ n \in asked'
      BY <1>1, <2>6 DEF SuppressNext
    <3>2. ~jumped[r] => callback[n].initial
      BY <1>1, <3>1 DEF PackedOf
    <3> QED
      BY <1>1, <2>1, <2>2, <2>6, <3>1, <3>2, SkippingFields DEF SkipOf
  <2>7. \/ callback'[n] = callback[n] /\ (n \in asked' <=> n \in asked)
        \/ callback'[n] = NoCallback /\ asked' \subseteq asked
        \/ m = n /\ AddCallback(n)
        \/ m = n /\ SuppressNext(n)
    <3>1. CASE AddCallback(m) \/ SuppressNext(m)
      BY <3>1 DEF AddCallback, SuppressNext, TypeOK, histVars
    <3>2. CASE RemoveCallback(m)
      BY <3>2 DEF RemoveCallback, Forget
    <3> QED
      BY <1>7, <3>1, <3>2
  <2> QED
    BY <2>3, <2>4, <2>5, <2>6, <2>7
<1>8. CASE OnChange
  BY <1>8, SkipByOnChange
<1>9. CASE RunToSkip \/ RunToNewest
  <2>1. UNCHANGED <<callback, asked, overwritten, skipVersion, skipTo>>
    BY <1>9 DEF RunToSkip, RunToNewest, histVars
  <2>2. /\ ntf'[n].version = ntf[n].version
        /\ \/ wpc = "skipping" /\ wpc' = "skipped"
           \/ wpc = "advancing" /\ wpc' = "advanced"
    BY <1>9, RunEffect
  <2>3. /\ UNCHANGED <<realmOf, jumped, writer>>
        /\ UserCode(r)' <=> UserCode(r)
    BY <1>4, <1>9 DEF WorkerStep
  <2> QED
    BY <1>1, <2>1, <2>2, <2>3 DEF SkipOf
<1>10. CASE HandOverSkipped \/ HandOverNewest
  BY <1>10, SkipByHandOver
<1> QED
  BY <1>3, <1>5, <1>6, <1>7, <1>8, <1>9, <1>10
     DEF Next, NotifierStep, WorkerStep

LEMMA DeliveryStep ==
    ASSUME BasicInv, BasicInv', Agree, PackageInv, ToldInv, DeliveryInv, [Next]_vars
    PROVE  DeliveryInv'
<1>1. \A n \in Notifiers : PackedOf(n)' /\ RunOf(n)' /\ KeptOf(n)' /\ SkipOf(n)'
  BY PackedStep, RunStep, KeptStep, SkipStep DEF DeliveryInv
<1> QED
  BY <1>1 DEF DeliveryInv

LEMMA DeliveryInit == Init => DeliveryInv
<1> SUFFICES ASSUME Init, NEW n \in Notifiers
             PROVE  PackedOf(n) /\ RunOf(n) /\ KeptOf(n) /\ SkipOf(n)
  BY DEF DeliveryInv
<1>1. /\ callback[n] = NoCallback /\ ntf[n] = NewNotifier
      /\ pc[realmOf[n]] = "idle" /\ asked = {} /\ wpc = "idle"
      /\ writer = NoRealm /\ realmOf[n] \in Realms
  BY DEF Init
<1>2. ~Known(n) /\ ~Packed(n) /\ ~RanNow(n) /\ Told(callback[n]) = {}
  BY <1>1 DEF Known, Packed, RanNow, Told, NoCallback
<1> QED
  BY <1>1, <1>2 DEF PackedOf, RunOf, KeptOf, SkipOf, Waiting, Inside, UserCode,
                    NoCallback, NewNotifier

LEMMA DeliveryHolds == Spec => []DeliveryInv
<1>1. Init => Agree /\ PackageInv /\ ToldInv
  BY DEF Init, Agree, RunNotifiersAgree, Alive, In, NewNotifier, PackageInv,
         PayloadFits, PackageOf, Inside, Waiting, ToldInv, ToldOf, Apart, Told,
         NoCallback
<1> QED
  BY <1>1, BasicInit, BasicStep, AgreeStep, PackageStep, ToldStep, DeliveryInit,
     DeliveryStep, PTL DEF Spec

(* However commits, packages and callbacks interleave, and whatever the     *)
(* worker does in between, every version from the first call of a callback  *)
(* to its notifier's was told to it, waits for it, or was dropped for it,   *)
(* unless its Realm moved on without its notifiers. *)
THEOREM Lossless == Spec => []NothingLost
<1>1. BasicInv /\ DeliveryInv => NothingLost
  <2> SUFFICES ASSUME BasicInv, DeliveryInv, NEW n \in Notifiers,
                      callback[n].initial, ~callback[n].late, ~jumped[realmOf[n]]
               PROVE  Between(callback[n].base, ntf[n].version)
                        \subseteq Told(callback[n])
    BY DEF NothingLost, Told
  <2>1. callback[n].present
    BY DEF BasicInv, NotifierInv, CallbackOf, NoCallback
  <2>2. KeptOf(n) /\ Known(n) /\ Mark(n) = callback[n].base
    BY <2>1 DEF DeliveryInv, Known, Mark
  <2> QED
    BY <2>2 DEF KeptOf
<1>2. Spec => []BasicInv
  BY BasicInit, BasicStep, PTL DEF Spec
<1> QED
  BY <1>1, <1>2, DeliveryHolds, PTL

(* A commit made without notifying a callback hides its own changes from    *)
(* it, and no others, as long as no other commit takes the place of the     *)
(* version the worker is to stop at. *)
THEOREM Suppression == Spec => []DropsItsOwn
<1>1. DeliveryInv => DropsItsOwn
  BY DEF DeliveryInv, SkipOf, DropsItsOwn
<1> QED
  BY <1>1, DeliveryHolds, PTL
=============================================================================
