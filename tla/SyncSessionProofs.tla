------------------------- MODULE SyncSessionProofs -------------------------
(***************************************************************************)
(* Proofs about SyncSession, for any number of sessions, threads, waiters, *)
(* calls and errors.  The first part says what each action does, field by  *)
(* field: one lemma for an action.  The second has the parts of the        *)
(* inductive invariant, that every step keeps each of them, and the        *)
(* properties that follow from them.                                       *)
(***************************************************************************)
EXTENDS SyncSession, FiniteSetTheorems, TLAPS

-----------------------------------------------------------------------------
(* The inductive invariant: types, and where each process is *)

Pcs == {"idle", "registering", "reviving", "referencing", "dropping",
        "unregistering", "peeking", "leaving", "logging_out", "logged_out",
        "asking", "reconnecting", "suspending", "reconfiguring", "notifying",
        "listening", "erring",
        "responding", "invalidating"}

(* Where a call can go on once its session is unregistered *)
Thens == {"idle", "reconfiguring", "logged_out", "leaving"}

Exits == {"unregistering", "peeking", "leaving"}

States == {"inactive", "waiting", "active", "dying"}

SessionT ==
    [state : States, linked : BOOLEAN, connected : BOOLEAN,
     deferredClose : BOOLEAN, deferredCommit : Nat, deaths : Nat,
     queue : SUBSET Waiters, announced : Nat]

CallT ==
    [pc : Pcs, session : Sessions \cup {None}, then : Thens, leaving : BOOLEAN,
     peek : Sessions \cup {None}, aborting : SUBSET Waiters,
     event : {"none", "connected", "disconnected"} \cup Errors]

OpT ==
    [session : Sessions, waiter : Waiters \cup {None}, death : Nat,
     version : Nat, aborted : BOOLEAN]

RequestT == [session : Sessions, strong : BOOLEAN]

(* The shape of every variable *)
Shape ==
    /\ policy \in StopPolicies /\ created \subseteq Sessions
    /\ sess \in [Sessions -> SessionT]
    /\ registered \in Sessions \cup {None}
    /\ userSession \in Sessions \cup {None} /\ waiting \in Sessions \cup {None}
    /\ sessionLock \in Procs \cup {None} /\ userLock \in Procs \cup {None}
    /\ userState \in {"Active", "LoggedOut", "Error"}
    /\ refs \in [Procs -> Sessions \cup {None}]
    /\ call \in [Procs -> CallT]
    /\ requests \subseteq RequestT /\ ops \subseteq OpT
    /\ committed \in Nat /\ uploaded \in Nat
    /\ called \in [Waiters -> Nat] /\ asked \subseteq Waiters
    /\ crashed \in BOOLEAN /\ calls \in Nat /\ errors \in Nat
    /\ closedAt \in [Sessions -> Nat] /\ unheard \in BOOLEAN
    /\ overtaken \in BOOLEAN

(* Only sessions that were made are known to anybody. *)
Known ==
    /\ {registered, userSession, waiting} \subseteq created \cup {None}
    /\ \A p \in Procs : {refs[p], call[p].session, call[p].peek} \subseteq created \cup {None}
    /\ \A r \in requests : r.session \in created
    /\ \A o \in ops : o.session \in created
    /\ \A s \in Sessions \ created : sess[s].state = "inactive"

(* Where a process is tells what it holds, and the other way round. *)
PlaceOf(p) ==
    LET c == call[p]
    IN  /\ c.pc # "idle" => c.session # None
        /\ sessionLock = p =>
             c.pc \in {"registering", "reviving", "asking", "referencing",
                       "reconnecting", "peeking", "unregistering"}
        /\ c.pc \in {"registering", "referencing", "reconnecting", "peeking"} =>
             sessionLock = p
        /\ sessionLock = p /\ c.pc \in {"registering", "reviving", "asking", "referencing"} =>
             c.session = registered
        /\ userLock = p =>
             \/ Waits(p) \/ c.pc \in {"logging_out", "logged_out"}
             \/ c.pc \in Exits /\ c.then = "logged_out"
        /\ c.peek # None => c.pc = "peeking" /\ c.peek = registered
        /\ c.pc = "peeking" => c.peek # None
        /\ c.leaving => c.pc \in Exits
        /\ c.aborting # {} => c.leaving
        /\ c.pc = "notifying" => refs[p] = c.session
        /\ refs[p] # None => refs[p] = registered

Places == \A p \in Procs : PlaceOf(p)


-----------------------------------------------------------------------------
(* What a step does to the calls, field by field *)

OnlyCall(p) == \A q \in Procs : q # p => call'[q] = call[q]

Moved(p, pc, s, then, leaving, peek, aborting) ==
    /\ call' \in [Procs -> CallT] /\ OnlyCall(p)
    /\ call'[p].pc = pc /\ call'[p].session = s /\ call'[p].then = then
    /\ call'[p].leaving = leaving /\ call'[p].peek = peek
    /\ call'[p].aborting = aborting

(* Process p is at pc with session s, and nothing else is known of its call. *)
Fresh(p, pc, s) == Moved(p, pc, s, "idle", FALSE, None, {})

(* Process p has unregistered its session, and goes on. *)
Departs(p) ==
    /\ call' \in [Procs -> CallT] /\ OnlyCall(p) /\ call'[p].peek = None
    /\ IF call[p].leaving
       THEN /\ call'[p].pc = "leaving" /\ call'[p].session = call[p].session
            /\ call'[p].then = call[p].then /\ call'[p].leaving
            /\ call'[p].aborting = call[p].aborting
       ELSE /\ call'[p].pc = call[p].then
            /\ call'[p].pc # "idle" => call'[p].session = call[p].session
            /\ call'[p].session \in {None, call[p].session}
            /\ call'[p].then = "idle" /\ ~call'[p].leaving
            /\ call'[p].aborting = {}

(* What a step does to the sessions and their wait operations *)

OnlySession(s) ==
    /\ sess' \in [Sessions -> SessionT]
    /\ \A r \in Sessions : r # s => sess'[r] = sess[r]

(* The state and the data of every session are left. *)
Alike ==
    /\ sess' \in [Sessions -> SessionT]
    /\ \A r \in Sessions :
         /\ sess'[r].state = sess[r].state /\ sess'[r].linked = sess[r].linked
         /\ sess'[r].deferredCommit = sess[r].deferredCommit
         /\ sess'[r].deaths = sess[r].deaths /\ sess'[r].queue = sess[r].queue
         /\ sess'[r].announced = sess[r].announced
    /\ ops' = ops /\ closedAt' = closedAt

SameData(s) ==
    /\ sess'[s].deferredCommit = sess[s].deferredCommit
    /\ sess'[s].announced = sess[s].announced
    /\ sess'[s].connected = sess[s].connected

MadeInactive(s, os) ==
    /\ OnlySession(s) /\ SameData(s)
    /\ sess'[s].state = "inactive" /\ sess'[s].linked = FALSE
    /\ sess'[s].queue = {} /\ sess'[s].deaths = sess[s].deaths
    /\ ops' = Aborted(s, os) /\ closedAt' = closedAt

Dies(s) ==
    /\ OnlySession(s) /\ SameData(s)
    /\ sess[s].state = "active" /\ sess'[s].state = "dying"
    /\ sess'[s].linked = sess[s].linked /\ sess'[s].queue = sess[s].queue
    /\ sess'[s].deaths = sess[s].deaths + 1
    /\ ops' = ops \cup {WaitOp(s, None, sess[s].deaths + 1, sess[s].announced)}
    /\ closedAt' \in [Sessions -> Nat] /\ closedAt'[s] = committed
    /\ \A r \in Sessions : r # s => closedAt'[r] = closedAt[r]

LEMMA IdleType == Idle \in CallT /\ NewSession \in SessionT
  BY SyncAssumption DEF Idle, CallT, Pcs, Thens, NewSession, SessionT, States

LEMMA SetCall ==
    ASSUME Shape, NEW p \in Procs, NEW c \in CallT, call' = [call EXCEPT ![p] = c]
    PROVE  Moved(p, c.pc, c.session, c.then, c.leaving, c.peek, c.aborting)
  BY DEF Shape, Moved, OnlyCall

(* To *)
LEMMA ToEffect ==
    ASSUME Shape, NEW p \in Procs, NEW pc \in Pcs, To(p, pc)
    PROVE  Fresh(p, pc, IF pc = "idle" THEN None ELSE call[p].session)
<1>1. PICK c \in CallT : c = IF pc = "idle" THEN Idle
                             ELSE [Idle EXCEPT !.pc = pc, !.session = call[p].session]
  BY IdleType DEF Idle, CallT, Shape
<1>2. call' = [call EXCEPT ![p] = c]
  BY <1>1, Zenon DEF To
<1>3. /\ c.pc = pc /\ c.session = IF pc = "idle" THEN None ELSE call[p].session
      /\ c.then = "idle" /\ c.leaving = FALSE /\ c.peek = None /\ c.aborting = {}
  BY <1>1 DEF Idle
<1> QED
  BY <1>2, <1>3, SetCall DEF Fresh

LEMMA LeftType ==
    ASSUME NEW c \in CallT
    PROVE  /\ Left(c) \in CallT /\ Left(c).peek = None /\ Left(c).pc \in Thens
           /\ IF c.leaving
              THEN /\ Left(c).pc = "leaving" /\ Left(c).session = c.session
                   /\ Left(c).then = c.then /\ Left(c).leaving
                   /\ Left(c).aborting = c.aborting
              ELSE /\ Left(c).pc = c.then
                   /\ c.then # "idle" => Left(c).session = c.session
                   /\ Left(c).session \in {None, c.session}
                   /\ Left(c).then = "idle" /\ Left(c).leaving = FALSE
                   /\ Left(c).aborting = {}
<1>1. CASE c.leaving
  BY <1>1 DEF Left, CallT, Pcs, Thens
<1>2. CASE ~c.leaving /\ c.then = "idle"
  BY <1>2, IdleType DEF Left, Idle, CallT, Thens
<1>3. CASE ~c.leaving /\ c.then # "idle"
  <2>1. Left(c) = [Idle EXCEPT !.pc = c.then, !.session = c.session]
    BY <1>3 DEF Left
  <2>2. c.then \in Pcs /\ c.session \in Sessions \cup {None}
    BY DEF CallT, Pcs, Thens
  <2>3. Left(c) \in CallT
    BY <2>1, <2>2, IdleType DEF CallT
  <2> QED
    BY <1>3, <2>1, <2>3 DEF Idle, CallT
<1> QED
  BY <1>1, <1>2, <1>3 DEF CallT

LEMMA DepartsEffect ==
    ASSUME Shape, NEW p \in Procs, call' = [call EXCEPT ![p] = Left(call[p])]
    PROVE  Departs(p)
<1>1. call[p] \in CallT
  BY DEF Shape
<1> QED
  BY <1>1, LeftType, SetCall DEF Departs, Moved

LEMMA AbortedType ==
    ASSUME NEW s \in Sessions, NEW os \in SUBSET OpT
    PROVE  Aborted(s, os) \subseteq OpT
  BY DEF Aborted, OpT

LEMMA MakeInactive ==
    ASSUME Shape, NEW s \in Sessions, NEW os, closedAt' = closedAt,
           sess' = [sess EXCEPT ![s].state = "inactive", ![s].linked = FALSE,
                                ![s].queue = {}],
           ops' = Aborted(s, os)
    PROVE  MadeInactive(s, os)
<1>1. OnlySession(s) /\ SameData(s) /\ sess'[s].state = "inactive"
      /\ sess'[s].linked = FALSE /\ sess'[s].queue = {}
      /\ sess'[s].deaths = sess[s].deaths
  <2>0. sess \in [Sessions -> SessionT]
    BY DEF Shape
  <2>1. PICK n \in SessionT :
          n = [sess[s] EXCEPT !.state = "inactive", !.linked = FALSE, !.queue = {}]
    BY <2>0 DEF SessionT, States
  <2>2. sess' = [sess EXCEPT ![s] = n]
    BY <2>0, <2>1
  <2>3. OnlySession(s) /\ sess'[s] = n
    BY <2>0, <2>2 DEF OnlySession
  <2>4. /\ n.state = "inactive" /\ n.linked = FALSE /\ n.queue = {}
        /\ n.connected = sess[s].connected /\ n.deaths = sess[s].deaths
        /\ n.announced = sess[s].announced
        /\ n.deferredCommit = sess[s].deferredCommit
    BY <2>0, <2>1 DEF SessionT
  <2> QED
    BY <2>3, <2>4 DEF SameData
<1> QED
  BY <1>1 DEF MadeInactive

(* Inactivate *)
LEMMA InactivateEffect ==
    ASSUME Shape, NEW p \in Procs, NEW s \in Sessions, NEW then \in Thens,
           Inactivate(p, s, then)
    PROVE  /\ MadeInactive(s, ops) /\ overtaken' = overtaken
           /\ Moved(p, "unregistering", s, then, TRUE, None,
                    call[p].aborting \cup sess[s].queue)
<1>1. /\ sess' = [sess EXCEPT ![s].state = "inactive", ![s].linked = FALSE,
                              ![s].queue = {}]
      /\ ops' = Aborted(s, ops) /\ closedAt' = closedAt /\ overtaken' = overtaken
  BY DEF Inactivate, Emptied
<1>2. MadeInactive(s, ops)
  BY <1>1, MakeInactive
<1> DEFINE ws == call[p].aborting \cup sess[s].queue
<1>3. ws \in SUBSET Waiters
  BY DEF Shape, CallT, SessionT
<1>4. PICK c \in CallT : c = [Idle EXCEPT !.pc = "unregistering", !.session = s,
                                !.then = then, !.leaving = TRUE, !.aborting = ws]
  BY <1>3, IdleType DEF Idle, CallT, Pcs
<1>5. call' = [call EXCEPT ![p] = c]
  BY <1>4 DEF Inactivate
<1>6. /\ c.pc = "unregistering" /\ c.session = s /\ c.then = then
      /\ c.leaving = TRUE /\ c.peek = None /\ c.aborting = ws
  BY <1>4 DEF Idle
<1> QED
  BY <1>1, <1>2, <1>5, <1>6, SetCall

(* BeginDying *)
LEMMA BeginDyingEffect ==
    ASSUME Shape, NEW s \in Sessions, BeginDying(s), sess[s].state = "active"
    PROVE  Dies(s)
<1>1. /\ OnlySession(s) /\ SameData(s) /\ sess'[s].state = "dying"
      /\ sess'[s].linked = sess[s].linked /\ sess'[s].queue = sess[s].queue
      /\ sess'[s].deaths = sess[s].deaths + 1
  BY DEF BeginDying, OnlySession, SameData, Shape, SessionT, States
<1>2. /\ closedAt' \in [Sessions -> Nat] /\ closedAt'[s] = committed
      /\ \A r \in Sessions : r # s => closedAt'[r] = closedAt[r]
  BY DEF BeginDying, Shape
<1> QED
  BY <1>1, <1>2 DEF Dies, BeginDying

(* Close, for any call c to go on with *)
LEMMA CloseEffect ==
    ASSUME Shape, NEW p \in Procs, NEW s \in Sessions, NEW c \in CallT,
           c.pc \in Thens, Close(p, s, c)
    PROVE  /\ overtaken' = overtaken
           /\ \/ /\ sess[s].state \in {"waiting", "active"} /\ MadeInactive(s, ops)
                 /\ Moved(p, "unregistering", s, c.pc, TRUE, None,
                          call[p].aborting \cup sess[s].queue)
              \/ /\ Alike \/ Dies(s)
                 /\ \A r \in Sessions : sess'[r].connected = sess[r].connected
                 /\ call' = [call EXCEPT ![p] = c]
              \/ /\ sess[s].state = "inactive" /\ Alike
                 /\ \A r \in Sessions : sess'[r].connected = sess[r].connected
                 /\ Moved(p, "unregistering", s, c.pc, c.leaving, c.peek, c.aborting)
<1>1. CASE /\ policy = "Immediately" /\ sess[s].state \in {"waiting", "active"}
           /\ Inactivate(p, s, c.pc)
  BY <1>1, InactivateEffect
<1>2. CASE /\ policy # "Immediately" /\ sess[s].state = "waiting"
           /\ sess' = [sess EXCEPT ![s].deferredClose = TRUE]
           /\ call' = [call EXCEPT ![p] = c]
           /\ UNCHANGED <<ops, closedAt, overtaken>>
  <2>1. Alike /\ \A r \in Sessions : sess'[r].connected = sess[r].connected
    BY <1>2 DEF Alike, Shape, SessionT
  <2> QED
    BY <1>2, <2>1
<1>3. CASE /\ policy = "AfterChangesUploaded" /\ sess[s].state = "active"
           /\ BeginDying(s)
           /\ call' = [call EXCEPT ![p] = c]
           /\ UNCHANGED overtaken
  <2>1. Dies(s)
    BY <1>3, BeginDyingEffect
  <2>2. \A r \in Sessions : sess'[r].connected = sess[r].connected
    BY <2>1 DEF Dies, OnlySession, SameData
  <2> QED
    BY <1>3, <2>1, <2>2
<1>4. CASE /\ sess[s].state = "dying" \/ (policy = "LiveIndefinitely" /\ sess[s].state = "active")
           /\ call' = [call EXCEPT ![p] = c]
           /\ UNCHANGED <<sess, ops, closedAt, overtaken>>
  <2>1. Alike /\ \A r \in Sessions : sess'[r].connected = sess[r].connected
    BY <1>4 DEF Alike, Shape
  <2> QED
    BY <1>4, <2>1
<1>5. CASE /\ sess[s].state = "inactive"
           /\ call' = [call EXCEPT ![p] =
                [c EXCEPT !.pc = "unregistering", !.session = s, !.then = c.pc]]
           /\ UNCHANGED <<sess, ops, closedAt, overtaken>>
  <2>1. Alike /\ \A r \in Sessions : sess'[r].connected = sess[r].connected
    BY <1>5 DEF Alike, Shape
  <2>2. PICK d \in CallT : d = [c EXCEPT !.pc = "unregistering", !.session = s,
                                         !.then = c.pc]
    BY DEF CallT, Pcs
  <2>3. /\ d.pc = "unregistering" /\ d.session = s /\ d.then = c.pc
        /\ d.leaving = c.leaving /\ d.peek = c.peek /\ d.aborting = c.aborting
    BY <2>2 DEF CallT
  <2>4. Moved(p, "unregistering", s, c.pc, c.leaving, c.peek, c.aborting)
    BY <1>5, <2>2, <2>3, SetCall
  <2> QED
    BY <1>5, <2>1, <2>4
<1> QED
  BY <1>1, <1>2, <1>3, <1>4, <1>5 DEF Close

(* SyncSession::log_out *)
LEMMA LogOutEffect ==
    ASSUME Shape, NEW p \in Procs, call[p].session \in Sessions,
           NEW pc \in Thens, LogOut(p, call[p].session, pc)
    PROVE  /\ overtaken' = overtaken
           /\ \/ /\ MadeInactive(call[p].session, ops)
                 /\ Moved(p, "unregistering", call[p].session, pc, TRUE, None,
                          call[p].aborting \cup sess[call[p].session].queue)
              \/ /\ Alike /\ sess' = sess
                 /\ Fresh(p, pc, IF pc = "idle" THEN None ELSE call[p].session)
<1>0. pc \in Pcs
  BY DEF Pcs, Thens
<1> DEFINE s == call[p].session
<1>1. CASE sess[s].state # "inactive" /\ Inactivate(p, s, pc)
  BY <1>1, InactivateEffect
<1>2. CASE sess[s].state = "inactive" /\ To(p, pc)
           /\ UNCHANGED <<sess, ops, closedAt, overtaken>>
  BY <1>0, <1>2, ToEffect DEF Alike, Shape
<1> QED
  BY <1>1, <1>2 DEF LogOut

(* ReviveIfNeeded *)
Revived(s) ==
    /\ OnlySession(s) /\ SameData(s)
    /\ sess'[s].state = IF sess[s].state \in {"inactive", "waiting"} THEN "waiting"
                        ELSE "active"
    /\ sess'[s].linked = sess[s].linked /\ sess'[s].queue = sess[s].queue
    /\ sess'[s].deaths = sess[s].deaths

Asked(s) ==
    /\ requests' \subseteq RequestT
    /\ \A r \in requests' : r.session = s \/ \E q \in requests : r.session = q.session

LEMMA AskEffect ==
    ASSUME Shape, NEW s \in Sessions,
           requests' = LetGo(requests) \cup {[session |-> s, strong |-> TRUE]}
    PROVE  Asked(s)
<1>1. \A q \in requests : [q EXCEPT !.strong = FALSE] \in RequestT
  BY DEF Shape, RequestT
<1>2. [session |-> s, strong |-> TRUE] \in RequestT
  BY DEF RequestT
<1>3. requests' \subseteq RequestT
  BY <1>1, <1>2 DEF LetGo
<1>4. ASSUME NEW r \in requests'
      PROVE  r.session = s \/ \E q \in requests : r.session = q.session
  <2>1. CASE r = [session |-> s, strong |-> TRUE]
    BY <2>1
  <2>2. CASE \E q \in requests : r = [q EXCEPT !.strong = FALSE]
    BY <2>2 DEF Shape, RequestT
  <2> QED
    BY <2>1, <2>2 DEF LetGo
<1> QED
  BY <1>3, <1>4 DEF Asked

LEMMA ReviveIfNeededEffect ==
    ASSUME Shape, NEW s \in Sessions, ReviveIfNeeded(s)
    PROVE  /\ Revived(s)
           /\ overtaken' = (overtaken \/ BeingLeft(s) \/ (s # registered /\ ~Referenced(s)))
<1> DEFINE state == sess[s].state
<1>1. overtaken' = (overtaken \/ BeingLeft(s) \/ (s # registered /\ ~Referenced(s)))
  BY Zenon DEF ReviveIfNeeded
<1>2. CASE /\ state = "inactive"
           /\ sess' = [sess EXCEPT ![s].state = "waiting",
                                   ![s].deferredClose = FALSE]
  <2>1. Revived(s)
    BY <1>2 DEF Revived, OnlySession, SameData, Shape, SessionT, States
  <2> QED
    BY <1>1, <1>2, <2>1
<1>3. CASE /\ state = "waiting"
           /\ sess' = [sess EXCEPT ![s].deferredClose = FALSE]
  <2>1. Revived(s)
    BY <1>3 DEF Revived, OnlySession, SameData, Shape, SessionT, States
  <2> QED
    BY <1>1, <1>3, <2>1
<1>4. CASE /\ state = "dying"
           /\ sess' = [sess EXCEPT ![s].state = "active"]
  <2>1. Revived(s)
    BY <1>4 DEF Revived, OnlySession, SameData, Shape, SessionT, States
  <2> QED
    BY <1>1, <1>4, <2>1
<1>5. CASE state = "active" /\ UNCHANGED sess
  <2>1. Revived(s)
    BY <1>5 DEF Revived, OnlySession, SameData, Shape, SessionT, States
  <2> QED
    BY <1>1, <1>5, <2>1
<1> QED
  BY <1>1, <1>2, <1>3, <1>4, <1>5 DEF ReviveIfNeeded

(* Bind *)
Bound(s) ==
    LET bound == IF sess[s].linked THEN sess[s].announced ELSE committed
        announced == Higher(bound, sess[s].deferredCommit)
        dies == sess'[s].state = "dying"
    IN  /\ OnlySession(s) /\ sess'[s].state \in {"active", "dying"}
        /\ sess'[s].linked = TRUE /\ sess'[s].queue = {}
        /\ sess'[s].deferredCommit = 0 /\ sess'[s].announced = announced
        /\ sess'[s].connected = sess[s].connected
        /\ sess'[s].deaths = IF dies THEN sess[s].deaths + 1 ELSE sess[s].deaths
        /\ ops' = ops \cup {WaitOp(s, w, 0, bound) : w \in sess[s].queue}
                      \cup (IF dies THEN {WaitOp(s, None, sess[s].deaths + 1, announced)}
                            ELSE {})
        /\ closedAt' \in [Sessions -> Nat]
        /\ closedAt'[s] = IF dies THEN committed ELSE closedAt[s]
        /\ \A r \in Sessions : r # s => closedAt'[r] = closedAt[r]

LEMMA HigherType ==
    ASSUME NEW a \in Nat, NEW b \in Nat
    PROVE  Higher(a, b) \in Nat /\ Higher(a, b) \in {a, b}
           /\ Higher(a, b) >= a /\ Higher(a, b) >= b
  BY DEF Higher

LEMMA BindEffect ==
    ASSUME Shape, NEW s \in Sessions, Bind(s)
    PROVE  Bound(s)
<1> DEFINE old == sess[s]
           bound == IF old.linked THEN old.announced ELSE committed
           announced == Higher(bound, old.deferredCommit)
           dies == old.deferredClose /\ policy = "AfterChangesUploaded"
           state == IF dies THEN "dying" ELSE "active"
<1>0. old \in SessionT /\ committed \in Nat /\ closedAt \in [Sessions -> Nat]
      /\ sess \in [Sessions -> SessionT]
  BY DEF Shape
<1>1. bound \in Nat /\ announced \in Nat
  <2>1. bound \in Nat /\ old.deferredCommit \in Nat
    BY <1>0 DEF SessionT
  <2> HIDE DEF bound
  <2> QED
    BY <2>1, HigherType
<1>2. sess' = [sess EXCEPT
             ![s].state = state,
             ![s].linked = TRUE, ![s].queue = {}, ![s].deferredCommit = 0,
             ![s].announced = announced,
             ![s].deaths = IF dies THEN @ + 1 ELSE @]
  BY Zenon DEF Bind
<1>3. ops' = ops \cup {WaitOp(s, w, 0, bound) : w \in old.queue}
                      \cup (IF dies THEN {WaitOp(s, None, old.deaths + 1, announced)}
                            ELSE {})
  BY Zenon DEF Bind
<1>4. closedAt' = [closedAt EXCEPT ![s] = IF dies THEN committed ELSE @]
  BY Zenon DEF Bind
<1> HIDE DEF bound, announced, dies
<1>5. /\ OnlySession(s) /\ sess'[s].state = state
      /\ sess'[s].linked = TRUE /\ sess'[s].queue = {}
      /\ sess'[s].deferredCommit = 0 /\ sess'[s].announced = announced
      /\ sess'[s].connected = old.connected
      /\ sess'[s].deaths = IF dies THEN old.deaths + 1 ELSE old.deaths
  <2>1. PICK st \in States : st = state
    BY DEF States
  <2>2. PICK d \in Nat : d = IF dies THEN old.deaths + 1 ELSE old.deaths
    BY <1>0 DEF SessionT
  <2> HIDE DEF state
  <2>3. sess' = [sess EXCEPT ![s] =
          [old EXCEPT !.state = st, !.linked = TRUE, !.queue = {},
                      !.deferredCommit = 0, !.announced = announced, !.deaths = d]]
    BY <1>2, <2>1, <2>2
  <2>4. PICK n \in SessionT :
          n = [old EXCEPT !.state = st, !.linked = TRUE, !.queue = {},
                          !.deferredCommit = 0, !.announced = announced, !.deaths = d]
    BY <1>0, <1>1 DEF SessionT
  <2>5. sess' = [sess EXCEPT ![s] = n]
    BY <2>3, <2>4
  <2>6. sess'[s] = n /\ OnlySession(s)
    BY <1>0, <2>5 DEF OnlySession
  <2>7. /\ n.state = st /\ n.linked = TRUE /\ n.queue = {} /\ n.deferredCommit = 0
        /\ n.announced = announced /\ n.connected = old.connected /\ n.deaths = d
    BY <1>0, <2>4 DEF SessionT
  <2> QED
    BY <2>1, <2>2, <2>6, <2>7
<1>6. (sess'[s].state = "dying") <=> dies
  BY <1>5
<1>7. /\ closedAt' \in [Sessions -> Nat]
      /\ closedAt'[s] = IF sess'[s].state = "dying" THEN committed ELSE closedAt[s]
      /\ \A r \in Sessions : r # s => closedAt'[r] = closedAt[r]
  BY <1>0, <1>4, <1>6
<1>8. sess'[s].state \in {"active", "dying"}
  BY <1>5
<1>9. ops' = ops \cup {WaitOp(s, w, 0, bound) : w \in old.queue}
               \cup (IF sess'[s].state = "dying"
                     THEN {WaitOp(s, None, old.deaths + 1, announced)} ELSE {})
  BY <1>3, <1>6
<1>10. sess'[s].deaths = IF sess'[s].state = "dying" THEN old.deaths + 1 ELSE old.deaths
  BY <1>5, <1>6
<1> QED
  BY <1>5, <1>7, <1>8, <1>9, <1>10, Zenon DEF Bound, bound, announced

-----------------------------------------------------------------------------
(* What each action does *)

Base == Shape /\ Known /\ Places

LEMMA KnownSession ==
    ASSUME Base, NEW p \in Procs
    PROVE  /\ call[p].pc # "idle" => call[p].session \in created
           /\ call[p].pc = "peeking" => call[p].peek \in created
           /\ created \subseteq Sessions
  BY SyncAssumption DEF Base, Shape, Known, Places, PlaceOf

LEMMA AliveIsKnown ==
    ASSUME Base, NEW s, Alive(s)
    PROVE  s \in created
  BY DEF Base, Known, Alive, Referenced

LEMMA SameSessions ==
    ASSUME Shape, UNCHANGED <<sess, ops, closedAt>>
    PROVE  Alike /\ sess' = sess
  BY DEF Alike, Shape

LEMMA NewCall ==
    ASSUME Shape, NEW p \in Procs, NEW pc \in Pcs, NEW s \in Sessions,
           call' = [call EXCEPT ![p] = [Idle EXCEPT !.pc = pc, !.session = s]]
    PROVE  Fresh(p, pc, s)
<1>1. PICK c \in CallT : c = [Idle EXCEPT !.pc = pc, !.session = s]
  BY IdleType DEF Idle, CallT
<1>2. /\ c.pc = pc /\ c.session = s /\ c.then = "idle" /\ c.leaving = FALSE
      /\ c.peek = None /\ c.aborting = {}
  BY <1>1 DEF Idle
<1> QED
  BY <1>1, <1>2, SetCall DEF Fresh

LEMMA ThreadIsProc == \A t \in Threads : t \in Procs
  BY DEF Procs

(* GetSession *)
LEMMA GetSessionEffect ==
    ASSUME Base, NEW t \in Threads, GetSession(t)
    PROVE  /\ Alike /\ sess' = sess /\ call[t].pc = "idle" /\ refs[t] = None
           /\ sessionLock = None /\ sessionLock' = t
           /\ registered' \in Sessions /\ Fresh(t, "registering", registered')
           /\ \/ registered # None /\ UNCHANGED <<registered, created, refs>>
              \/ /\ registered = None /\ registered' \notin created
                 /\ created' = created \cup {registered'}
                 /\ refs' = [refs EXCEPT ![t] = registered']
           /\ calls < MaxCalls /\ calls' = calls + 1
           /\ UNCHANGED <<policy, userLock, userVars, requests, waiterVars, dataVars,
                          crashed, errors, unheard, overtaken, strays>>
<1>1. /\ call[t].pc = "idle" /\ calls < MaxCalls /\ calls' = calls + 1
      /\ UNCHANGED <<policy, dataVars, crashed, errors, unheard, strays>>
      /\ refs[t] = None /\ sessionLock = None /\ sessionLock' = t
      /\ UNCHANGED <<sess, userLock, userVars, requests, ops, waiterVars, closedAt,
                     overtaken>>
  BY DEF GetSession, Start, At
<1>2. Alike /\ sess' = sess
  BY <1>1, SameSessions DEF Base
<1>3. t \in Procs
  BY ThreadIsProc
<1>4. CASE registered # None
  <2>1. /\ call' = [call EXCEPT ![t] =
             [Idle EXCEPT !.pc = "registering", !.session = registered]]
        /\ UNCHANGED <<registered, created, refs>>
    BY <1>4 DEF GetSession
  <2>2. registered \in Sessions
    BY <1>4 DEF Base, Shape
  <2>3. Fresh(t, "registering", registered)
    BY <1>3, <2>1, <2>2, NewCall DEF Base, Pcs
  <2> QED
    BY <1>1, <1>2, <1>4, <2>1, <2>2, <2>3
<1>5. CASE registered = None
  <2>1. PICK s \in Sessions \ created :
               /\ created' = created \cup {s}
               /\ registered' = s
               /\ refs' = [refs EXCEPT ![t] = s]
               /\ call' = [call EXCEPT ![t] =
                    [Idle EXCEPT !.pc = "registering", !.session = s]]
    BY <1>5 DEF GetSession
  <2>2. Fresh(t, "registering", s)
    BY <1>3, <2>1, NewCall DEF Base, Pcs
  <2> QED
    BY <1>1, <1>2, <1>5, <2>1, <2>2
<1> QED
  BY <1>4, <1>5

(* DropReference *)
LEMMA DropReferenceEffect ==
    ASSUME Base, NEW t \in Threads, DropReference(t)
    PROVE  /\ Alike /\ sess' = sess /\ call[t].pc = "idle"
           /\ refs[t] \in Sessions /\ refs' = [refs EXCEPT ![t] = None]
           /\ Fresh(t, "idle", None) \/ Fresh(t, "dropping", refs[t])
           /\ calls < MaxCalls /\ calls' = calls + 1
           /\ UNCHANGED <<policy, created, registered, lockVars, userVars, requests,
                          waiterVars, dataVars, crashed, errors, unheard, overtaken,
                          strays>>
<1>1. /\ call[t].pc = "idle" /\ calls < MaxCalls /\ calls' = calls + 1
      /\ UNCHANGED <<policy, dataVars, crashed, errors, unheard, strays>>
      /\ refs[t] # None /\ refs' = [refs EXCEPT ![t] = None]
      /\ UNCHANGED <<created, sess, registered, lockVars, userVars, requests,
                     ops, waiterVars, closedAt, overtaken>>
  BY DEF DropReference, Start, At
<1>2. t \in Procs
  BY ThreadIsProc
<1>3. refs[t] \in Sessions
  BY <1>1, <1>2 DEF Base, Shape
<1>4. Alike /\ sess' = sess
  BY <1>1, SameSessions DEF Base
<1>5. \/ call' = [call EXCEPT ![t] = Idle]
      \/ call' = [call EXCEPT ![t] = [Idle EXCEPT !.pc = "dropping", !.session = refs[t]]]
  BY DEF DropReference
<1>6. CASE call' = [call EXCEPT ![t] = Idle]
  <2>1. Fresh(t, "idle", None)
    BY <1>2, <1>6, IdleType, SetCall DEF Base, Fresh, Idle
  <2> QED
    BY <1>1, <1>3, <1>4, <2>1
<1>7. CASE call' = [call EXCEPT ![t] = [Idle EXCEPT !.pc = "dropping", !.session = refs[t]]]
  <2>1. Fresh(t, "dropping", refs[t])
    BY <1>2, <1>3, <1>7, NewCall DEF Base, Pcs
  <2> QED
    BY <1>1, <1>3, <1>4, <2>1
<1> QED
  BY <1>5, <1>6, <1>7

(* The calls that only begin here: LogIn, Lock, Commit, TokenRefused *)
Begins(t) ==
    /\ Alike /\ sess' = sess /\ call[t].pc = "idle"
    /\ \/ call' = call
       \/ \E s \in created : \E pc \in {"reviving", "suspending", "reconfiguring"} :
             Fresh(t, pc, s)
    /\ UNCHANGED <<policy, created, registered, lockVars, refs, waiterVars, dataVars,
                   crashed, errors, unheard, overtaken, strays>>

LEMMA LogInEffect ==
    ASSUME Base, NEW t \in Threads, LogIn(t)
    PROVE  /\ Begins(t) /\ requests' = requests
           /\ calls < MaxCalls /\ calls' = calls + 1
           /\ userSession' \in {userSession, waiting} /\ waiting' = None
           /\ userState' = "Active"
<1>1. /\ call[t].pc = "idle" /\ calls < MaxCalls /\ calls' = calls + 1
      /\ UNCHANGED <<policy, dataVars, crashed, errors, unheard, strays>>
      /\ userState' = "Active" /\ waiting' = None
      /\ UNCHANGED <<created, sess, registered, lockVars, refs, requests, ops,
                     waiterVars, closedAt, overtaken>>
  BY DEF LogIn, Start, At
<1>2. Alike /\ sess' = sess
  BY <1>1, SameSessions DEF Base
<1>3. CASE /\ Alive(waiting) /\ userSession' = waiting
           /\ call' = [call EXCEPT ![t] =
                [Idle EXCEPT !.pc = "reviving", !.session = waiting]]
  <2>1. waiting \in created /\ created \subseteq Sessions
    BY <1>3, AliveIsKnown DEF Base, Shape
  <2>2. Fresh(t, "reviving", waiting)
    BY <1>3, <2>1, NewCall, ThreadIsProc DEF Base, Pcs
  <2> QED
    BY <1>1, <1>2, <1>3, <2>1, <2>2 DEF Begins
<1>4. CASE ~Alive(waiting) /\ UNCHANGED <<userSession, call>>
  BY <1>1, <1>2, <1>4 DEF Begins
<1> QED
  BY <1>3, <1>4 DEF LogIn

LEMMA LockEffect ==
    ASSUME Base, NEW t \in Threads, NEW c, NEW pc \in {"reviving", "suspending", "reconfiguring"},
           Lock(t, c, pc)
    PROVE  /\ Begins(t) /\ calls < MaxCalls /\ calls' = calls + 1
           /\ UNCHANGED <<userVars, requests>>
<1>1. /\ call[t].pc = "idle" /\ calls < MaxCalls /\ calls' = calls + 1
      /\ UNCHANGED <<policy, dataVars, crashed, errors, unheard, strays>>
      /\ UNCHANGED <<created, sess, registered, lockVars, userVars, refs, requests,
                     ops, waiterVars, closedAt, overtaken>>
  BY DEF Lock, Start, At
<1>2. Alike /\ sess' = sess
  BY <1>1, SameSessions DEF Base
<1>3. PICK s \in Sessions :
         /\ Alive(s)
         /\ call' = [call EXCEPT ![t] = [Idle EXCEPT !.pc = pc, !.session = s]]
  BY Zenon DEF Lock
<1>4. s \in created
  BY <1>3, AliveIsKnown
<1>5. Fresh(t, pc, s)
  <2>1. pc \in Pcs
    BY DEF Pcs
  <2> QED
    BY <1>3, <2>1, NewCall, ThreadIsProc DEF Base
<1> QED
  BY <1>1, <1>2, <1>4, <1>5 DEF Begins

LEMMA TokenRefusedEffect ==
    ASSUME Base, NEW t \in Threads, NEW r \in requests, TokenRefused(t, r)
    PROVE  /\ Begins(t) /\ requests' \subseteq requests
           /\ call' = call \/ \E s \in created : Fresh(t, "suspending", s)
           /\ UNCHANGED <<calls, userVars>>
<1>1. /\ call[t].pc = "idle" /\ requests' = requests \ {r}
      /\ UNCHANGED <<policy, dataVars, crashed, boundVars, unheard, strays>>
      /\ UNCHANGED <<created, sess, registered, lockVars, userVars, refs, ops,
                     waiterVars, closedAt, overtaken>>
  BY DEF TokenRefused, Refused, At
<1>2. Alike /\ sess' = sess
  BY <1>1, SameSessions DEF Base
<1>3. CASE r.strong
  <2>1. r.session \in created /\ created \subseteq Sessions
    BY DEF Base, Known, Shape
  <2>2. Fresh(t, "suspending", r.session)
    BY <1>3, <2>1, NewCall, ThreadIsProc DEF Base, Pcs, TokenRefused
  <2> QED
    BY <1>1, <1>2, <2>1, <2>2 DEF Begins, boundVars
<1>4. CASE ~r.strong
  BY <1>1, <1>2, <1>4 DEF Begins, boundVars, TokenRefused
<1> QED
  BY <1>3, <1>4

LEMMA CommitEffect ==
    ASSUME Base, NEW t \in Threads, Commit(t)
    PROVE  /\ Alike /\ sess' = sess /\ call[t].pc = "idle"
           /\ refs[t] \in Sessions /\ Fresh(t, "notifying", refs[t])
           /\ calls < MaxCalls /\ calls' = calls + 1 /\ committed' = committed + 1
           /\ UNCHANGED <<policy, created, registered, lockVars, userVars, refs,
                          requests, uploaded, waiterVars, crashed, errors, unheard,
                          overtaken, strays>>
<1>1. /\ call[t].pc = "idle" /\ calls < MaxCalls /\ calls' = calls + 1
      /\ refs[t] # None /\ committed' = committed + 1
      /\ call' = [call EXCEPT ![t] = [Idle EXCEPT !.pc = "notifying", !.session = refs[t]]]
      /\ UNCHANGED <<policy, created, sess, registered, lockVars, userVars, refs,
                     requests, ops, uploaded, waiterVars, crashed, errors, histVars>>
  BY DEF Commit, At
<1>2. Alike /\ sess' = sess
  BY <1>1, SameSessions DEF Base, histVars
<1>3. refs[t] \in Sessions
  BY <1>1, ThreadIsProc DEF Base, Shape
<1>4. Fresh(t, "notifying", refs[t])
  BY <1>1, <1>3, NewCall, ThreadIsProc DEF Base, Pcs
<1> QED
  BY <1>1, <1>2, <1>3, <1>4 DEF histVars

(* No request for another session *)
Thinned ==
    /\ requests' \subseteq RequestT
    /\ \A r \in requests' : \E q \in requests : r.session = q.session

LEMMA WeakRequests ==
    ASSUME Shape, NEW rs \in SUBSET requests, requests' = rs \/ requests' = LetGo(rs)
    PROVE  Thinned
<1>1. \A q \in requests : /\ [q EXCEPT !.strong = FALSE] \in RequestT
                          /\ [q EXCEPT !.strong = FALSE].session = q.session
  BY DEF Shape, RequestT
<1>2. CASE requests' = rs
  BY <1>2 DEF Thinned, Shape
<1>3. CASE requests' = LetGo(rs)
  BY <1>1, <1>3 DEF Thinned, LetGo
<1> QED
  BY <1>2, <1>3

LEMMA UserLogOutEffect ==
    ASSUME Base, NEW t \in Threads, UserLogOut(t)
    PROVE  /\ Alike /\ sess' = sess /\ call[t].pc = "idle"
           /\ userLock = None /\ userState' = "LoggedOut" /\ Thinned
           /\ \/ /\ userSession \in created /\ userLock' = t
                 /\ Fresh(t, "logging_out", userSession)
                 /\ UNCHANGED userSession
              \/ userSession' = None /\ UNCHANGED <<userLock, call>>
           /\ calls' = calls \/ (calls < MaxCalls /\ calls' = calls + 1)
           /\ UNCHANGED <<policy, created, registered, sessionLock, waiting, refs,
                          waiterVars, dataVars, crashed, errors, unheard, overtaken,
                          strays>>
<1>1. PICK rs \in SUBSET requests : LogOutUser(t, rs)
  BY Zenon DEF UserLogOut
<1>2. /\ call[t].pc = "idle"
      /\ calls' = calls \/ (calls < MaxCalls /\ calls' = calls + 1)
      /\ UNCHANGED <<policy, dataVars, crashed, errors, unheard, strays>>
  BY DEF UserLogOut, Start, Refused, At, boundVars
<1>3. /\ userLock = None /\ userState' = "LoggedOut"
      /\ UNCHANGED <<created, sess, registered, sessionLock, waiting, refs, ops,
                     waiterVars, closedAt, overtaken>>
  BY <1>1 DEF LogOutUser
<1>4. Alike /\ sess' = sess
  BY <1>3, SameSessions DEF Base
<1>5. CASE /\ Alive(userSession) /\ userLock' = t
           /\ call' = [call EXCEPT ![t] =
                [Idle EXCEPT !.pc = "logging_out", !.session = userSession]]
           /\ requests' = rs /\ UNCHANGED userSession
  <2>1. userSession \in created /\ created \subseteq Sessions
    BY <1>5, AliveIsKnown DEF Base, Shape
  <2>2. Fresh(t, "logging_out", userSession)
    BY <1>5, <2>1, NewCall, ThreadIsProc DEF Base, Pcs
  <2>3. Thinned
    BY <1>5, WeakRequests DEF Base
  <2> QED
    BY <1>2, <1>3, <1>4, <1>5, <2>1, <2>2, <2>3
<1>6. CASE /\ ~Alive(userSession) /\ userSession' = None /\ requests' = LetGo(rs)
           /\ UNCHANGED <<userLock, call>>
  <2>1. Thinned
    BY <1>6, WeakRequests DEF Base
  <2> QED
    BY <1>2, <1>3, <1>4, <1>6, <2>1
<1> QED
  BY <1>1, <1>5, <1>6 DEF LogOutUser

LEMMA ReconnectEffect ==
    ASSUME Base, NEW t \in Threads, Reconnect(t)
    PROVE  /\ Alike /\ sess' = sess /\ call[t].pc = "idle"
           /\ registered \in created /\ Fresh(t, "reconnecting", registered)
           /\ sessionLock = None /\ sessionLock' = t
           /\ calls < MaxCalls /\ calls' = calls + 1
           /\ UNCHANGED <<policy, created, registered, userLock, userVars, refs,
                          requests, waiterVars, dataVars, crashed, errors, unheard,
                          overtaken, strays>>
<1>1. /\ call[t].pc = "idle" /\ calls < MaxCalls /\ calls' = calls + 1
      /\ UNCHANGED <<policy, dataVars, crashed, errors, unheard, strays>>
      /\ registered # None /\ sessionLock = None /\ sessionLock' = t
      /\ call' = [call EXCEPT ![t] = [Idle EXCEPT !.pc = "reconnecting", !.session = registered]]
      /\ UNCHANGED <<created, sess, registered, userLock, userVars, refs, requests,
                     ops, waiterVars, closedAt, overtaken>>
  BY DEF Reconnect, Start, At
<1>2. Alike /\ sess' = sess
  BY <1>1, SameSessions DEF Base
<1>3. registered \in created /\ registered \in Sessions
  BY <1>1 DEF Base, Known, Shape
<1>4. Fresh(t, "reconnecting", registered)
  BY <1>1, <1>3, NewCall, ThreadIsProc DEF Base, Pcs
<1> QED
  BY <1>1, <1>2, <1>3, <1>4

(* A new wait operation of s for w, or a place in its queue *)
Queued(s, w) ==
    /\ OnlySession(s) /\ SameData(s) /\ sess'[s].state = sess[s].state
    /\ sess'[s].linked = sess[s].linked /\ sess'[s].deaths = sess[s].deaths
    /\ closedAt' = closedAt
    /\ \/ /\ sess[s].state \in {"waiting", "inactive"}
          /\ sess'[s].queue = sess[s].queue \cup {w} /\ ops' = ops
       \/ /\ sess'[s].queue = sess[s].queue
          /\ ops' = ops \cup {WaitOp(s, w, 0, sess[s].announced)}

LEMMA WaitForCompletionEffect ==
    ASSUME Base, NEW t \in Threads, WaitForCompletion(t)
    PROVE  /\ refs[t] \in created
           /\ \E w \in Waiters \ asked : asked' = asked \cup {w} /\ Queued(refs[t], w)
           /\ calls < MaxCalls /\ calls' = calls + 1
           /\ UNCHANGED <<policy, created, registered, lockVars, userVars, refs, call,
                          requests, called, dataVars, crashed, errors, unheard,
                          overtaken, strays>>
<1> DEFINE s == refs[t]
<1>1. /\ calls < MaxCalls /\ calls' = calls + 1
      /\ UNCHANGED <<policy, dataVars, crashed, errors, unheard, strays>>
      /\ s # None
      /\ UNCHANGED <<created, registered, lockVars, userVars, refs, call,
                     requests, called, closedAt, overtaken>>
  BY DEF WaitForCompletion, Start
<1>2. PICK w \in Waiters \ asked :
             /\ asked' = asked \cup {w}
             /\ \/ /\ sess[s].state \in {"waiting", "inactive"}
                   /\ sess' = [sess EXCEPT ![s].queue = @ \cup {w}]
                   /\ UNCHANGED ops
                \/ /\ sess[s].state \in {"active", "dying"}
                   /\ ops' = ops \cup {WaitOp(s, w, 0, sess[s].announced)}
                   /\ UNCHANGED sess
  BY Zenon DEF WaitForCompletion
<1>3. s \in created /\ s \in Sessions
  BY <1>1, ThreadIsProc DEF Base, Known, Shape
<1>4. CASE /\ sess[s].state \in {"waiting", "inactive"}
           /\ sess' = [sess EXCEPT ![s].queue = @ \cup {w}]
           /\ UNCHANGED ops
  <2>1. /\ OnlySession(s) /\ SameData(s) /\ sess'[s].state = sess[s].state
        /\ sess'[s].linked = sess[s].linked /\ sess'[s].deaths = sess[s].deaths
        /\ sess'[s].queue = sess[s].queue \cup {w}
    BY <1>3, <1>4 DEF OnlySession, SameData, Base, Shape, SessionT
  <2> QED
    BY <1>1, <1>2, <1>3, <1>4, <2>1 DEF Queued
<1>5. CASE /\ sess[s].state \in {"active", "dying"}
           /\ ops' = ops \cup {WaitOp(s, w, 0, sess[s].announced)}
           /\ UNCHANGED sess
  <2>1. OnlySession(s) /\ SameData(s)
    BY <1>3, <1>5 DEF OnlySession, SameData, Base, Shape
  <2> QED
    BY <1>1, <1>2, <1>3, <1>5, <2>1 DEF Queued
<1> QED
  BY <1>2, <1>4, <1>5

-----------------------------------------------------------------------------
(* Steps inside a call *)

LEMMA GoEffect ==
    ASSUME NEW p, NEW pc, Go(p, pc)
    PROVE  /\ call[p].pc = pc
           /\ UNCHANGED <<policy, created, dataVars, asked, boundVars, strays>>
           /\ pc # "notifying" => unheard' = unheard
  BY DEF Go, At

LEMMA RegisterSessionEffect ==
    ASSUME Base, NEW p \in Procs, RegisterSession(p)
    PROVE  /\ Alike /\ sess' = sess /\ call[p].pc = "registering"
           /\ call[p].session \in created
           /\ \E pc \in {"reviving", "referencing"} : Fresh(p, pc, call[p].session)
           /\ userSession' \in {userSession, call[p].session}
           /\ waiting' \in {waiting, call[p].session}
           /\ UNCHANGED <<policy, created, registered, lockVars, userState, refs,
                          requests, waiterVars, dataVars, crashed, boundVars, unheard,
                          overtaken, strays>>
<1>1. /\ call[p].pc = "registering"
      /\ UNCHANGED <<policy, created, dataVars, asked, boundVars, strays, unheard>>
      /\ UNCHANGED <<sess, registered, lockVars, userState, refs, requests, ops,
                     called, crashed, closedAt, overtaken>>
      /\ userSession' \in {userSession, call[p].session}
      /\ waiting' \in {waiting, call[p].session}
      /\ To(p, "reviving") \/ To(p, "referencing")
  BY GoEffect DEF RegisterSession
<1>2. Alike /\ sess' = sess
  BY <1>1, SameSessions DEF Base
<1>3. call[p].session \in created
  BY <1>1, KnownSession
<1>4. \E pc \in {"reviving", "referencing"} : Fresh(p, pc, call[p].session)
  <2>1. CASE To(p, "reviving")
    BY <2>1, ToEffect DEF Base, Pcs
  <2>2. CASE To(p, "referencing")
    BY <2>2, ToEffect DEF Base, Pcs
  <2> QED
    BY <1>1, <2>1, <2>2
<1> QED
  BY <1>1, <1>2, <1>3, <1>4 DEF waiterVars

LEMMA ReviveEffect ==
    ASSUME Base, NEW p \in Procs, Revive(p)
    PROVE  /\ call[p].pc = "reviving" /\ call[p].session \in created
           /\ Revived(call[p].session)
           /\ ops' = ops /\ closedAt' = closedAt
           /\ \/ Fresh(p, "asking", call[p].session)
              \/ sessionLock = p /\ Fresh(p, "referencing", call[p].session)
              \/ sessionLock # p /\ Fresh(p, "idle", None)
           /\ overtaken' = (overtaken \/ BeingLeft(call[p].session)
                              \/ call[p].session # registered)
           /\ UNCHANGED <<policy, created, registered, lockVars, userVars, refs,
                          requests, waiterVars, dataVars, crashed, boundVars, unheard,
                          strays>>
<1>1. /\ call[p].pc = "reviving"
      /\ UNCHANGED <<policy, created, dataVars, asked, boundVars, strays, unheard>>
      /\ UNCHANGED <<registered, lockVars, userVars, refs, requests, ops, called,
                     crashed, closedAt>>
      /\ ReviveIfNeeded(call[p].session)
      /\ \/ To(p, "asking")
         \/ To(p, IF sessionLock = p THEN "referencing" ELSE "idle")
  BY GoEffect DEF Revive
<1>2. call[p].session \in created /\ call[p].session \in Sessions
  BY <1>1, KnownSession
<1>3. \/ Fresh(p, "asking", call[p].session)
      \/ sessionLock = p /\ Fresh(p, "referencing", call[p].session)
      \/ sessionLock # p /\ Fresh(p, "idle", None)
  <2>1. CASE To(p, "asking")
    BY <2>1, ToEffect DEF Base, Pcs
  <2>2. CASE sessionLock = p /\ To(p, "referencing")
    BY <2>2, ToEffect DEF Base, Pcs
  <2>3. CASE sessionLock # p /\ To(p, "idle")
    BY <2>3, ToEffect DEF Base, Pcs
  <2> QED
    BY <1>1, <2>1, <2>2, <2>3
<1>4. /\ Revived(call[p].session)
      /\ overtaken' = (overtaken \/ BeingLeft(call[p].session)
                         \/ (call[p].session # registered /\ ~Referenced(call[p].session)))
  BY <1>1, <1>2, ReviveIfNeededEffect, Zenon DEF Base
<1>5. call[p].session # registered => ~Referenced(call[p].session)
  BY <1>2, SyncAssumption DEF Base, Places, PlaceOf, Referenced
<1>6. overtaken' = (overtaken \/ BeingLeft(call[p].session)
                      \/ call[p].session # registered)
  BY <1>4, <1>5
<1>7. UNCHANGED <<policy, created, registered, lockVars, userVars, refs, requests,
                  waiterVars, dataVars, crashed, boundVars, unheard, strays>>
  BY <1>1 DEF waiterVars
<1> QED
  BY <1>1, <1>2, <1>3, <1>4, <1>6, <1>7, Zenon

LEMMA BindSessionHandlerEffect ==
    ASSUME Base, NEW p \in Procs, BindSessionHandler(p)
    PROVE  /\ Alike /\ sess' = sess /\ call[p].pc \in {"asking", "reconnecting"}
           /\ call[p].session \in created /\ Asked(call[p].session)
           /\ \/ /\ call[p].pc = "asking" /\ sessionLock = p /\ sessionLock' = sessionLock
                 /\ Fresh(p, "referencing", call[p].session)
              \/ /\ call[p].pc = "asking" /\ sessionLock # p /\ sessionLock' = sessionLock
                 /\ Fresh(p, "idle", None)
              \/ /\ call[p].pc = "reconnecting" /\ sessionLock' = None
                 /\ Fresh(p, "idle", None)
           /\ UNCHANGED <<policy, created, registered, userLock, userVars, refs,
                          waiterVars, dataVars, crashed, boundVars, unheard,
                          overtaken, strays>>
<1>1. /\ requests' = LetGo(requests) \cup {[session |-> call[p].session, strong |-> TRUE]}
      /\ UNCHANGED <<sess, registered, userLock, userVars, refs, ops, called, crashed,
                     closedAt, overtaken>>
  BY DEF BindSessionHandler
<1>2. /\ call[p].pc \in {"asking", "reconnecting"}
      /\ UNCHANGED <<policy, created, dataVars, asked, boundVars, strays, unheard>>
  BY GoEffect DEF BindSessionHandler
<1>3. Alike /\ sess' = sess
  BY <1>1, SameSessions DEF Base
<1>4. call[p].session \in created /\ call[p].session \in Sessions
  BY <1>2, KnownSession
<1>5. Asked(call[p].session)
  BY <1>1, <1>4, AskEffect DEF Base
<1>6. CASE Go(p, "asking") /\ UNCHANGED sessionLock
           /\ To(p, IF sessionLock = p THEN "referencing" ELSE "idle")
  <2>1. call[p].pc = "asking"
    BY <1>6, GoEffect
  <2>2. CASE sessionLock = p
    BY <1>1, <1>2, <1>3, <1>4, <1>5, <1>6, <2>1, <2>2, ToEffect DEF Base, Pcs, waiterVars
  <2>3. CASE sessionLock # p
    BY <1>1, <1>2, <1>3, <1>4, <1>5, <1>6, <2>1, <2>3, ToEffect DEF Base, Pcs, waiterVars
  <2> QED
    BY <2>2, <2>3
<1>7. CASE Go(p, "reconnecting") /\ To(p, "idle") /\ sessionLock' = None
  <2>1. call[p].pc = "reconnecting"
    BY <1>7, GoEffect
  <2> QED
    BY <1>1, <1>2, <1>3, <1>4, <1>5, <1>7, <2>1, ToEffect DEF Base, Pcs, waiterVars
<1> QED
  BY <1>6, <1>7 DEF BindSessionHandler

LEMMA TakeReferenceEffect ==
    ASSUME Base, NEW p \in Procs, TakeReference(p)
    PROVE  /\ Alike /\ sess' = sess /\ call[p].pc = "referencing"
           /\ call[p].session \in created
           /\ Fresh(p, "idle", None) /\ refs' = [refs EXCEPT ![p] = call[p].session]
           /\ sessionLock' = None
           /\ UNCHANGED <<policy, created, registered, userLock, userVars, requests,
                          waiterVars, dataVars, crashed, boundVars, unheard,
                          overtaken, strays>>
<1>1. /\ call[p].pc = "referencing"
      /\ UNCHANGED <<policy, created, dataVars, asked, boundVars, strays, unheard>>
      /\ UNCHANGED <<sess, registered, userLock, userVars, requests, ops, called,
                     crashed, closedAt, overtaken>>
      /\ refs' = [refs EXCEPT ![p] = call[p].session] /\ sessionLock' = None
      /\ To(p, "idle")
  BY GoEffect DEF TakeReference
<1>2. Alike /\ sess' = sess
  BY <1>1, SameSessions DEF Base
<1>3. call[p].session \in created
  BY <1>1, KnownSession
<1>4. Fresh(p, "idle", None)
  BY <1>1, ToEffect DEF Base, Pcs
<1> QED
  BY <1>1, <1>2, <1>3, <1>4 DEF waiterVars

(* The process goes to unregister session s, or has nothing to unregister. *)
DidClose(p, s, then) ==
    \/ /\ MadeInactive(s, ops)
       /\ Moved(p, "unregistering", s, then, TRUE, None,
                call[p].aborting \cup sess[s].queue)
    \/ /\ sess[s].state = "inactive" /\ Alike
       /\ \A r \in Sessions : sess'[r].connected = sess[r].connected
       /\ Moved(p, "unregistering", s, then, call[p].leaving, None, call[p].aborting)

StaysConnected == \A r \in Sessions : sess'[r].connected = sess[r].connected

LEMMA DidDropReferenceEffect ==
    ASSUME Base, NEW p \in Procs, DidDropReference(p)
    PROVE  /\ call[p].pc = "dropping" /\ call[p].session \in created
           /\ \/ DidClose(p, call[p].session, "idle")
              \/ /\ Alike \/ Dies(call[p].session)
                 /\ StaysConnected /\ Fresh(p, "idle", None)
           /\ UNCHANGED <<policy, created, registered, lockVars, userVars, refs,
                          requests, waiterVars, dataVars, crashed, boundVars, unheard,
                          overtaken, strays>>
<1> DEFINE s == call[p].session
<1>1. /\ call[p].pc = "dropping"
      /\ UNCHANGED <<policy, created, dataVars, asked, boundVars, strays, unheard>>
      /\ UNCHANGED <<registered, lockVars, userVars, refs, requests, called, crashed>>
  BY GoEffect DEF DidDropReference
<1>2. s \in created /\ s \in Sessions
  BY <1>1, KnownSession
<1>3. ~call[p].leaving /\ call[p].aborting = {}
  BY <1>1 DEF Base, Places, PlaceOf, Exits
<1>4. CASE /\ Referenced(s) /\ To(p, "idle")
           /\ UNCHANGED <<sess, ops, closedAt, overtaken>>
  <2>1. Alike /\ sess' = sess
    BY <1>4, SameSessions DEF Base
  <2>2. Fresh(p, "idle", None)
    BY <1>4, ToEffect DEF Base, Pcs
  <2> QED
    BY <1>1, <1>2, <1>4, <2>1, <2>2 DEF waiterVars, StaysConnected
<1>5. CASE Close(p, s, Idle)
  <2>1. /\ Idle \in CallT /\ Idle.pc = "idle" /\ Idle.session = None
        /\ Idle.then = "idle" /\ Idle.leaving = FALSE /\ Idle.peek = None
        /\ Idle.aborting = {} /\ "idle" \in Thens
    BY IdleType DEF Idle, Thens
  <2>2. /\ overtaken' = overtaken
        /\ \/ /\ MadeInactive(s, ops)
              /\ Moved(p, "unregistering", s, "idle", TRUE, None,
                       call[p].aborting \cup sess[s].queue)
           \/ (Alike \/ Dies(s)) /\ StaysConnected /\ call' = [call EXCEPT ![p] = Idle]
           \/ /\ sess[s].state = "inactive" /\ Alike /\ StaysConnected
              /\ Moved(p, "unregistering", s, "idle", FALSE, None, {})
    BY <1>2, <1>5, <2>1, CloseEffect DEF Base, StaysConnected
  <2>3. ASSUME call' = [call EXCEPT ![p] = Idle]
        PROVE  Fresh(p, "idle", None)
    BY <2>1, <2>3, SetCall DEF Base, Fresh
  <2>4. \/ DidClose(p, s, "idle")
        \/ (Alike \/ Dies(s)) /\ StaysConnected /\ Fresh(p, "idle", None)
    <3>1. CASE /\ MadeInactive(s, ops)
               /\ Moved(p, "unregistering", s, "idle", TRUE, None,
                       call[p].aborting \cup sess[s].queue)
      BY <3>1 DEF DidClose
    <3>2. CASE (Alike \/ Dies(s)) /\ StaysConnected /\ call' = [call EXCEPT ![p] = Idle]
      BY <3>2, <2>3
    <3>3. CASE /\ sess[s].state = "inactive" /\ Alike /\ StaysConnected
               /\ Moved(p, "unregistering", s, "idle", FALSE, None, {})
      <4>1. call[p].leaving = FALSE
        BY <1>3 DEF Base, Shape, CallT
      <4>2. Moved(p, "unregistering", s, "idle", call[p].leaving, None, call[p].aborting)
        BY <3>3, <4>1, <1>3
      <4> QED
        BY <3>3, <4>2 DEF DidClose, StaysConnected
    <3> QED
      BY <2>2, <3>1, <3>2, <3>3
  <2> QED
    BY <1>1, <1>2, <2>2, <2>4 DEF waiterVars
<1> QED
  BY <1>4, <1>5 DEF DidDropReference

LEMMA UnregisterEffect ==
    ASSUME Base, NEW p \in Procs, Unregister(p)
    PROVE  /\ Alike /\ sess' = sess /\ call[p].pc = "unregistering"
           /\ call[p].session \in created /\ sessionLock = None
           /\ \/ UNCHANGED <<registered, sessionLock, call, overtaken>>
              \/ /\ registered \in created /\ sessionLock' = p
                 /\ Moved(p, "peeking", call[p].session, call[p].then,
                          call[p].leaving, registered, call[p].aborting)
                 /\ UNCHANGED <<registered, crashed, overtaken>>
              \/ /\ registered \in created /\ ~Referenced(registered)
                 /\ registered' = None /\ Departs(p)
                 /\ overtaken' = (overtaken \/ registered # call[p].session)
                 /\ UNCHANGED <<sessionLock, crashed>>
           /\ crashed' \in BOOLEAN
           /\ UNCHANGED <<policy, created, userLock, userVars, refs, requests,
                          waiterVars, dataVars, boundVars, unheard, strays>>
<1>1. /\ call[p].pc = "unregistering" /\ sessionLock = None
      /\ UNCHANGED <<policy, created, dataVars, asked, boundVars, strays, unheard>>
      /\ UNCHANGED <<sess, userLock, userVars, refs, requests, ops, called, closedAt>>
  BY GoEffect DEF Unregister
<1>2. Alike /\ sess' = sess
  BY <1>1, SameSessions DEF Base
<1>3. call[p].session \in created
  BY <1>1, KnownSession
<1>4. registered # None => registered \in created /\ registered \in Sessions
  BY DEF Base, Known, Shape
<1>5. UNCHANGED <<policy, created, userLock, userVars, refs, requests,
                  waiterVars, dataVars, boundVars, unheard, strays>>
  BY <1>1 DEF waiterVars
<1>6. CASE /\ registered = None /\ crashed' = TRUE
           /\ UNCHANGED <<registered, sessionLock, call, overtaken>>
  BY <1>1, <1>2, <1>3, <1>5, <1>6
<1>7. CASE /\ registered # None /\ Spare(registered)
           /\ sessionLock' = p
           /\ call' = [call EXCEPT ![p].pc = "peeking", ![p].peek = registered]
           /\ UNCHANGED <<registered, crashed, overtaken>>
  <2>1. PICK c \in CallT : c = [call[p] EXCEPT !.pc = "peeking", !.peek = registered]
    BY <1>4, <1>7 DEF Base, Shape, CallT, Pcs
  <2>2. /\ c.pc = "peeking" /\ c.session = call[p].session /\ c.then = call[p].then
        /\ c.leaving = call[p].leaving /\ c.peek = registered
        /\ c.aborting = call[p].aborting
    BY <2>1 DEF Base, Shape, CallT
  <2>3. call' = [call EXCEPT ![p] = c]
    BY <1>7, <2>1 DEF Base, Shape
  <2>4. Moved(p, "peeking", call[p].session, call[p].then,
                          call[p].leaving, registered, call[p].aborting)
    BY <2>2, <2>3, SetCall DEF Base
  <2>5. crashed' \in BOOLEAN
    BY <1>7 DEF Base, Shape
  <2> QED
    BY <1>1, <1>2, <1>3, <1>4, <1>5, <1>7, <2>4, <2>5
<1>8. CASE /\ registered # None /\ ~Spare(registered)
           /\ registered' = None
           /\ call' = [call EXCEPT ![p] = Left(call[p])]
           /\ overtaken' = (overtaken \/ (registered # call[p].session
                                          /\ ~Referenced(registered)))
           /\ UNCHANGED <<sessionLock, crashed>>
  <2>0. /\ ~Referenced(registered)
        /\ overtaken' = (overtaken \/ registered # call[p].session)
    BY <1>8 DEF Spare
  <2>1. Departs(p)
    BY <1>8, DepartsEffect DEF Base
  <2>2. crashed' \in BOOLEAN
    BY <1>8 DEF Base, Shape
  <2> QED
    BY <1>1, <1>2, <1>3, <1>4, <1>5, <1>8, <2>0, <2>1, <2>2, Zenon
<1> QED
  BY <1>6, <1>7, <1>8 DEF Unregister

LEMMA StopPeekingEffect ==
    ASSUME Base, NEW p \in Procs, StopPeeking(p)
    PROVE  /\ call[p].pc = "peeking" /\ call[p].peek \in created
           /\ call[p].session \in created
           /\ \/ /\ \E then \in Thens : /\ then \in {"leaving", call[p].then}
                                        /\ DidClose(p, call[p].peek, then)
                 /\ sessionLock' = p
              \/ /\ Alike \/ Dies(call[p].peek)
                 /\ StaysConnected /\ Departs(p) /\ sessionLock' = None
           /\ UNCHANGED <<policy, created, registered, userLock, userVars, refs,
                          requests, waiterVars, dataVars, crashed, boundVars, unheard,
                          overtaken, strays>>
<1> DEFINE s == call[p].peek
           c == Left(call[p])
<1>1. /\ call[p].pc = "peeking"
      /\ UNCHANGED <<policy, created, dataVars, asked, boundVars, strays, unheard>>
      /\ UNCHANGED <<registered, userLock, userVars, refs, requests, called, crashed>>
      /\ sessionLock' = IF call'[p].pc = "unregistering" THEN p ELSE None
  BY GoEffect DEF StopPeeking
<1>2. s \in created /\ s \in Sessions /\ call[p].session \in created
  BY <1>1, KnownSession
<1>3. ~call[p].leaving => call[p].aborting = {}
  BY DEF Base, Places, PlaceOf
<1>4. call[p] \in CallT
  BY DEF Base, Shape
<1>5. /\ c \in CallT /\ c.peek = None /\ c.pc \in Thens
      /\ c.pc \in {"leaving", call[p].then}
      /\ c.leaving = call[p].leaving /\ c.aborting = call[p].aborting
  BY <1>3, <1>4, LeftType DEF CallT
<1>6. ASSUME call' = [call EXCEPT ![p] = c]
      PROVE  Departs(p) /\ sessionLock' = None
  <2>1. Departs(p)
    BY <1>6, DepartsEffect DEF Base
  <2>2. call'[p].pc = c.pc
    BY <1>5, <1>6, SetCall DEF Base, Moved
  <2> QED
    BY <1>1, <1>5, <2>1, <2>2 DEF Thens
<1>7. ASSUME \E then \in Thens : DidClose(p, s, then)
      PROVE  sessionLock' = p
  BY <1>1, <1>7 DEF DidClose, Moved
<1> HIDE DEF c
<1>8. CASE Close(p, s, c)
  <2>1. /\ overtaken' = overtaken
        /\ \/ /\ MadeInactive(s, ops)
              /\ Moved(p, "unregistering", s, c.pc, TRUE, None,
                       call[p].aborting \cup sess[s].queue)
           \/ (Alike \/ Dies(s)) /\ StaysConnected /\ call' = [call EXCEPT ![p] = c]
           \/ /\ sess[s].state = "inactive" /\ Alike /\ StaysConnected
              /\ Moved(p, "unregistering", s, c.pc, c.leaving, c.peek, c.aborting)
    BY <1>2, <1>5, <1>8, CloseEffect DEF Base, StaysConnected
  <2>2. \/ DidClose(p, s, c.pc)
        \/ (Alike \/ Dies(s)) /\ StaysConnected /\ call' = [call EXCEPT ![p] = c]
    BY <1>5, <2>1 DEF DidClose, StaysConnected
  <2> QED
    BY <1>1, <1>2, <1>5, <1>6, <1>7, <2>1, <2>2 DEF waiterVars
<1>9. CASE call' = [call EXCEPT ![p] = c] /\ UNCHANGED <<sess, ops, closedAt, overtaken>>
  <2>1. Alike /\ sess' = sess
    BY <1>9, SameSessions DEF Base
  <2> QED
    BY <1>1, <1>2, <1>6, <1>9, <2>1 DEF waiterVars, StaysConnected
<1> QED
  BY <1>8, <1>9 DEF StopPeeking, c

(* Exactly the waiters in ws are told. *)
Told(ws) ==
    /\ called' \in [Waiters -> Nat]
    /\ \A w \in Waiters : called'[w] = IF w \in ws THEN called[w] + 1 ELSE called[w]

LEMMA TellEffect ==
    ASSUME Shape, NEW ws, Tell(ws)
    PROVE  Told(ws)
  BY DEF Shape, Tell, Told

LEMMA LeaveEffect ==
    ASSUME Base, NEW p \in Procs, Leave(p)
    PROVE  /\ call[p].pc = "leaving" /\ call[p].session \in created /\ Alike
           /\ sess'[call[p].session].connected = FALSE
           /\ OnlySession(call[p].session)
           /\ Told(call[p].aborting)
           /\ Fresh(p, call[p].then, IF call[p].then = "idle" THEN None ELSE call[p].session)
           /\ UNCHANGED <<policy, created, registered, lockVars, userVars, refs,
                          requests, asked, dataVars, crashed, boundVars, unheard,
                          overtaken, strays>>
<1> DEFINE s == call[p].session
<1>1. /\ call[p].pc = "leaving"
      /\ UNCHANGED <<policy, created, dataVars, asked, boundVars, strays, unheard>>
      /\ UNCHANGED <<registered, lockVars, userVars, refs, requests, ops, crashed,
                     closedAt, overtaken>>
      /\ Disconnect(s) /\ Tell(call[p].aborting) /\ To(p, call[p].then)
  BY GoEffect DEF Leave
<1>2. s \in created /\ s \in Sessions
  BY <1>1, KnownSession
<1>3. Alike /\ sess'[s].connected = FALSE /\ OnlySession(s)
  <2>1. sess \in [Sessions -> SessionT]
        /\ sess' = [sess EXCEPT ![s].connected = FALSE]
    BY <1>1 DEF Base, Shape, Disconnect
  <2>2. /\ sess' \in [Sessions -> SessionT] /\ sess'[s].connected = FALSE
        /\ \A r \in Sessions : r # s => sess'[r] = sess[r]
    BY <1>2, <2>1 DEF SessionT
  <2>3. \A r \in Sessions :
         /\ sess'[r].state = sess[r].state /\ sess'[r].linked = sess[r].linked
         /\ sess'[r].deferredCommit = sess[r].deferredCommit
         /\ sess'[r].deaths = sess[r].deaths /\ sess'[r].queue = sess[r].queue
         /\ sess'[r].announced = sess[r].announced
    BY <1>2, <2>1 DEF SessionT
  <2> QED
    BY <1>1, <2>2, <2>3 DEF Alike, OnlySession
<1>4. Told(call[p].aborting)
  BY <1>1, TellEffect DEF Base
<1>5. call[p].then \in Pcs
  BY DEF Base, Shape, CallT, Thens, Pcs
<1>6. Fresh(p, call[p].then, IF call[p].then = "idle" THEN None ELSE call[p].session)
  BY <1>1, <1>5, ToEffect DEF Base
<1> QED
  BY <1>1, <1>2, <1>3, <1>4, <1>6

LEMMA FinishLogOutEffect ==
    ASSUME Base, NEW p \in Procs, FinishLogOut(p)
    PROVE  /\ Alike /\ sess' = sess /\ call[p].pc = "logged_out"
           /\ waiting' \in created /\ userSession' = None /\ userLock' = None
           /\ Thinned /\ Fresh(p, "idle", None)
           /\ UNCHANGED <<policy, created, registered, sessionLock, userState, refs,
                          waiterVars, dataVars, crashed, boundVars, unheard,
                          overtaken, strays>>
<1>1. /\ call[p].pc = "logged_out"
      /\ UNCHANGED <<policy, created, dataVars, asked, boundVars, strays, unheard>>
      /\ UNCHANGED <<sess, registered, sessionLock, userState, refs, ops, called,
                     crashed, closedAt, overtaken>>
      /\ waiting' = call[p].session /\ userSession' = None /\ userLock' = None
      /\ requests' = LetGo(requests)
      /\ To(p, "idle")
  BY GoEffect DEF FinishLogOut
<1>2. Alike /\ sess' = sess
  BY <1>1, SameSessions DEF Base
<1>3. call[p].session \in created
  BY <1>1, KnownSession
<1>4. Fresh(p, "idle", None)
  BY <1>1, ToEffect DEF Base, Pcs
<1> QED
  BY <1>1, <1>2, <1>3, <1>4, WeakRequests DEF waiterVars, Base

(* LogOutSession, Suspend, UpdateConfiguration: the session is made         *)
(* inactive, or is so. *)
Quits(p, then, pc) ==
    /\ call[p].session \in created
    /\ \/ /\ MadeInactive(call[p].session, ops)
          /\ Moved(p, "unregistering", call[p].session, then, TRUE, None,
                   call[p].aborting \cup sess[call[p].session].queue)
       \/ /\ Alike /\ sess' = sess
          /\ Fresh(p, pc, IF pc = "idle" THEN None ELSE call[p].session)
    /\ UNCHANGED <<policy, created, registered, lockVars, userVars, refs, requests,
                   waiterVars, dataVars, crashed, boundVars, unheard, overtaken,
                   strays>>

LEMMA QuitsEffect ==
    ASSUME Base, NEW p \in Procs,
           LogOutSession(p) \/ Suspend(p) \/ UpdateConfiguration(p)
    PROVE  \/ call[p].pc = "logging_out" /\ Quits(p, "logged_out", "logged_out")
           \/ call[p].pc = "suspending" /\ Quits(p, "idle", "idle")
           \/ call[p].pc = "reconfiguring" /\ Quits(p, "reconfiguring", "reviving")
<1>1. CASE LogOutSession(p)
  <2>1. /\ call[p].pc = "logging_out"
        /\ UNCHANGED <<policy, created, dataVars, asked, boundVars, strays, unheard>>
        /\ UNCHANGED <<registered, lockVars, userVars, refs, requests, called, crashed>>
        /\ LogOut(p, call[p].session, "logged_out")
    BY <1>1, GoEffect DEF LogOutSession
  <2>2. call[p].session \in created /\ call[p].session \in Sessions
    BY <2>1, KnownSession
  <2> QED
    BY <2>1, <2>2, LogOutEffect DEF Base, Quits, Thens, waiterVars
<1>2. CASE Suspend(p)
  <2>1. /\ call[p].pc = "suspending"
        /\ UNCHANGED <<policy, created, dataVars, asked, boundVars, strays, unheard>>
        /\ UNCHANGED <<registered, lockVars, userVars, refs, requests, called, crashed>>
        /\ LogOut(p, call[p].session, "idle")
    BY <1>2, GoEffect DEF Suspend
  <2>2. call[p].session \in created /\ call[p].session \in Sessions
    BY <2>1, KnownSession
  <2> QED
    BY <2>1, <2>2, LogOutEffect DEF Base, Quits, Thens, waiterVars
<1>3. CASE UpdateConfiguration(p)
  <2> DEFINE s == call[p].session
  <2>1. /\ call[p].pc = "reconfiguring"
        /\ UNCHANGED <<policy, created, dataVars, asked, boundVars, strays, unheard>>
        /\ UNCHANGED <<registered, lockVars, userVars, refs, requests, called, crashed>>
    BY <1>3, GoEffect DEF UpdateConfiguration
  <2>2. s \in created /\ s \in Sessions
    BY <2>1, KnownSession
  <2>3. CASE Inactivate(p, s, "reconfiguring")
    BY <2>1, <2>2, <2>3, InactivateEffect DEF Base, Quits, Thens, waiterVars
  <2>4. CASE To(p, "reviving") /\ UNCHANGED <<sess, ops, closedAt, overtaken>>
    <3>1. Alike /\ sess' = sess
      BY <2>4, SameSessions DEF Base
    <3>2. Fresh(p, "reviving", s)
      BY <2>4, ToEffect DEF Base, Pcs
    <3> QED
      BY <2>1, <2>2, <2>4, <3>1, <3>2 DEF Quits, waiterVars
  <2> QED
    BY <1>3, <2>3, <2>4 DEF UpdateConfiguration
<1> QED
  BY <1>1, <1>2, <1>3

(* A session is told of a commit. *)
Notified(s) ==
    /\ OnlySession(s) /\ ops' = ops /\ closedAt' = closedAt
    /\ sess'[s].state = sess[s].state /\ sess'[s].linked = sess[s].linked
    /\ sess'[s].connected = sess[s].connected
    /\ sess'[s].queue = sess[s].queue /\ sess'[s].deaths = sess[s].deaths
    /\ sess'[s].announced = IF sess[s].state = "active" THEN committed
                            ELSE sess[s].announced
    /\ sess'[s].deferredCommit = IF sess[s].state = "waiting" THEN committed
                                 ELSE sess[s].deferredCommit

LEMMA NotifySessionEffect ==
    ASSUME Base, NEW p \in Procs, NotifySession(p)
    PROVE  /\ call[p].pc = "notifying" /\ call[p].session \in created
           /\ Notified(call[p].session) /\ Fresh(p, "idle", None)
           /\ unheard' = (unheard \/ sess[call[p].session].state = "dying")
           /\ UNCHANGED <<policy, created, registered, lockVars, userVars, refs,
                          requests, waiterVars, dataVars, crashed, boundVars,
                          overtaken, strays>>
<1> DEFINE s == call[p].session
<1>1. /\ call[p].pc = "notifying"
      /\ UNCHANGED <<policy, created, dataVars, asked, boundVars, strays>>
      /\ UNCHANGED <<registered, lockVars, userVars, refs, requests, ops, called,
                     crashed, closedAt, overtaken>>
      /\ To(p, "idle")
      /\ sess' = [sess EXCEPT
             ![s].announced = IF sess[s].state = "active" THEN committed ELSE @,
             ![s].deferredCommit = IF sess[s].state = "waiting" THEN committed ELSE @]
  BY GoEffect DEF NotifySession
<1>2. s \in created /\ s \in Sessions
  BY <1>1, KnownSession
<1>3. unheard' = (unheard \/ sess[s].state = "dying")
  BY Zenon DEF NotifySession
<1>4. Fresh(p, "idle", None)
  BY <1>1, ToEffect DEF Base, Pcs
<1>5. Notified(s)
  <2>0. sess \in [Sessions -> SessionT] /\ committed \in Nat
    BY DEF Base, Shape
  <2>1. PICK a \in Nat : a = IF sess[s].state = "active" THEN committed
                             ELSE sess[s].announced
    BY <1>2, <2>0 DEF SessionT
  <2>2. PICK d \in Nat : d = IF sess[s].state = "waiting" THEN committed
                             ELSE sess[s].deferredCommit
    BY <1>2, <2>0 DEF SessionT
  <2>3. PICK n \in SessionT : n = [sess[s] EXCEPT !.announced = a, !.deferredCommit = d]
    BY <1>2, <2>0 DEF SessionT
  <2>4. sess' = [sess EXCEPT ![s] = n]
    BY <1>1, <2>1, <2>2, <2>3
  <2>5. OnlySession(s) /\ sess'[s] = n
    BY <1>2, <2>0, <2>4 DEF OnlySession
  <2>6. /\ n.state = sess[s].state /\ n.linked = sess[s].linked
        /\ n.connected = sess[s].connected /\ n.queue = sess[s].queue
        /\ n.deaths = sess[s].deaths /\ n.announced = a /\ n.deferredCommit = d
    BY <1>2, <2>0, <2>3 DEF SessionT
  <2> QED
    BY <1>1, <2>1, <2>2, <2>5, <2>6 DEF Notified
<1>6. UNCHANGED <<policy, created, registered, lockVars, userVars, refs,
                  requests, waiterVars, dataVars, crashed, boundVars, overtaken, strays>>
  BY <1>1 DEF waiterVars
<1> QED
  BY <1>1, <1>2, <1>3, <1>4, <1>5, <1>6, Zenon

-----------------------------------------------------------------------------
(* The servers' answers, and the client thread *)

LEMMA TokenArrivesEffect ==
    ASSUME Base, NEW r \in requests, TokenArrives(r)
    PROVE  /\ \/ \E s \in created : sess[s].state = "waiting" /\ Bound(s)
              \/ Alike /\ sess' = sess
           /\ requests' \subseteq requests
           /\ UNCHANGED <<policy, created, registered, lockVars, userVars, refs, call,
                          waiterVars, dataVars, crashed, boundVars, unheard,
                          overtaken, strays>>
<1>1. r.session \in created /\ created \subseteq Sessions
  BY DEF Base, Known, Shape
<1>2. CASE sess[r.session].state = "waiting" /\ Bind(r.session)
  <2>1. Bound(r.session)
    BY <1>1, <1>2, BindEffect DEF Base
  <2>2. requests' \subseteq requests
        /\ UNCHANGED <<policy, created, registered, lockVars, userVars, refs, call,
                       waiterVars, dataVars, crashed, boundVars, unheard,
                       overtaken, strays>>
    BY DEF TokenArrives
  <2> QED
    BY <1>1, <1>2, <2>1, <2>2
<1>3. CASE UNCHANGED <<sess, ops, closedAt>>
  BY <1>3, SameSessions DEF Base, TokenArrives
<1> QED
  BY <1>2, <1>3 DEF TokenArrives

LEMMA ServerUnreachableEffect ==
    ASSUME Base, NEW r \in requests, ServerUnreachable(r)
    PROVE  /\ Alike /\ sess' = sess /\ Thinned
           /\ UNCHANGED <<policy, created, registered, lockVars, userVars, refs, call,
                          waiterVars, dataVars, crashed, boundVars, unheard,
                          overtaken, strays>>
<1>1. [r EXCEPT !.strong = FALSE] \in RequestT
      /\ [r EXCEPT !.strong = FALSE].session = r.session
  BY DEF Base, Shape, RequestT
<1>2. Thinned
  BY <1>1 DEF ServerUnreachable, Thinned, Base, Shape
<1>3. Alike /\ sess' = sess
  BY SameSessions DEF ServerUnreachable, Base, histVars
<1> QED
  BY <1>2, <1>3 DEF ServerUnreachable, histVars

LEMMA UploadEffect ==
    ASSUME Base, NEW s \in Sessions, Upload(s)
    PROVE  /\ Alike /\ sess' = sess /\ uploaded' = sess[s].announced
           /\ UNCHANGED <<policy, created, registered, lockVars, userVars, refs, call,
                          requests, waiterVars, committed, crashed, boundVars,
                          unheard, overtaken, strays>>
<1>1. Alike /\ sess' = sess
  BY SameSessions DEF Upload, Base, histVars
<1> QED
  BY <1>1 DEF Upload, histVars

LEMMA ClientIsProc == Client \in Procs
  BY DEF Procs

LEMMA ClientEffect ==
    ASSUME NEW pc, ClientStep(pc)
    PROVE  /\ call[Client].pc = pc
           /\ UNCHANGED <<policy, created, registered, sessionLock, userLock,
                          userSession, waiting, refs, dataVars, asked, crashed,
                          calls, unheard>>
  BY DEF ClientStep, At

LEMMA ListenerCalledEffect ==
    ASSUME Base, ListenerCalled
    PROVE  /\ Alike /\ sess' = sess /\ call[Client].pc = "idle"
           /\ \E s \in created : Fresh(Client, "listening", s)
           /\ errors' \in {errors, errors + 1} /\ (errors' = errors + 1 => errors < MaxErrors)
           /\ UNCHANGED <<policy, created, registered, lockVars, userVars, refs,
                          requests, waiterVars, dataVars, crashed, calls, unheard,
                          overtaken, strays>>
<1>1. /\ call[Client].pc = "idle"
      /\ UNCHANGED <<policy, created, registered, sessionLock, userLock,
                          userSession, waiting, refs, dataVars, asked, crashed,
                          calls, unheard>>
      /\ UNCHANGED <<sess, userState, requests, ops, called, histVars>>
  BY ClientEffect DEF ListenerCalled
<1>2. PICK s \in Sessions, e \in Errors \cup {"connected", "disconnected"} :
         /\ Linked(s)
         /\ e \in Errors => errors < MaxErrors
         /\ errors' = IF e \in Errors THEN errors + 1 ELSE errors
         /\ call' = [call EXCEPT ![Client] =
              [Idle EXCEPT !.pc = "listening", !.session = s, !.event = e]]
  BY Zenon DEF ListenerCalled
<1>3. s \in created
  BY <1>2, AliveIsKnown DEF Linked
<1>4. PICK c \in CallT : c = [Idle EXCEPT !.pc = "listening", !.session = s, !.event = e]
  BY IdleType DEF Idle, CallT, Pcs
<1>5. /\ c.pc = "listening" /\ c.session = s /\ c.then = "idle" /\ c.leaving = FALSE
      /\ c.peek = None /\ c.aborting = {}
  BY <1>4 DEF Idle
<1>6. Fresh(Client, "listening", s)
  BY <1>2, <1>4, <1>5, SetCall, ClientIsProc DEF Base, Fresh
<1>7. Alike /\ sess' = sess
  BY <1>1, SameSessions DEF Base, histVars
<1>8. errors' \in {errors, errors + 1} /\ (errors' = errors + 1 => errors < MaxErrors)
  BY <1>2 DEF Base, Shape
<1> QED
  BY <1>1, <1>3, <1>6, <1>7, <1>8 DEF histVars, lockVars, userVars, waiterVars

(* The client's call is at pc, and what else it holds is left. *)
LEMMA SetClientPc ==
    ASSUME Base, NEW pc \in Pcs, call' = [call EXCEPT ![Client].pc = pc],
           call[Client].pc \notin Exits
    PROVE  Moved(Client, pc, call[Client].session, call[Client].then, FALSE, None, {})
<1>1. call[Client] \in CallT
  BY ClientIsProc DEF Base, Shape
<1>2. PICK c \in CallT : c = [call[Client] EXCEPT !.pc = pc]
  BY <1>1 DEF CallT
<1>3. call' = [call EXCEPT ![Client] = c]
  BY <1>2 DEF Base, Shape
<1>4. /\ c.pc = pc /\ c.session = call[Client].session /\ c.then = call[Client].then
      /\ c.leaving = call[Client].leaving /\ c.peek = call[Client].peek
      /\ c.aborting = call[Client].aborting
  BY <1>1, <1>2 DEF CallT
<1>5. /\ call[Client].leaving = FALSE /\ call[Client].peek = None
      /\ call[Client].aborting = {}
  BY <1>1, ClientIsProc DEF Base, Places, PlaceOf, Exits, CallT
<1> QED
  <2> HIDE <1>2
  <2>1. Moved(Client, c.pc, c.session, c.then, c.leaving, c.peek, c.aborting)
    BY <1>3, SetCall, ClientIsProc DEF Base
  <2> QED
    BY <1>4, <1>5, <2>1

(* The client goes on at pc with the session it has. *)
Continues(pc) ==
    Moved(Client, pc, call[Client].session, call[Client].then, FALSE, None, {})

LEMMA ListenEffect ==
    ASSUME Base, Listen
    PROVE  /\ call[Client].pc = "listening" /\ call[Client].session \in created
           /\ Alike /\ OnlySession(call[Client].session)
           /\ strays' = IF sess[call[Client].session].linked THEN strays
                        ELSE strays \cup {call[Client].session}
           /\ Continues("erring") \/ Fresh(Client, "idle", None)
           /\ UNCHANGED <<policy, created, registered, lockVars, userVars, refs,
                          requests, waiterVars, dataVars, crashed, boundVars, unheard,
                          overtaken>>
<1> DEFINE s == call[Client].session  e == call[Client].event
<1>1. /\ call[Client].pc = "listening"
      /\ UNCHANGED <<policy, created, registered, sessionLock, userLock,
                          userSession, waiting, refs, dataVars, asked, crashed,
                          calls, unheard>>
      /\ UNCHANGED <<userState, requests, ops, called, errors, closedAt, overtaken>>
  BY ClientEffect DEF Listen
<1>2. s \in created /\ s \in Sessions
  BY <1>1, KnownSession, ClientIsProc
<1>3. strays' = IF sess[s].linked THEN strays ELSE strays \cup {s}
  BY Zenon DEF Listen
<1>4. Alike /\ OnlySession(s)
  <2>1. PICK b \in BOOLEAN : b = (e = "connected")
    OBVIOUS
  <2>2. sess \in [Sessions -> SessionT] /\ sess' = [sess EXCEPT ![s].connected = b]
    BY <2>1, Zenon DEF Base, Shape, Listen
  <2>3. /\ sess' \in [Sessions -> SessionT]
        /\ \A r \in Sessions : r # s => sess'[r] = sess[r]
    BY <1>2, <2>2 DEF SessionT
  <2>4. \A r \in Sessions :
         /\ sess'[r].state = sess[r].state /\ sess'[r].linked = sess[r].linked
         /\ sess'[r].deferredCommit = sess[r].deferredCommit
         /\ sess'[r].deaths = sess[r].deaths /\ sess'[r].queue = sess[r].queue
         /\ sess'[r].announced = sess[r].announced
    BY <1>2, <2>2 DEF SessionT
  <2> QED
    BY <1>1, <2>3, <2>4 DEF Alike, OnlySession
<1>5. \/ call' = [call EXCEPT ![Client] = [call[Client] EXCEPT !.pc = "erring"]]
      \/ call' = [call EXCEPT ![Client] = Idle]
  BY DEF Listen
<1>6. CASE call' = [call EXCEPT ![Client] = [call[Client] EXCEPT !.pc = "erring"]]
  <2>1. call' = [call EXCEPT ![Client].pc = "erring"]
    BY <1>6
  <2>2. Continues("erring")
    BY <1>1, <2>1, SetClientPc DEF Continues, Pcs, Exits
  <2> QED
    BY <1>1, <1>2, <1>3, <1>4, <2>2 DEF lockVars, userVars, waiterVars, boundVars
<1>7. CASE call' = [call EXCEPT ![Client] = Idle]
  <2>1. Fresh(Client, "idle", None)
    BY <1>7, IdleType, SetCall, ClientIsProc DEF Base, Fresh, Idle
  <2> QED
    BY <1>1, <1>2, <1>3, <1>4, <2>1 DEF lockVars, userVars, waiterVars, boundVars
<1> QED
  BY <1>5, <1>6, <1>7

LEMMA HandleErrorEffect ==
    ASSUME Base, HandleError
    PROVE  /\ call[Client].pc = "erring" /\ call[Client].session \in created
           /\ \/ Alike /\ sess' = sess /\ (Fresh(Client, "idle", None) \/ Continues("responding"))
              \/ /\ MadeInactive(call[Client].session, ops)
                 /\ Moved(Client, "unregistering", call[Client].session, "idle", TRUE, None,
                          call[Client].aborting \cup sess[call[Client].session].queue)
           /\ UNCHANGED <<policy, created, registered, lockVars, userVars, refs,
                          requests, waiterVars, dataVars, crashed, boundVars, unheard,
                          overtaken, strays>>
<1> DEFINE s == call[Client].session
<1>1. /\ call[Client].pc = "erring"
      /\ UNCHANGED <<policy, created, registered, sessionLock, userLock,
                          userSession, waiting, refs, dataVars, asked, crashed,
                          calls, unheard>>
      /\ UNCHANGED <<userState, requests, called, errors, strays>>
  BY ClientEffect DEF HandleError
<1>2. s \in created /\ s \in Sessions
  BY <1>1, KnownSession, ClientIsProc
<1>3. CASE To(Client, "idle") /\ UNCHANGED <<sess, ops, closedAt, overtaken>>
  <2>1. Fresh(Client, "idle", None)
    BY <1>3, ToEffect, ClientIsProc DEF Base, Pcs
  <2>2. Alike /\ sess' = sess
    BY <1>3, SameSessions DEF Base
  <2> QED
    BY <1>1, <1>2, <1>3, <2>1, <2>2 DEF lockVars, userVars, waiterVars, boundVars
<1>4. CASE Inactivate(Client, s, "idle")
  <2>1. "idle" \in Thens
    BY DEF Thens
  <2> QED
    BY <1>1, <1>2, <1>4, <2>1, InactivateEffect, ClientIsProc
       DEF Base, lockVars, userVars, waiterVars, boundVars
<1>5. CASE /\ call' = [call EXCEPT ![Client].pc = "responding"]
           /\ UNCHANGED <<sess, ops, closedAt, overtaken>>
  <2>1. Continues("responding")
    BY <1>1, <1>5, SetClientPc DEF Continues, Pcs, Exits
  <2>2. Alike /\ sess' = sess
    BY <1>5, SameSessions DEF Base
  <2> QED
    BY <1>1, <1>2, <1>5, <2>1, <2>2 DEF lockVars, userVars, waiterVars, boundVars
<1> QED
  BY <1>3, <1>4, <1>5 DEF HandleError

(* An active session whose token expired waits for another. *)
Expired(s) ==
    /\ OnlySession(s) /\ SameData(s) /\ sess[s].state = "active"
    /\ sess'[s].state = "waiting" /\ sess'[s].linked = sess[s].linked
    /\ sess'[s].queue = sess[s].queue /\ sess'[s].deaths = sess[s].deaths
    /\ ops' = ops /\ closedAt' = closedAt /\ called' = called

(* The waiters in the queue of a session are told that they are cancelled. *)
Cancelled(s) ==
    /\ OnlySession(s) /\ SameData(s) /\ sess'[s].state = sess[s].state
    /\ sess'[s].linked = sess[s].linked /\ sess'[s].queue = {}
    /\ sess'[s].deaths = sess[s].deaths
    /\ ops' = ops /\ closedAt' = closedAt /\ Told(sess[s].queue)

LEMMA RespondToErrorEffect ==
    ASSUME Base, RespondToError
    PROVE  /\ call[Client].pc = "responding" /\ call[Client].session \in created
           /\ \/ /\ Alike /\ sess' = sess /\ called' = called
                 /\ Fresh(Client, "idle", None)
              \/ /\ Expired(call[Client].session)
                 /\ Fresh(Client, "asking", call[Client].session)
              \/ /\ Cancelled(call[Client].session)
                 /\ \/ Fresh(Client, "idle", None)
                    \/ Fresh(Client, "invalidating", call[Client].session)
              \/ /\ MadeInactive(call[Client].session, ops) /\ called' = called
                 /\ Moved(Client, "unregistering", call[Client].session, "idle", TRUE, None,
                          call[Client].aborting \cup sess[call[Client].session].queue)
           /\ UNCHANGED <<policy, created, registered, lockVars, userVars, refs,
                          requests, asked, dataVars, crashed, boundVars, unheard,
                          overtaken, strays>>
<1> DEFINE s == call[Client].session
<1>1. /\ call[Client].pc = "responding"
      /\ UNCHANGED <<policy, created, registered, sessionLock, userLock,
                          userSession, waiting, refs, dataVars, asked, crashed,
                          calls, unheard>>
      /\ UNCHANGED <<userState, errors, strays>>
  BY ClientEffect DEF RespondToError
<1>2. s \in created /\ s \in Sessions
  BY <1>1, KnownSession, ClientIsProc
<1>3. ASSUME To(Client, "idle") PROVE Fresh(Client, "idle", None)
  BY <1>3, ToEffect, ClientIsProc DEF Base, Pcs
<1>4. ASSUME UNCHANGED <<sess, ops, closedAt>> PROVE Alike /\ sess' = sess
  BY <1>4, SameSessions DEF Base
<1>5. requests' = requests
  BY DEF RespondToError, TokenExpired, CancelPendingWaits
<1>6. CASE TokenExpired(s)
  <2>1. UNCHANGED <<ops, called, closedAt, overtaken>>
    BY <1>6 DEF TokenExpired
  <2>2. CASE /\ sess[s].state = "active"
             /\ sess' = [sess EXCEPT ![s].state = "waiting", ![s].deferredClose = FALSE]
             /\ To(Client, "asking")
    <3>1. /\ OnlySession(s) /\ SameData(s)
          /\ sess'[s].state = "waiting" /\ sess'[s].linked = sess[s].linked
          /\ sess'[s].queue = sess[s].queue /\ sess'[s].deaths = sess[s].deaths
      <4>1. sess \in [Sessions -> SessionT]
        BY DEF Base, Shape
      <4>2. sess'[s] = [sess[s] EXCEPT !.state = "waiting", !.deferredClose = FALSE]
            /\ \A r \in Sessions : r # s => sess'[r] = sess[r]
        BY <1>2, <2>2, <4>1
      <4>3. sess' \in [Sessions -> SessionT]
        BY <1>2, <2>2, <4>1 DEF SessionT, States
      <4>4. sess[s] \in SessionT
        BY <1>2, <4>1
      <4> QED
        BY <4>2, <4>3, <4>4 DEF OnlySession, SameData, SessionT
    <3>2. Expired(s)
      BY <2>1, <2>2, <3>1 DEF Expired
    <3>3. Fresh(Client, "asking", s)
      BY <2>2, ToEffect, ClientIsProc DEF Base, Pcs
    <3> QED
      BY <1>1, <1>2, <1>5, <2>1, <3>2, <3>3 DEF lockVars, userVars, boundVars
  <2>3. CASE UNCHANGED sess /\ To(Client, "idle")
    BY <1>1, <1>2, <1>3, <1>4, <1>5, <2>1, <2>3 DEF lockVars, userVars, boundVars
  <2> QED
    BY <1>6, <2>2, <2>3 DEF TokenExpired
<1>7. ASSUME NEW pc \in {"idle", "invalidating"}, CancelPendingWaits(s, pc)
      PROVE  /\ Cancelled(s) /\ UNCHANGED overtaken
             /\ Fresh(Client, "idle", None) \/ Fresh(Client, "invalidating", s)
  <2>1. /\ sess' = [sess EXCEPT ![s].queue = {}] /\ Tell(sess[s].queue)
        /\ To(Client, pc) /\ UNCHANGED <<requests, ops, closedAt, overtaken>>
    BY <1>7 DEF CancelPendingWaits
  <2>2. /\ OnlySession(s) /\ SameData(s) /\ sess'[s].state = sess[s].state
        /\ sess'[s].linked = sess[s].linked /\ sess'[s].queue = {}
        /\ sess'[s].deaths = sess[s].deaths
    BY <1>2, <2>1 DEF OnlySession, SameData, Base, Shape, SessionT
  <2>3. Cancelled(s)
    BY <2>1, <2>2, TellEffect DEF Cancelled, Base
  <2>4. CASE pc = "idle"
    BY <1>3, <2>1, <2>3, <2>4
  <2>5. CASE pc = "invalidating"
    <3>1. Fresh(Client, "invalidating", s)
      BY <2>1, <2>5, ToEffect, ClientIsProc DEF Base, Pcs
    <3> QED
      BY <2>1, <2>3, <3>1
  <2> QED
    BY <2>4, <2>5
<1>8. CASE CancelPendingWaits(s, "invalidating") \/ CancelPendingWaits(s, "idle")
  BY <1>1, <1>2, <1>5, <1>7, <1>8 DEF lockVars, userVars, boundVars
<1>9. CASE Inactivate(Client, s, "idle") /\ UNCHANGED <<requests, called>>
  <2>1. "idle" \in Thens
    BY DEF Thens
  <2> QED
    BY <1>1, <1>2, <1>5, <1>9, <2>1, InactivateEffect, ClientIsProc
       DEF Base, lockVars, userVars, boundVars
<1>10. CASE To(Client, "idle") /\ UNCHANGED <<sess, requests, ops, called, closedAt, overtaken>>
  BY <1>1, <1>2, <1>3, <1>4, <1>5, <1>10 DEF lockVars, userVars, boundVars
<1> QED
  BY <1>6, <1>8, <1>9, <1>10 DEF RespondToError

LEMMA InvalidateUserEffect ==
    ASSUME Base, InvalidateUser
    PROVE  /\ Alike /\ sess' = sess /\ call[Client].pc = "invalidating"
           /\ Fresh(Client, "idle", None) /\ userState' = "Error"
           /\ UNCHANGED <<policy, created, registered, lockVars, userSession, waiting,
                          refs, requests, waiterVars, dataVars, crashed, boundVars,
                          unheard, overtaken, strays>>
<1>1. /\ call[Client].pc = "invalidating"
      /\ UNCHANGED <<policy, created, registered, sessionLock, userLock,
                          userSession, waiting, refs, dataVars, asked, crashed,
                          calls, unheard>>
      /\ userState' = "Error" /\ To(Client, "idle")
      /\ UNCHANGED <<sess, requests, ops, called, errors, histVars>>
  BY ClientEffect DEF InvalidateUser
<1>2. Fresh(Client, "idle", None)
  BY <1>1, ToEffect, ClientIsProc DEF Base, Pcs
<1>3. Alike /\ sess' = sess
  BY <1>1, SameSessions DEF Base, histVars
<1> QED
  BY <1>1, <1>2, <1>3 DEF lockVars, waiterVars, boundVars, histVars

(* A wait operation is done. *)
Done(o) ==
    LET s == o.session
    IN  \/ /\ o.waiter # None /\ sess' = sess /\ call' = call
           /\ ops' = ops \ {o} /\ Told({o.waiter})
        \/ /\ o.waiter = None /\ sess' = sess /\ call' = call
           /\ ops' = ops \ {o} /\ called' = called
        \/ /\ o.waiter = None /\ called' = called
           /\ sess[s].state = "dying" /\ sess[s].deaths = o.death
           /\ o.aborted \/ uploaded >= o.version
           /\ MadeInactive(s, ops \ {o})
           /\ Moved(Client, "unregistering", s, "idle", TRUE, None, sess[s].queue)

LEMMA CompleteWaitEffect ==
    ASSUME Base, CompleteWait
    PROVE  /\ call[Client].pc = "idle" /\ closedAt' = closedAt
           /\ \E o \in ops : o.session \in created /\ Done(o)
           /\ UNCHANGED <<policy, created, registered, lockVars, userVars, refs,
                          requests, asked, dataVars, crashed, boundVars, unheard,
                          overtaken, strays>>
<1>1. /\ call[Client].pc = "idle"
      /\ UNCHANGED <<policy, created, registered, sessionLock, userLock,
                          userSession, waiting, refs, dataVars, asked, crashed,
                          calls, unheard>>
      /\ UNCHANGED <<userState, requests, errors, histVars>>
  BY ClientEffect DEF CompleteWait
<1>2. PICK o \in ops :
         LET s == o.session
         IN  /\ o.aborted \/ ~Alive(s) \/ uploaded >= o.version
             /\ \/ /\ o.waiter # None
                   /\ Tell({o.waiter})
                   /\ ops' = ops \ {o}
                   /\ UNCHANGED <<sess, call>>
                \/ /\ o.waiter = None /\ Alive(s) /\ IsDeathOf(s, o.death)
                   /\ sess' = [sess EXCEPT ![s].state = "inactive", ![s].linked = FALSE,
                                           ![s].queue = Emptied(s)]
                   /\ ops' = Aborted(s, ops \ {o})
                   /\ call' = [call EXCEPT ![Client] =
                        [Idle EXCEPT !.pc = "unregistering", !.session = s,
                                     !.leaving = TRUE, !.aborting = sess[s].queue]]
                   /\ UNCHANGED called
                \/ /\ o.waiter = None /\ ~(Alive(s) /\ IsDeathOf(s, o.death))
                   /\ ops' = ops \ {o}
                   /\ UNCHANGED <<sess, call, called>>
  BY Zenon DEF CompleteWait
<1> DEFINE s == o.session
<1>3. s \in created /\ s \in Sessions
  BY DEF Base, Known, Shape
<1>4. ASSUME o.waiter # None, Tell({o.waiter}), ops' = ops \ {o},
             UNCHANGED <<sess, call>>
      PROVE  Done(o)
  <2>1. Told({o.waiter})
    BY <1>4, TellEffect DEF Base
  <2> QED
    BY <1>4, <2>1 DEF Done
<1>5. ASSUME o.waiter = None, ops' = ops \ {o}, UNCHANGED <<sess, call, called>>
      PROVE  Done(o)
  BY <1>5 DEF Done
<1>6. ASSUME o.waiter = None, Alive(s), IsDeathOf(s, o.death),
             sess' = [sess EXCEPT ![s].state = "inactive", ![s].linked = FALSE,
                                  ![s].queue = Emptied(s)],
             ops' = Aborted(s, ops \ {o}),
             call' = [call EXCEPT ![Client] =
                [Idle EXCEPT !.pc = "unregistering", !.session = s,
                             !.leaving = TRUE, !.aborting = sess[s].queue]],
             UNCHANGED called
      PROVE  Done(o)
  <2>1. sess' = [sess EXCEPT ![s].state = "inactive", ![s].linked = FALSE, ![s].queue = {}]
    BY <1>6 DEF Emptied
  <2>2. MadeInactive(s, ops \ {o})
    <3>1. closedAt' = closedAt
      BY <1>1 DEF histVars
    <3> HIDE DEF s
    <3> QED
      BY <1>3, <1>6, <2>1, <3>1, MakeInactive DEF Base
  <2>3. PICK c \in CallT : c = [Idle EXCEPT !.pc = "unregistering", !.session = s,
                                  !.leaving = TRUE, !.aborting = sess[s].queue]
    <3>1. sess[s].queue \in SUBSET Waiters
      BY <1>3 DEF Base, Shape, SessionT
    <3> QED
      BY <1>3, <3>1, IdleType DEF Idle, CallT, Pcs
  <2>4. /\ c.pc = "unregistering" /\ c.session = s /\ c.then = "idle"
        /\ c.leaving = TRUE /\ c.peek = None /\ c.aborting = sess[s].queue
    BY <2>3 DEF Idle
  <2>5. Moved(Client, "unregistering", s, "idle", TRUE, None, sess[s].queue)
    BY <1>6, <2>3, <2>4, SetCall, ClientIsProc DEF Base
  <2>6. o.aborted \/ uploaded >= o.version
    BY <1>2, <1>6
  <2> QED
    BY <1>6, <2>2, <2>5, <2>6 DEF Done, IsDeathOf
<1>7. Done(o)
  BY <1>2, <1>4, <1>5, <1>6, Zenon
<1> QED
  BY <1>1, <1>3, <1>7 DEF lockVars, userVars, boundVars, histVars

-----------------------------------------------------------------------------
(* The inductive invariant: Shape, Known and Places of the first part,      *)
(* the bounds, and what the properties need *)

(* Versions and bounds *)
Bounded ==
    /\ committed <= calls /\ calls <= MaxCalls /\ errors <= MaxErrors
    /\ uploaded <= committed
    /\ \A s \in Sessions : sess[s].announced <= committed
                           /\ sess[s].deferredCommit <= committed
    /\ \A o \in ops : o.version <= committed

(* Processes that may yet revive a session: each has a call of its own. *)
MayRevive == {p \in Procs : call[p].pc \in {"registering", "reviving", "reconfiguring"}
                            \/ call[p].then = "reconfiguring"}

(* Between two deaths a session is revived, by a call. *)
DeathsCounted ==
    /\ IsFiniteSet(MayRevive)
    /\ \A s \in Sessions :
         sess[s].deaths + (IF sess[s].state \in {"waiting", "active"} THEN 1 ELSE 0)
           + Cardinality(MayRevive) <= calls
    /\ \A o \in ops : o.death <= sess[o.session].deaths

(* A session in use is the one of the map. *)
InUseIsRegistered ==
    ~overtaken =>
      /\ \A s \in Sessions : sess[s].state # "inactive" => s = registered
      /\ \A p \in Procs : call[p].pc \in Exits => sess[call[p].session].state = "inactive"

(* Each waiter is in one place. *)
Queues(w) == {s \in Sessions : w \in sess[s].queue}
OpsOf(w) == {o \in ops : o.waiter = w}
Aborters(w) == {p \in Procs : w \in call[p].aborting}

OnePlace(w) ==
    \/ /\ w \notin asked /\ called[w] = 0
       /\ Queues(w) = {} /\ OpsOf(w) = {} /\ Aborters(w) = {}
    \/ /\ w \in asked /\ called[w] = 1
       /\ Queues(w) = {} /\ OpsOf(w) = {} /\ Aborters(w) = {}
    \/ /\ w \in asked /\ called[w] = 0
       /\ \E s \in Sessions : Queues(w) = {s}
       /\ OpsOf(w) = {} /\ Aborters(w) = {}
    \/ /\ w \in asked /\ called[w] = 0
       /\ \E o \in ops : OpsOf(w) = {o}
       /\ Queues(w) = {} /\ Aborters(w) = {}
    \/ /\ w \in asked /\ called[w] = 0
       /\ \E p \in Procs : Aborters(w) = {p}
       /\ Queues(w) = {} /\ OpsOf(w) = {}

InPlace == \A w \in Waiters : OnePlace(w)

(* A commit that a session was not told of, or not yet *)
Missed == unheard \/ \E p \in Procs : call[p].pc = "notifying"

(* The session of the map knows of all commits, or will once it is bound; a *)
(* death waits for all that were made before it. *)
Informed ==
    /\ \A s \in Sessions :
         s = registered =>
           /\ sess[s].state \in {"active", "dying"} =>
                sess[s].announced = committed \/ Missed
           /\ sess[s].state = "waiting" /\ sess[s].linked =>
                Higher(sess[s].announced, sess[s].deferredCommit) = committed \/ Missed
    /\ \A o \in ops :
         LET s == o.session
         IN  o.waiter = None /\ sess[s].state = "dying" /\ sess[s].deaths = o.death =>
               ~o.aborted /\ (s = registered => closedAt[s] <= o.version \/ Missed)

-----------------------------------------------------------------------------
(* What any step does to the sessions *)

Kinds ==
    \/ Alike
    \/ \E s \in created :
         \/ MadeInactive(s, ops) \/ Dies(s)
         \/ Revived(s) /\ ops' = ops /\ closedAt' = closedAt
         \/ sess[s].state = "waiting" /\ Bound(s)
         \/ \E w \in Waiters \ asked : Queued(s, w) /\ asked' = asked \cup {w}
         \/ Notified(s) \/ Expired(s) \/ Cancelled(s)
    \/ \E o \in ops : o.session \in created /\ Done(o) /\ closedAt' = closedAt

(* Every step is of one of these kinds. *)
LEMMA KindsOfStep ==
    ASSUME Base, [Next]_vars
    PROVE  Kinds
<1>1. ASSUME NEW t \in Threads, ThreadStep(t)
      PROVE  Kinds
  <2>1. CASE GetSession(t)
    BY <2>1, GetSessionEffect, Zenon
       DEF Kinds
  <2>2. CASE DropReference(t)
    BY <2>2, DropReferenceEffect, Zenon
       DEF Kinds
  <2>3. CASE UserLogOut(t)
    BY <2>3, UserLogOutEffect, Zenon
       DEF Kinds
  <2>4. CASE LogIn(t)
    BY <2>4, LogInEffect, Zenon
       DEF Kinds, Begins
  <2>5. CASE WaitForCompletion(t)
    BY <2>5, WaitForCompletionEffect, Zenon
       DEF Kinds
  <2>6. CASE Commit(t)
    BY <2>6, CommitEffect, Zenon
       DEF Kinds
  <2>7. CASE Reconnect(t)
    BY <2>7, ReconnectEffect, Zenon
       DEF Kinds
  <2>8. CASE \/ Lock(t, "suspend", "suspending") \/ Lock(t, "resume", "reviving")
             \/ Lock(t, "update_configuration", "reconfiguring")
    <3>1. ASSUME NEW c, NEW pc \in {"reviving", "suspending", "reconfiguring"}, Lock(t, c, pc)
          PROVE  Kinds
      BY <3>1, LockEffect, Zenon DEF Begins, Kinds
    <3> QED
      BY <2>8, <3>1
  <2>9. ASSUME NEW r \in requests, TokenRefused(t, r)
        PROVE  Kinds
    BY <2>9, TokenRefusedEffect, Zenon
       DEF Kinds, Begins
  <2> QED
    BY <1>1, <2>1, <2>2, <2>3, <2>4, <2>5, <2>6, <2>7, <2>8, <2>9 DEF ThreadStep
<1>2. ASSUME NEW p \in Procs, InCall(p)
      PROVE  Kinds
  <2>1. CASE RegisterSession(p)
    BY <2>1, RegisterSessionEffect, Zenon
       DEF Kinds
  <2>2. CASE Revive(p)
    BY <2>2, ReviveEffect, Zenon
       DEF Kinds
  <2>3. CASE TakeReference(p)
    BY <2>3, TakeReferenceEffect, Zenon
       DEF Kinds
  <2>4. CASE DidDropReference(p)
    BY <2>4, DidDropReferenceEffect, Zenon
       DEF Kinds, DidClose
  <2>5. CASE Unregister(p)
    BY <2>5, UnregisterEffect, Zenon
       DEF Kinds
  <2>6. CASE StopPeeking(p)
    BY <2>6, StopPeekingEffect, Zenon
       DEF Kinds, DidClose
  <2>7. CASE Leave(p)
    BY <2>7, LeaveEffect, Zenon
       DEF Kinds
  <2>8. CASE LogOutSession(p) \/ Suspend(p) \/ UpdateConfiguration(p)
    BY <2>8, QuitsEffect, Zenon
       DEF Kinds, Quits
  <2>9. CASE FinishLogOut(p)
    BY <2>9, FinishLogOutEffect, Zenon
       DEF Kinds
  <2>10. CASE NotifySession(p)
    BY <2>10, NotifySessionEffect, Zenon
       DEF Kinds
  <2>11. CASE BindSessionHandler(p)
    BY <2>11, BindSessionHandlerEffect, Zenon
       DEF Kinds
  <2> QED
    BY <1>2, <2>1, <2>2, <2>3, <2>4, <2>5, <2>6, <2>7, <2>8, <2>9, <2>10, <2>11 DEF InCall
<1>3. ASSUME ClientSteps
      PROVE  Kinds
  <2>1. CASE ListenerCalled
    BY <2>1, ListenerCalledEffect, Zenon
       DEF Kinds
  <2>2. CASE Listen
    BY <2>2, ListenEffect, Zenon
       DEF Kinds
  <2>3. CASE HandleError
    BY <2>3, HandleErrorEffect, Zenon
       DEF Kinds
  <2>4. CASE RespondToError
    BY <2>4, RespondToErrorEffect, Zenon
       DEF Kinds
  <2>5. CASE InvalidateUser
    BY <2>5, InvalidateUserEffect, Zenon
       DEF Kinds
  <2>6. CASE CompleteWait
    BY <2>6, CompleteWaitEffect, Zenon
       DEF Kinds
  <2> QED
    BY <1>3, <2>1, <2>2, <2>3, <2>4, <2>5, <2>6 DEF ClientSteps
<1>4. ASSUME NEW r \in requests, TokenArrives(r)
      PROVE  Kinds
  BY <1>4, TokenArrivesEffect, Zenon
     DEF Kinds
<1>5. ASSUME NEW r \in requests, ServerUnreachable(r)
      PROVE  Kinds
  BY <1>5, ServerUnreachableEffect, Zenon
     DEF Kinds
<1>6. ASSUME NEW s \in Sessions, Upload(s)
      PROVE  Kinds
  BY <1>6, UploadEffect, Zenon
     DEF Kinds
<1>7. CASE UNCHANGED vars
  BY <1>7, SameSessions
     DEF vars, histVars, Kinds, Base
<1> QED
  BY <1>1, <1>2, <1>3, <1>4, <1>5, <1>6, <1>7 DEF Next


(* An aborted operation is the one it was. *)
LEMMA AbortedFields ==
    ASSUME NEW s \in Sessions, NEW os \in SUBSET OpT, NEW o \in Aborted(s, os)
    PROVE  \E q \in os :
             /\ o.session = q.session /\ o.waiter = q.waiter /\ o.death = q.death
             /\ o.version = q.version
             /\ o.session # s => o = q
             /\ o = IF q.session = s THEN [q EXCEPT !.aborted = TRUE] ELSE q
<1>1. PICK q \in os : o = IF q.session = s THEN [q EXCEPT !.aborted = TRUE] ELSE q
  BY DEF Aborted
<1>2. q \in OpT
  OBVIOUS
<1> QED
  BY <1>1, <1>2 DEF OpT

(* Where a wait operation after the step comes from *)
NewOp(o) ==
    \/ \E s \in created :
         \/ /\ Dies(s)
            /\ o = WaitOp(s, None, sess[s].deaths + 1, sess[s].announced)
         \/ /\ sess[s].state = "waiting" /\ Bound(s) /\ sess'[s].state = "dying"
            /\ o = WaitOp(s, None, sess[s].deaths + 1, sess'[s].announced)
         \/ /\ sess[s].state = "waiting" /\ Bound(s)
            /\ \E w \in sess[s].queue :
                 o = WaitOp(s, w, 0, IF sess[s].linked THEN sess[s].announced ELSE committed)
         \/ \E w \in Waiters \ asked :
              /\ Queued(s, w) /\ asked' = asked \cup {w}
              /\ o = WaitOp(s, w, 0, sess[s].announced)

OldOp(o) ==
    /\ o \in OpT
    /\ \E q \in ops :
         /\ o.session = q.session /\ o.waiter = q.waiter /\ o.death = q.death
         /\ o.version = q.version
         /\ o = q \/ sess'[o.session].state = "inactive"

LEMMA OpsOfStep ==
    ASSUME Base, Kinds, NEW o \in ops'
    PROVE  OldOp(o) \/ NewOp(o)
<1>0. ops \subseteq OpT /\ created \subseteq Sessions
  BY DEF Base, Shape
<1>1. ASSUME o \in ops PROVE OldOp(o)
  BY <1>0, <1>1 DEF OldOp
<1>2. ASSUME NEW s \in created, NEW os \in SUBSET ops, MadeInactive(s, os)
      PROVE  OldOp(o)
  <2>1. o \in Aborted(s, os) /\ sess'[s].state = "inactive"
    BY <1>2 DEF MadeInactive
  <2>2. os \in SUBSET OpT /\ s \in Sessions
    BY <1>0
  <2>3. PICK q \in os :
             /\ o.session = q.session /\ o.waiter = q.waiter /\ o.death = q.death
             /\ o.version = q.version
             /\ o.session # s => o = q
    BY <2>1, <2>2, AbortedFields
  <2>4. q \in ops
    OBVIOUS
  <2> QED
    BY <2>1, <2>2, <2>3, <2>4, AbortedType DEF OldOp
<1>3. CASE Alike
  BY <1>1, <1>3 DEF Alike
<1>4. ASSUME NEW s \in created,
         \/ MadeInactive(s, ops) \/ Dies(s)
         \/ Revived(s) /\ ops' = ops /\ closedAt' = closedAt
         \/ sess[s].state = "waiting" /\ Bound(s)
         \/ \E w \in Waiters \ asked : Queued(s, w) /\ asked' = asked \cup {w}
         \/ Notified(s) \/ Expired(s) \/ Cancelled(s)
      PROVE  OldOp(o) \/ NewOp(o)
  <2>1. CASE MadeInactive(s, ops)
    BY <1>2, <2>1
  <2>2. CASE Dies(s)
    BY <1>1, <2>2 DEF Dies, NewOp
  <2>3. CASE Revived(s) /\ ops' = ops
    BY <1>1, <2>3
  <2>4. CASE sess[s].state = "waiting" /\ Bound(s)
    <3> DEFINE bound == IF sess[s].linked THEN sess[s].announced ELSE committed
    <3>1. /\ sess'[s].announced = Higher(bound, sess[s].deferredCommit)
          /\ ops' = ops \cup {WaitOp(s, w, 0, bound) : w \in sess[s].queue}
                    \cup (IF sess'[s].state = "dying"
                          THEN {WaitOp(s, None, sess[s].deaths + 1,
                                       Higher(bound, sess[s].deferredCommit))}
                          ELSE {})
      BY <2>4, Zenon DEF Bound
    <3>2. CASE o \in ops
      BY <1>1, <3>2
    <3>3. CASE \E w \in sess[s].queue : o = WaitOp(s, w, 0, bound)
      BY <2>4, <3>3, Zenon DEF NewOp
    <3>4. CASE /\ sess'[s].state = "dying"
               /\ o = WaitOp(s, None, sess[s].deaths + 1, sess'[s].announced)
      BY <2>4, <3>4, Zenon DEF NewOp
    <3> HIDE DEF bound
    <3> QED
      BY <3>1, <3>2, <3>3, <3>4
  <2>5. ASSUME NEW w \in Waiters \ asked, Queued(s, w), asked' = asked \cup {w}
        PROVE  OldOp(o) \/ NewOp(o)
    <3>1. o \in ops \/ o = WaitOp(s, w, 0, sess[s].announced)
      BY <2>5 DEF Queued
    <3> QED
      BY <1>1, <2>5, <3>1, Zenon DEF NewOp
  <2>6. CASE Notified(s) \/ Expired(s) \/ Cancelled(s)
    BY <1>1, <2>6 DEF Notified, Expired, Cancelled
  <2> QED
    BY <1>4, <2>1, <2>2, <2>3, <2>4, <2>5, <2>6, Zenon
<1>5. ASSUME NEW q \in ops, q.session \in created, Done(q)
      PROVE  OldOp(o)
  <2>1. CASE ops' = ops \ {q}
    BY <1>1, <2>1
  <2>2. CASE MadeInactive(q.session, ops \ {q})
    BY <1>2, <1>5, <2>2
  <2> QED
    BY <1>5, <2>1, <2>2 DEF Done
<1> QED
  BY <1>3, <1>4, <1>5, Zenon DEF Kinds

(* What a new wait operation waits for *)
LEMMA NewOpFields ==
    ASSUME Base, NEW o, NewOp(o)
    PROVE  /\ o \in OpT /\ o.session \in created /\ ~o.aborted
           /\ \/ /\ o.waiter = None /\ o.death = sess[o.session].deaths + 1
                 /\ sess'[o.session].deaths = sess[o.session].deaths + 1
                 /\ o.version = sess'[o.session].announced
                 /\ closedAt'[o.session] = committed
                 /\ sess'[o.session].state = "dying"
                 /\ sess[o.session].state \in {"waiting", "active"}
              \/ /\ o.waiter \in Waiters /\ o.death = 0
                 /\ o.version \in {sess[o.session].announced, committed}
<1>0. /\ created \subseteq Sessions /\ sess \in [Sessions -> SessionT]
      /\ committed \in Nat
      /\ \A s \in created : /\ sess[s].deaths \in Nat /\ sess[s].deaths + 1 \in Nat
                            /\ sess[s].announced \in Nat
                            /\ sess[s].queue \subseteq Waiters
  BY DEF Base, Shape, SessionT
<1>1. PICK s \in created :
         \/ /\ Dies(s)
            /\ o = WaitOp(s, None, sess[s].deaths + 1, sess[s].announced)
         \/ /\ sess[s].state = "waiting" /\ Bound(s) /\ sess'[s].state = "dying"
            /\ o = WaitOp(s, None, sess[s].deaths + 1, sess'[s].announced)
         \/ /\ sess[s].state = "waiting" /\ Bound(s)
            /\ \E w \in sess[s].queue :
                 o = WaitOp(s, w, 0, IF sess[s].linked THEN sess[s].announced ELSE committed)
         \/ \E w \in Waiters \ asked :
              /\ Queued(s, w) /\ asked' = asked \cup {w}
              /\ o = WaitOp(s, w, 0, sess[s].announced)
  BY Zenon DEF NewOp
<1>2. s \in Sessions
  BY <1>0
<1>3. CASE /\ Dies(s)
           /\ o = WaitOp(s, None, sess[s].deaths + 1, sess[s].announced)
  <2>1. /\ o \in OpT /\ o.session = s /\ o.waiter = None
        /\ o.death = sess[s].deaths + 1 /\ o.version = sess[s].announced
        /\ o.aborted = FALSE
    <3>1. sess[s].deaths + 1 \in Nat /\ sess[s].announced \in Nat
          /\ None \in Waiters \cup {None}
      BY <1>0
    <3> QED
      BY <1>2, <1>3, <3>1, SMT DEF WaitOp, OpT
  <2> QED
    BY <1>3, <2>1 DEF Dies, SameData
<1>4. CASE /\ sess[s].state = "waiting" /\ Bound(s) /\ sess'[s].state = "dying"
           /\ o = WaitOp(s, None, sess[s].deaths + 1, sess'[s].announced)
  <2>1. /\ sess'[s].announced \in Nat /\ closedAt'[s] = committed
        /\ sess'[s].deaths = sess[s].deaths + 1
    BY <1>2, <1>4 DEF Bound, OnlySession, SessionT
  <2>2. /\ o \in OpT /\ o.session = s /\ o.waiter = None
        /\ o.death = sess[s].deaths + 1 /\ o.version = sess'[s].announced
        /\ o.aborted = FALSE
    <3>1. sess[s].deaths + 1 \in Nat /\ None \in Waiters \cup {None}
      BY <1>0
    <3> QED
      BY <1>2, <1>4, <2>1, <3>1, SMT DEF WaitOp, OpT
  <2> QED
    BY <1>4, <2>1, <2>2
<1>5. ASSUME NEW w \in Waiters, NEW v \in {sess[s].announced, committed},
             o = WaitOp(s, w, 0, v)
      PROVE  /\ o \in OpT /\ o.session \in created /\ ~o.aborted
             /\ o.waiter \in Waiters /\ o.death = 0
             /\ o.version \in {sess[o.session].announced, committed}
  <2>1. v \in Nat
    BY <1>0
  <2>2. /\ o \in OpT /\ o.session = s /\ o.waiter = w /\ o.death = 0
        /\ o.version = v /\ o.aborted = FALSE
    <3>1. w \in Waiters \cup {None} /\ 0 \in Nat
      OBVIOUS
    <3> QED
      BY <1>2, <1>5, <2>1, <3>1, SMT DEF WaitOp, OpT
  <2> QED
    BY <2>2
<1>6. CASE \E w \in sess[s].queue :
              o = WaitOp(s, w, 0, IF sess[s].linked THEN sess[s].announced ELSE committed)
  <2>1. PICK w \in Waiters : \E v \in {sess[s].announced, committed} : o = WaitOp(s, w, 0, v)
    BY <1>0, <1>6
  <2> QED
    BY <1>5, <2>1
<1>7. CASE \E w \in Waiters \ asked : o = WaitOp(s, w, 0, sess[s].announced)
  BY <1>5, <1>7
<1> QED
  BY <1>1, <1>3, <1>4, <1>6, <1>7

(* Sessions and wait operations keep their types. *)
LEMMA KindsShape ==
    ASSUME Base, Kinds
    PROVE  /\ sess' \in [Sessions -> SessionT] /\ closedAt' \in [Sessions -> Nat]
           /\ ops' \subseteq OpT /\ \A o \in ops' : o.session \in created
           /\ \A s \in Sessions \ created : sess'[s].state = "inactive"
<1>0. /\ created \subseteq Sessions /\ sess \in [Sessions -> SessionT]
      /\ closedAt \in [Sessions -> Nat] /\ ops \subseteq OpT /\ committed \in Nat
      /\ \A o \in ops : o.session \in created
      /\ \A s \in Sessions \ created : sess[s].state = "inactive"
  BY DEF Base, Shape, Known
<1>1. ASSUME NEW s \in created, OnlySession(s)
      PROVE  /\ sess' \in [Sessions -> SessionT]
             /\ \A r \in Sessions \ created : sess'[r].state = "inactive"
  BY <1>0, <1>1 DEF OnlySession
<1>2. /\ sess' \in [Sessions -> SessionT]
      /\ \A r \in Sessions \ created : sess'[r].state = "inactive"
  <2>1. CASE Alike
    BY <1>0, <2>1 DEF Alike
  <2>2. ASSUME NEW s \in created,
         \/ MadeInactive(s, ops) \/ Dies(s)
         \/ Revived(s) /\ ops' = ops /\ closedAt' = closedAt
         \/ sess[s].state = "waiting" /\ Bound(s)
         \/ \E w \in Waiters \ asked : Queued(s, w) /\ asked' = asked \cup {w}
         \/ Notified(s) \/ Expired(s) \/ Cancelled(s)
        PROVE  OnlySession(s)
    BY <2>2, Zenon DEF MadeInactive, Dies, Revived, Bound, Queued, Notified, Expired, Cancelled
  <2>3. ASSUME NEW q \in ops, q.session \in created, Done(q)
        PROVE  sess' = sess \/ OnlySession(q.session)
    BY <2>3, Zenon DEF Done, MadeInactive
  <2> QED
    BY <1>0, <1>1, <2>1, <2>2, <2>3 DEF Kinds
<1>3. closedAt' \in [Sessions -> Nat]
  BY <1>0 DEF Kinds, Alike, MadeInactive, Dies, Bound, Queued, Notified, Expired, Cancelled
<1>4. ASSUME NEW o \in ops'
      PROVE  o \in OpT /\ o.session \in created
  <2>1. CASE OldOp(o)
    <3>1. PICK q \in ops :
             /\ o.session = q.session /\ o.waiter = q.waiter /\ o.death = q.death
             /\ o.version = q.version
             /\ o = q \/ sess'[o.session].state = "inactive"
      BY <2>1 DEF OldOp
    <3> QED
      BY <1>0, <2>1, <3>1 DEF OldOp
  <2>2. CASE NewOp(o)
    BY <2>2, NewOpFields DEF Kinds
  <2> QED
    BY <2>1, <2>2, OpsOfStep
<1> QED
  BY <1>2, <1>3, <1>4

-----------------------------------------------------------------------------
(* Types, sessions that are known, and bounds *)

(* Calls keep their type. *)
LEMMA CallsShape ==
    ASSUME Base, [Next]_vars
    PROVE  call' \in [Procs -> CallT]
<1>0. call \in [Procs -> CallT]
  BY DEF Base, Shape
<1>1. ASSUME NEW t \in Threads, ThreadStep(t)
      PROVE  call' \in [Procs -> CallT]
  <2>1. CASE GetSession(t)
    BY <2>1, GetSessionEffect, <1>0
       DEF Fresh, Moved
  <2>2. CASE DropReference(t)
    BY <2>2, DropReferenceEffect, <1>0
       DEF Fresh, Moved
  <2>3. CASE UserLogOut(t)
    BY <2>3, UserLogOutEffect, <1>0
       DEF Fresh, Moved
  <2>4. CASE LogIn(t)
    BY <2>4, LogInEffect, <1>0
       DEF Fresh, Moved, Begins
  <2>5. CASE WaitForCompletion(t)
    BY <2>5, WaitForCompletionEffect, <1>0
       DEF Fresh, Moved
  <2>6. CASE Commit(t)
    BY <2>6, CommitEffect, <1>0
       DEF Fresh, Moved
  <2>7. CASE Reconnect(t)
    BY <2>7, ReconnectEffect, <1>0
       DEF Fresh, Moved
  <2>8. CASE \/ Lock(t, "suspend", "suspending") \/ Lock(t, "resume", "reviving")
             \/ Lock(t, "update_configuration", "reconfiguring")
    <3>1. ASSUME NEW c, NEW pc \in {"reviving", "suspending", "reconfiguring"}, Lock(t, c, pc)
          PROVE  call' \in [Procs -> CallT]
      BY <3>1, <1>0, LockEffect DEF Begins, Fresh, Moved
    <3> QED
      BY <2>8, <3>1
  <2>9. ASSUME NEW r \in requests, TokenRefused(t, r)
        PROVE  call' \in [Procs -> CallT]
    BY <2>9, TokenRefusedEffect, <1>0
       DEF Fresh, Moved, Begins
  <2> QED
    BY <1>1, <2>1, <2>2, <2>3, <2>4, <2>5, <2>6, <2>7, <2>8, <2>9 DEF ThreadStep
<1>2. ASSUME NEW p \in Procs, InCall(p)
      PROVE  call' \in [Procs -> CallT]
  <2>1. CASE RegisterSession(p)
    BY <2>1, RegisterSessionEffect, <1>0
       DEF Fresh, Moved
  <2>2. CASE Revive(p)
    BY <2>2, ReviveEffect, <1>0
       DEF Fresh, Moved
  <2>3. CASE TakeReference(p)
    BY <2>3, TakeReferenceEffect, <1>0
       DEF Fresh, Moved
  <2>4. CASE DidDropReference(p)
    BY <2>4, DidDropReferenceEffect, <1>0
       DEF Fresh, Moved, DidClose
  <2>5. CASE Unregister(p)
    BY <2>5, UnregisterEffect, <1>0
       DEF Fresh, Moved, Departs
  <2>6. CASE StopPeeking(p)
    BY <2>6, StopPeekingEffect, <1>0
       DEF Fresh, Moved, DidClose, Departs
  <2>7. CASE Leave(p)
    BY <2>7, LeaveEffect, <1>0
       DEF Fresh, Moved
  <2>8. CASE LogOutSession(p) \/ Suspend(p) \/ UpdateConfiguration(p)
    BY <2>8, QuitsEffect, <1>0
       DEF Fresh, Moved, Quits
  <2>9. CASE FinishLogOut(p)
    BY <2>9, FinishLogOutEffect, <1>0
       DEF Fresh, Moved
  <2>10. CASE NotifySession(p)
    BY <2>10, NotifySessionEffect, <1>0
       DEF Fresh, Moved
  <2>11. CASE BindSessionHandler(p)
    BY <2>11, BindSessionHandlerEffect, <1>0
       DEF Fresh, Moved
  <2> QED
    BY <1>2, <2>1, <2>2, <2>3, <2>4, <2>5, <2>6, <2>7, <2>8, <2>9, <2>10, <2>11 DEF InCall
<1>3. ASSUME ClientSteps
      PROVE  call' \in [Procs -> CallT]
  <2>1. CASE ListenerCalled
    BY <2>1, ListenerCalledEffect, <1>0
       DEF Fresh, Moved
  <2>2. CASE Listen
    BY <2>2, ListenEffect, <1>0
       DEF Fresh, Moved, Continues
  <2>3. CASE HandleError
    BY <2>3, HandleErrorEffect, <1>0
       DEF Fresh, Moved, Continues
  <2>4. CASE RespondToError
    BY <2>4, RespondToErrorEffect, <1>0
       DEF Fresh, Moved
  <2>5. CASE InvalidateUser
    BY <2>5, InvalidateUserEffect, <1>0
       DEF Fresh, Moved
  <2>6. CASE CompleteWait
    BY <2>6, CompleteWaitEffect, <1>0
       DEF Fresh, Moved, Done
  <2> QED
    BY <1>3, <2>1, <2>2, <2>3, <2>4, <2>5, <2>6 DEF ClientSteps
<1>4. ASSUME NEW r \in requests, TokenArrives(r)
      PROVE  call' \in [Procs -> CallT]
  BY <1>4, TokenArrivesEffect, <1>0
     DEF Fresh, Moved
<1>5. ASSUME NEW r \in requests, ServerUnreachable(r)
      PROVE  call' \in [Procs -> CallT]
  BY <1>5, ServerUnreachableEffect, <1>0
     DEF Fresh, Moved
<1>6. ASSUME NEW s \in Sessions, Upload(s)
      PROVE  call' \in [Procs -> CallT]
  BY <1>6, UploadEffect, <1>0
     DEF Fresh, Moved
<1>7. CASE UNCHANGED vars
  BY <1>7, <1>0
     DEF vars
<1> QED
  BY <1>1, <1>2, <1>3, <1>4, <1>5, <1>6, <1>7 DEF Next

(* Every variable keeps its type. *)
LEMMA ShapeStep ==
    ASSUME Base, [Next]_vars
    PROVE  Shape'
<1>0. /\ sess' \in [Sessions -> SessionT] /\ closedAt' \in [Sessions -> Nat]
      /\ ops' \subseteq OpT
  BY KindsOfStep, KindsShape
<1>01. call' \in [Procs -> CallT]
  BY CallsShape
<1>02. /\ policy \in StopPolicies /\ created \subseteq Sessions
       /\ registered \in Sessions \cup {None}
       /\ userSession \in Sessions \cup {None} /\ waiting \in Sessions \cup {None}
       /\ sessionLock \in Procs \cup {None} /\ userLock \in Procs \cup {None}
       /\ userState \in {"Active", "LoggedOut", "Error"}
       /\ refs \in [Procs -> Sessions \cup {None}]
       /\ requests \subseteq RequestT
       /\ committed \in Nat /\ uploaded \in Nat
       /\ called \in [Waiters -> Nat] /\ asked \subseteq Waiters
       /\ crashed \in BOOLEAN /\ calls \in Nat /\ errors \in Nat
       /\ unheard \in BOOLEAN /\ overtaken \in BOOLEAN
  BY DEF Base, Shape
<1>03. \A s \in Sessions : sess[s].announced \in Nat
  BY DEF Base, Shape, SessionT
<1>04. \A p \in Procs : call[p].session \in Sessions \cup {None}
  BY DEF Base, Shape, CallT
<1>1. ASSUME NEW t \in Threads, ThreadStep(t)
      PROVE  Shape'
  <2>1. CASE GetSession(t)
    BY <2>1, GetSessionEffect, <1>0, <1>01, <1>02, ThreadIsProc
       DEF Shape, lockVars, userVars, dataVars, waiterVars, boundVars
  <2>2. CASE DropReference(t)
    BY <2>2, DropReferenceEffect, <1>0, <1>01, <1>02, ThreadIsProc
       DEF Shape, lockVars, userVars, dataVars, waiterVars, boundVars
  <2>3. CASE UserLogOut(t)
    BY <2>3, UserLogOutEffect, <1>0, <1>01, <1>02, ThreadIsProc
       DEF Shape, lockVars, userVars, dataVars, waiterVars, boundVars, Thinned
  <2>4. CASE LogIn(t)
    BY <2>4, LogInEffect, <1>0, <1>01, <1>02
       DEF Shape, lockVars, userVars, dataVars, waiterVars, boundVars, Begins
  <2>5. CASE WaitForCompletion(t)
    BY <2>5, WaitForCompletionEffect, <1>0, <1>01, <1>02
       DEF Shape, lockVars, userVars, dataVars, waiterVars, boundVars
  <2>6. CASE Commit(t)
    BY <2>6, CommitEffect, <1>0, <1>01, <1>02
       DEF Shape, lockVars, userVars, dataVars, waiterVars, boundVars
  <2>7. CASE Reconnect(t)
    BY <2>7, ReconnectEffect, <1>0, <1>01, <1>02, ThreadIsProc
       DEF Shape, lockVars, userVars, dataVars, waiterVars, boundVars
  <2>8. CASE \/ Lock(t, "suspend", "suspending") \/ Lock(t, "resume", "reviving")
             \/ Lock(t, "update_configuration", "reconfiguring")
    <3>1. ASSUME NEW c, NEW pc \in {"reviving", "suspending", "reconfiguring"}, Lock(t, c, pc)
          PROVE  Shape'
      BY <3>1, <1>0, <1>01, <1>02, LockEffect DEF Begins, Shape, lockVars, userVars, dataVars, waiterVars, boundVars
    <3> QED
      BY <2>8, <3>1
  <2>9. ASSUME NEW r \in requests, TokenRefused(t, r)
        PROVE  Shape'
    BY <2>9, TokenRefusedEffect, <1>0, <1>01, <1>02
       DEF Shape, lockVars, userVars, dataVars, waiterVars, boundVars, Begins
  <2> QED
    BY <1>1, <2>1, <2>2, <2>3, <2>4, <2>5, <2>6, <2>7, <2>8, <2>9 DEF ThreadStep
<1>2. ASSUME NEW p \in Procs, InCall(p)
      PROVE  Shape'
  <2>1. CASE RegisterSession(p)
    BY <2>1, RegisterSessionEffect, <1>0, <1>01, <1>02, <1>04
       DEF Shape, lockVars, userVars, dataVars, waiterVars, boundVars
  <2>2. CASE Revive(p)
    BY <2>2, ReviveEffect, <1>0, <1>01, <1>02
       DEF Shape, lockVars, userVars, dataVars, waiterVars, boundVars, Asked
  <2>3. CASE TakeReference(p)
    BY <2>3, TakeReferenceEffect, <1>0, <1>01, <1>02, <1>04
       DEF Shape, lockVars, userVars, dataVars, waiterVars, boundVars
  <2>4. CASE DidDropReference(p)
    BY <2>4, DidDropReferenceEffect, <1>0, <1>01, <1>02
       DEF Shape, lockVars, userVars, dataVars, waiterVars, boundVars
  <2>5. CASE Unregister(p)
    BY <2>5, UnregisterEffect, <1>0, <1>01, <1>02
       DEF Shape, lockVars, userVars, dataVars, waiterVars, boundVars
  <2>6. CASE StopPeeking(p)
    BY <2>6, StopPeekingEffect, <1>0, <1>01, <1>02
       DEF Shape, lockVars, userVars, dataVars, waiterVars, boundVars
  <2>7. CASE Leave(p)
    BY <2>7, LeaveEffect, <1>0, <1>01, <1>02
       DEF Shape, lockVars, userVars, dataVars, waiterVars, boundVars, Told
  <2>8. CASE LogOutSession(p) \/ Suspend(p) \/ UpdateConfiguration(p)
    BY <2>8, QuitsEffect, <1>0, <1>01, <1>02
       DEF Shape, lockVars, userVars, dataVars, waiterVars, boundVars, Quits
  <2>9. CASE FinishLogOut(p)
    BY <2>9, FinishLogOutEffect, <1>0, <1>01, <1>02
       DEF Shape, lockVars, userVars, dataVars, waiterVars, boundVars, Thinned
  <2>10. CASE NotifySession(p)
    BY <2>10, NotifySessionEffect, <1>0, <1>01, <1>02
       DEF Shape, lockVars, userVars, dataVars, waiterVars, boundVars
  <2>11. CASE BindSessionHandler(p)
    BY <2>11, BindSessionHandlerEffect, <1>0, <1>01, <1>02
       DEF Shape, lockVars, userVars, dataVars, waiterVars, boundVars, Asked
  <2> QED
    BY <1>2, <2>1, <2>2, <2>3, <2>4, <2>5, <2>6, <2>7, <2>8, <2>9, <2>10, <2>11 DEF InCall
<1>3. ASSUME ClientSteps
      PROVE  Shape'
  <2>1. CASE ListenerCalled
    BY <2>1, ListenerCalledEffect, <1>0, <1>01, <1>02
       DEF Shape, lockVars, userVars, dataVars, waiterVars, boundVars
  <2>2. CASE Listen
    BY <2>2, ListenEffect, <1>0, <1>01, <1>02
       DEF Shape, lockVars, userVars, dataVars, waiterVars, boundVars
  <2>3. CASE HandleError
    BY <2>3, HandleErrorEffect, <1>0, <1>01, <1>02
       DEF Shape, lockVars, userVars, dataVars, waiterVars, boundVars
  <2>4. CASE RespondToError
    BY <2>4, RespondToErrorEffect, <1>0, <1>01, <1>02
       DEF Shape, lockVars, userVars, dataVars, waiterVars, boundVars, Told, Asked, Expired, Cancelled
  <2>5. CASE InvalidateUser
    BY <2>5, InvalidateUserEffect, <1>0, <1>01, <1>02
       DEF Shape, lockVars, userVars, dataVars, waiterVars, boundVars
  <2>6. CASE CompleteWait
    BY <2>6, CompleteWaitEffect, <1>0, <1>01, <1>02
       DEF Shape, lockVars, userVars, dataVars, waiterVars, boundVars, Told, Done
  <2> QED
    BY <1>3, <2>1, <2>2, <2>3, <2>4, <2>5, <2>6 DEF ClientSteps
<1>4. ASSUME NEW r \in requests, TokenArrives(r)
      PROVE  Shape'
  BY <1>4, TokenArrivesEffect, <1>0, <1>01, <1>02
     DEF Shape, lockVars, userVars, dataVars, waiterVars, boundVars
<1>5. ASSUME NEW r \in requests, ServerUnreachable(r)
      PROVE  Shape'
  BY <1>5, ServerUnreachableEffect, <1>0, <1>01, <1>02
     DEF Shape, lockVars, userVars, dataVars, waiterVars, boundVars, Thinned
<1>6. ASSUME NEW s \in Sessions, Upload(s)
      PROVE  Shape'
  BY <1>6, UploadEffect, <1>0, <1>01, <1>02, <1>03
     DEF Shape, lockVars, userVars, dataVars, waiterVars, boundVars
<1>7. CASE UNCHANGED vars
  BY <1>7, <1>0, <1>01, <1>02
     DEF Shape, lockVars, userVars, dataVars, waiterVars, boundVars, vars, histVars
<1> QED
  BY <1>1, <1>2, <1>3, <1>4, <1>5, <1>6, <1>7 DEF Next

(* Calls are about sessions that were made. *)
LEMMA KnownCalls ==
    ASSUME Base, [Next]_vars
    PROVE  \A q \in Procs : /\ call'[q].session \in created' \cup {None}
                            /\ call'[q].peek \in created' \cup {None}
<1>0. /\ \A q \in Procs : /\ call[q].session \in created \cup {None}
                          /\ call[q].peek \in created \cup {None}
                          /\ refs[q] \in created \cup {None}
      /\ \A r \in requests : r.session \in created
      /\ registered \in created \cup {None}
  BY DEF Base, Known
<1>1. ASSUME NEW t \in Threads, ThreadStep(t)
      PROVE  \A q \in Procs : /\ call'[q].session \in created' \cup {None}
                              /\ call'[q].peek \in created' \cup {None}
  <2>1. CASE GetSession(t)
    <3>1. /\ registered' \in created' /\ created \subseteq created'
          /\ Fresh(t, "registering", registered')
      BY <2>1, GetSessionEffect, <1>0
    <3> QED
      BY <3>1, <1>0, ThreadIsProc, SyncAssumption DEF Fresh, Moved, OnlyCall
  <2>2. CASE DropReference(t)
    BY <2>2, DropReferenceEffect, <1>0, ThreadIsProc
       DEF Fresh, Moved, OnlyCall
  <2>3. CASE UserLogOut(t)
    BY <2>3, UserLogOutEffect, <1>0
       DEF Fresh, Moved, OnlyCall
  <2>4. CASE LogIn(t)
    BY <2>4, LogInEffect, <1>0
       DEF Fresh, Moved, OnlyCall, Begins
  <2>5. CASE WaitForCompletion(t)
    BY <2>5, WaitForCompletionEffect, <1>0
       DEF Fresh, Moved, OnlyCall
  <2>6. CASE Commit(t)
    BY <2>6, CommitEffect, <1>0, ThreadIsProc
       DEF Fresh, Moved, OnlyCall
  <2>7. CASE Reconnect(t)
    BY <2>7, ReconnectEffect, <1>0
       DEF Fresh, Moved, OnlyCall
  <2>8. CASE \/ Lock(t, "suspend", "suspending") \/ Lock(t, "resume", "reviving")
             \/ Lock(t, "update_configuration", "reconfiguring")
    <3>1. ASSUME NEW c, NEW pc \in {"reviving", "suspending", "reconfiguring"}, Lock(t, c, pc)
          PROVE  \A q \in Procs : /\ call'[q].session \in created' \cup {None}
                          /\ call'[q].peek \in created' \cup {None}
      BY <3>1, <1>0, LockEffect DEF Begins, Fresh, Moved, OnlyCall
    <3> QED
      BY <2>8, <3>1
  <2>9. ASSUME NEW r \in requests, TokenRefused(t, r)
        PROVE  \A q \in Procs : /\ call'[q].session \in created' \cup {None}
                            /\ call'[q].peek \in created' \cup {None}
    BY <2>9, TokenRefusedEffect, <1>0
       DEF Fresh, Moved, OnlyCall, Begins
  <2> QED
    BY <1>1, <2>1, <2>2, <2>3, <2>4, <2>5, <2>6, <2>7, <2>8, <2>9 DEF ThreadStep
<1>2. ASSUME NEW p \in Procs, InCall(p)
      PROVE  \A q \in Procs : /\ call'[q].session \in created' \cup {None}
                              /\ call'[q].peek \in created' \cup {None}
  <2>1. CASE RegisterSession(p)
    BY <2>1, RegisterSessionEffect, <1>0
       DEF Fresh, Moved, OnlyCall
  <2>2. CASE Revive(p)
    BY <2>2, ReviveEffect, <1>0
       DEF Fresh, Moved, OnlyCall
  <2>3. CASE TakeReference(p)
    BY <2>3, TakeReferenceEffect, <1>0
       DEF Fresh, Moved, OnlyCall
  <2>4. CASE DidDropReference(p)
    BY <2>4, DidDropReferenceEffect, <1>0
       DEF Fresh, Moved, OnlyCall, DidClose
  <2>5. CASE Unregister(p)
    BY <2>5, UnregisterEffect, <1>0
       DEF Fresh, Moved, OnlyCall, Departs
  <2>6. CASE StopPeeking(p)
    BY <2>6, StopPeekingEffect, <1>0
       DEF Fresh, Moved, OnlyCall, DidClose, Departs
  <2>7. CASE Leave(p)
    BY <2>7, LeaveEffect, <1>0
       DEF Fresh, Moved, OnlyCall
  <2>8. CASE LogOutSession(p) \/ Suspend(p) \/ UpdateConfiguration(p)
    BY <2>8, QuitsEffect, <1>0
       DEF Fresh, Moved, OnlyCall, Quits
  <2>9. CASE FinishLogOut(p)
    BY <2>9, FinishLogOutEffect, <1>0
       DEF Fresh, Moved, OnlyCall
  <2>10. CASE NotifySession(p)
    BY <2>10, NotifySessionEffect, <1>0
       DEF Fresh, Moved, OnlyCall
  <2>11. CASE BindSessionHandler(p)
    BY <2>11, BindSessionHandlerEffect, <1>0
       DEF Fresh, Moved, OnlyCall
  <2> QED
    BY <1>2, <2>1, <2>2, <2>3, <2>4, <2>5, <2>6, <2>7, <2>8, <2>9, <2>10, <2>11 DEF InCall
<1>3. ASSUME ClientSteps
      PROVE  \A q \in Procs : /\ call'[q].session \in created' \cup {None}
                              /\ call'[q].peek \in created' \cup {None}
  <2>1. CASE ListenerCalled
    BY <2>1, ListenerCalledEffect, <1>0, ClientIsProc
       DEF Fresh, Moved, OnlyCall, Continues
  <2>2. CASE Listen
    BY <2>2, ListenEffect, <1>0, ClientIsProc
       DEF Fresh, Moved, OnlyCall, Continues
  <2>3. CASE HandleError
    BY <2>3, HandleErrorEffect, <1>0, ClientIsProc
       DEF Fresh, Moved, OnlyCall, Continues
  <2>4. CASE RespondToError
    BY <2>4, RespondToErrorEffect, <1>0, ClientIsProc
       DEF Fresh, Moved, OnlyCall, Continues
  <2>5. CASE InvalidateUser
    BY <2>5, InvalidateUserEffect, <1>0, ClientIsProc
       DEF Fresh, Moved, OnlyCall, Continues
  <2>6. CASE CompleteWait
    BY <2>6, CompleteWaitEffect, <1>0
       DEF Fresh, Moved, OnlyCall, Done
  <2> QED
    BY <1>3, <2>1, <2>2, <2>3, <2>4, <2>5, <2>6 DEF ClientSteps
<1>4. ASSUME NEW r \in requests, TokenArrives(r)
      PROVE  \A q \in Procs : /\ call'[q].session \in created' \cup {None}
                              /\ call'[q].peek \in created' \cup {None}
  BY <1>4, TokenArrivesEffect, <1>0
     DEF Fresh, Moved, OnlyCall
<1>5. ASSUME NEW r \in requests, ServerUnreachable(r)
      PROVE  \A q \in Procs : /\ call'[q].session \in created' \cup {None}
                              /\ call'[q].peek \in created' \cup {None}
  BY <1>5, ServerUnreachableEffect, <1>0
     DEF Fresh, Moved, OnlyCall
<1>6. ASSUME NEW s \in Sessions, Upload(s)
      PROVE  \A q \in Procs : /\ call'[q].session \in created' \cup {None}
                              /\ call'[q].peek \in created' \cup {None}
  BY <1>6, UploadEffect, <1>0
     DEF Fresh, Moved, OnlyCall
<1>7. CASE UNCHANGED vars
  BY <1>7, <1>0
     DEF vars
<1> QED
  BY <1>1, <1>2, <1>3, <1>4, <1>5, <1>6, <1>7 DEF Next

(* Only sessions that were made are known to anybody. *)
LEMMA KnownStep ==
    ASSUME Base, [Next]_vars
    PROVE  Known'
<1>0. /\ \A o \in ops' : o.session \in created
      /\ \A s \in Sessions \ created : sess'[s].state = "inactive"
  BY KindsOfStep, KindsShape
<1>01. \A q \in Procs : /\ call'[q].session \in created' \cup {None}
                        /\ call'[q].peek \in created' \cup {None}
  BY KnownCalls
<1>02. /\ \A q \in Procs : refs[q] \in created \cup {None}
       /\ \A q \in Procs : call[q].session \in created \cup {None}
       /\ \A r \in requests : r.session \in created
       /\ {registered, userSession, waiting} \subseteq created \cup {None}
       /\ refs \in [Procs -> Sessions \cup {None}] /\ created \subseteq Sessions
  BY DEF Base, Known, Shape
<1>1. ASSUME NEW t \in Threads, ThreadStep(t)
      PROVE  Known'
  <2>1. CASE GetSession(t)
    BY <2>1, GetSessionEffect, <1>0, <1>01, <1>02, ThreadIsProc
       DEF Known, lockVars, userVars, dataVars, waiterVars, boundVars
  <2>2. CASE DropReference(t)
    BY <2>2, DropReferenceEffect, <1>0, <1>01, <1>02, ThreadIsProc
       DEF Known, lockVars, userVars, dataVars, waiterVars, boundVars
  <2>3. CASE UserLogOut(t)
    BY <2>3, UserLogOutEffect, <1>0, <1>01, <1>02, ThreadIsProc
       DEF Known, lockVars, userVars, dataVars, waiterVars, boundVars, Thinned
  <2>4. CASE LogIn(t)
    BY <2>4, LogInEffect, <1>0, <1>01, <1>02
       DEF Known, lockVars, userVars, dataVars, waiterVars, boundVars, Begins
  <2>5. CASE WaitForCompletion(t)
    BY <2>5, WaitForCompletionEffect, <1>0, <1>01, <1>02
       DEF Known, lockVars, userVars, dataVars, waiterVars, boundVars
  <2>6. CASE Commit(t)
    BY <2>6, CommitEffect, <1>0, <1>01, <1>02
       DEF Known, lockVars, userVars, dataVars, waiterVars, boundVars
  <2>7. CASE Reconnect(t)
    BY <2>7, ReconnectEffect, <1>0, <1>01, <1>02
       DEF Known, lockVars, userVars, dataVars, waiterVars, boundVars, Asked
  <2>8. CASE \/ Lock(t, "suspend", "suspending") \/ Lock(t, "resume", "reviving")
             \/ Lock(t, "update_configuration", "reconfiguring")
    <3>1. ASSUME NEW c, NEW pc \in {"reviving", "suspending", "reconfiguring"}, Lock(t, c, pc)
          PROVE  Known'
      BY <3>1, <1>0, <1>01, <1>02, LockEffect DEF Begins, Known, lockVars, userVars, dataVars, waiterVars, boundVars
    <3> QED
      BY <2>8, <3>1
  <2>9. ASSUME NEW r \in requests, TokenRefused(t, r)
        PROVE  Known'
    BY <2>9, TokenRefusedEffect, <1>0, <1>01, <1>02
       DEF Known, lockVars, userVars, dataVars, waiterVars, boundVars, Begins
  <2> QED
    BY <1>1, <2>1, <2>2, <2>3, <2>4, <2>5, <2>6, <2>7, <2>8, <2>9 DEF ThreadStep
<1>2. ASSUME NEW p \in Procs, InCall(p)
      PROVE  Known'
  <2>1. CASE RegisterSession(p)
    BY <2>1, RegisterSessionEffect, <1>0, <1>01, <1>02
       DEF Known, lockVars, userVars, dataVars, waiterVars, boundVars
  <2>2. CASE Revive(p)
    BY <2>2, ReviveEffect, <1>0, <1>01, <1>02
       DEF Known, lockVars, userVars, dataVars, waiterVars, boundVars, Asked
  <2>3. CASE TakeReference(p)
    BY <2>3, TakeReferenceEffect, <1>0, <1>01, <1>02
       DEF Known, lockVars, userVars, dataVars, waiterVars, boundVars
  <2>4. CASE DidDropReference(p)
    BY <2>4, DidDropReferenceEffect, <1>0, <1>01, <1>02
       DEF Known, lockVars, userVars, dataVars, waiterVars, boundVars
  <2>5. CASE Unregister(p)
    BY <2>5, UnregisterEffect, <1>0, <1>01, <1>02
       DEF Known, lockVars, userVars, dataVars, waiterVars, boundVars
  <2>6. CASE StopPeeking(p)
    BY <2>6, StopPeekingEffect, <1>0, <1>01, <1>02
       DEF Known, lockVars, userVars, dataVars, waiterVars, boundVars
  <2>7. CASE Leave(p)
    BY <2>7, LeaveEffect, <1>0, <1>01, <1>02
       DEF Known, lockVars, userVars, dataVars, waiterVars, boundVars
  <2>8. CASE LogOutSession(p) \/ Suspend(p) \/ UpdateConfiguration(p)
    BY <2>8, QuitsEffect, <1>0, <1>01, <1>02
       DEF Known, lockVars, userVars, dataVars, waiterVars, boundVars, Quits
  <2>9. CASE FinishLogOut(p)
    BY <2>9, FinishLogOutEffect, <1>0, <1>01, <1>02
       DEF Known, lockVars, userVars, dataVars, waiterVars, boundVars, Thinned
  <2>10. CASE NotifySession(p)
    BY <2>10, NotifySessionEffect, <1>0, <1>01, <1>02
       DEF Known, lockVars, userVars, dataVars, waiterVars, boundVars
  <2>11. CASE BindSessionHandler(p)
    BY <2>11, BindSessionHandlerEffect, <1>0, <1>01, <1>02
       DEF Known, lockVars, userVars, dataVars, waiterVars, boundVars, Asked
  <2> QED
    BY <1>2, <2>1, <2>2, <2>3, <2>4, <2>5, <2>6, <2>7, <2>8, <2>9, <2>10, <2>11 DEF InCall
<1>3. ASSUME ClientSteps
      PROVE  Known'
  <2>1. CASE ListenerCalled
    BY <2>1, ListenerCalledEffect, <1>0, <1>01, <1>02
       DEF Known, lockVars, userVars, dataVars, waiterVars, boundVars
  <2>2. CASE Listen
    BY <2>2, ListenEffect, <1>0, <1>01, <1>02
       DEF Known, lockVars, userVars, dataVars, waiterVars, boundVars
  <2>3. CASE HandleError
    BY <2>3, HandleErrorEffect, <1>0, <1>01, <1>02
       DEF Known, lockVars, userVars, dataVars, waiterVars, boundVars
  <2>4. CASE RespondToError
    BY <2>4, RespondToErrorEffect, <1>0, <1>01, <1>02
       DEF Known, lockVars, userVars, dataVars, waiterVars, boundVars, Asked
  <2>5. CASE InvalidateUser
    BY <2>5, InvalidateUserEffect, <1>0, <1>01, <1>02
       DEF Known, lockVars, userVars, dataVars, waiterVars, boundVars
  <2>6. CASE CompleteWait
    BY <2>6, CompleteWaitEffect, <1>0, <1>01, <1>02
       DEF Known, lockVars, userVars, dataVars, waiterVars, boundVars
  <2> QED
    BY <1>3, <2>1, <2>2, <2>3, <2>4, <2>5, <2>6 DEF ClientSteps
<1>4. ASSUME NEW r \in requests, TokenArrives(r)
      PROVE  Known'
  BY <1>4, TokenArrivesEffect, <1>0, <1>01, <1>02
     DEF Known, lockVars, userVars, dataVars, waiterVars, boundVars
<1>5. ASSUME NEW r \in requests, ServerUnreachable(r)
      PROVE  Known'
  BY <1>5, ServerUnreachableEffect, <1>0, <1>01, <1>02
     DEF Known, lockVars, userVars, dataVars, waiterVars, boundVars, Thinned
<1>6. ASSUME NEW s \in Sessions, Upload(s)
      PROVE  Known'
  BY <1>6, UploadEffect, <1>0, <1>01, <1>02
     DEF Known, lockVars, userVars, dataVars, waiterVars, boundVars
<1>7. CASE UNCHANGED vars
  BY <1>7, <1>0, <1>01, <1>02
     DEF Known, lockVars, userVars, dataVars, waiterVars, boundVars, vars, histVars
<1> QED
  BY <1>1, <1>2, <1>3, <1>4, <1>5, <1>6, <1>7 DEF Next

LEMMA KindsBounded ==
    ASSUME Base, Bounded, Kinds
    PROVE  /\ \A s \in Sessions : sess'[s].announced <= committed
                                  /\ sess'[s].deferredCommit <= committed
           /\ \A o \in ops' : o.version <= committed
<1>0. /\ created \subseteq Sessions /\ committed \in Nat
      /\ \A s \in Sessions : /\ sess[s].announced \in Nat /\ sess[s].deferredCommit \in Nat
                             /\ sess[s].announced <= committed
                             /\ sess[s].deferredCommit <= committed
      /\ \A o \in ops : o.version <= committed /\ o.session \in created
  BY DEF Base, Shape, SessionT, Bounded, Known
<1>1. \A s \in Sessions : sess'[s].announced <= committed
                         /\ sess'[s].deferredCommit <= committed
  <2>1. CASE Alike
    BY <1>0, <2>1 DEF Alike
  <2>2. ASSUME NEW s \in created, OnlySession(s), SameData(s)
        PROVE  \A r \in Sessions : sess'[r].announced <= committed
                                  /\ sess'[r].deferredCommit <= committed
    BY <1>0, <2>2 DEF OnlySession, SameData
  <2>3. ASSUME NEW s \in created, Bound(s)
        PROVE  \A r \in Sessions : sess'[r].announced <= committed
                                  /\ sess'[r].deferredCommit <= committed
    <3> DEFINE bound == IF sess[s].linked THEN sess[s].announced ELSE committed
    <3>1. bound \in Nat /\ bound <= committed
      BY <1>0
    <3>2. Higher(bound, sess[s].deferredCommit) <= committed
      BY <1>0, <3>1, HigherType
    <3>3. /\ OnlySession(s) /\ sess'[s].deferredCommit = 0
          /\ sess'[s].announced = Higher(bound, sess[s].deferredCommit)
      BY <2>3, Zenon DEF Bound
    <3> HIDE DEF bound
    <3> QED
      BY <1>0, <3>2, <3>3 DEF OnlySession
  <2>4. ASSUME NEW s \in created, Notified(s)
        PROVE  \A r \in Sessions : sess'[r].announced <= committed
                                  /\ sess'[r].deferredCommit <= committed
    BY <1>0, <2>4 DEF Notified, OnlySession
  <2>5. ASSUME NEW o \in ops, o.session \in created, Done(o)
        PROVE  sess' = sess \/ (OnlySession(o.session) /\ SameData(o.session))
    BY <2>5, Zenon DEF Done, MadeInactive
  <2>6. ASSUME NEW s \in created,
         \/ MadeInactive(s, ops) \/ Dies(s) \/ Revived(s)
         \/ (\E w \in Waiters \ asked : Queued(s, w))
         \/ Expired(s) \/ Cancelled(s)
        PROVE  OnlySession(s) /\ SameData(s)
    BY <2>6, Zenon DEF MadeInactive, Dies, Revived, Queued, Expired, Cancelled
  <2> QED
    BY <1>0, <2>1, <2>2, <2>3, <2>4, <2>5, <2>6 DEF Kinds
<1>2. ASSUME NEW o \in ops' PROVE o.version <= committed
  <2>1. CASE OldOp(o)
    BY <1>0, <2>1 DEF OldOp
  <2>2. CASE NewOp(o)
    BY <1>0, <1>1, <2>2, NewOpFields
  <2> QED
    BY <2>1, <2>2, OpsOfStep
<1> QED
  BY <1>1, <1>2

(* Nothing is announced, asked for or uploaded that was not committed. *)
LEMMA BoundedStep ==
    ASSUME Base, Bounded, [Next]_vars
    PROVE  Bounded'
<1>0. /\ \A s \in Sessions : sess'[s].announced <= committed
                           /\ sess'[s].deferredCommit <= committed
      /\ \A o \in ops' : o.version <= committed
  BY KindsOfStep, KindsBounded
<1>01. /\ committed <= calls /\ calls <= MaxCalls /\ errors <= MaxErrors
       /\ uploaded <= committed
       /\ committed \in Nat /\ calls \in Nat /\ errors \in Nat /\ uploaded \in Nat
       /\ MaxCalls \in Nat /\ MaxErrors \in Nat
       /\ \A s \in Sessions : sess[s].announced <= committed
  BY SyncAssumption DEF Base, Shape, Bounded
<1>02. /\ \A s \in Sessions : sess'[s] \in SessionT
       /\ \A o \in ops' : o \in OpT
  BY ShapeStep DEF Shape
<1>03. /\ \A s \in Sessions : /\ sess'[s].announced \in Nat
                              /\ sess'[s].deferredCommit \in Nat
       /\ \A o \in ops' : o.version \in Nat
  BY <1>02 DEF SessionT, OpT
<1>1. ASSUME NEW t \in Threads, ThreadStep(t)
      PROVE  Bounded'
  <2>1. CASE GetSession(t)
    BY <2>1, GetSessionEffect, <1>0, <1>01
       DEF Bounded, dataVars, boundVars
  <2>2. CASE DropReference(t)
    BY <2>2, DropReferenceEffect, <1>0, <1>01
       DEF Bounded, dataVars, boundVars
  <2>3. CASE UserLogOut(t)
    BY <2>3, UserLogOutEffect, <1>0, <1>01
       DEF Bounded, dataVars, boundVars
  <2>4. CASE LogIn(t)
    BY <2>4, LogInEffect, <1>0, <1>01
       DEF Bounded, dataVars, boundVars, Begins
  <2>5. CASE WaitForCompletion(t)
    BY <2>5, WaitForCompletionEffect, <1>0, <1>01
       DEF Bounded, dataVars, boundVars
  <2>6. CASE Commit(t)
    BY <2>6, CommitEffect, <1>0, <1>01, <1>03
       DEF Bounded, dataVars, boundVars
  <2>7. CASE Reconnect(t)
    BY <2>7, ReconnectEffect, <1>0, <1>01
       DEF Bounded, dataVars, boundVars
  <2>8. CASE \/ Lock(t, "suspend", "suspending") \/ Lock(t, "resume", "reviving")
             \/ Lock(t, "update_configuration", "reconfiguring")
    <3>1. ASSUME NEW c, NEW pc \in {"reviving", "suspending", "reconfiguring"}, Lock(t, c, pc)
          PROVE  Bounded'
      BY <3>1, <1>0, <1>01, LockEffect DEF Begins, Bounded, dataVars, boundVars
    <3> QED
      BY <2>8, <3>1
  <2>9. ASSUME NEW r \in requests, TokenRefused(t, r)
        PROVE  Bounded'
    BY <2>9, TokenRefusedEffect, <1>0, <1>01
       DEF Bounded, dataVars, boundVars, Begins
  <2> QED
    BY <1>1, <2>1, <2>2, <2>3, <2>4, <2>5, <2>6, <2>7, <2>8, <2>9 DEF ThreadStep
<1>2. ASSUME NEW p \in Procs, InCall(p)
      PROVE  Bounded'
  <2>1. CASE RegisterSession(p)
    BY <2>1, RegisterSessionEffect, <1>0, <1>01
       DEF Bounded, dataVars, boundVars
  <2>2. CASE Revive(p)
    BY <2>2, ReviveEffect, <1>0, <1>01
       DEF Bounded, dataVars, boundVars
  <2>3. CASE TakeReference(p)
    BY <2>3, TakeReferenceEffect, <1>0, <1>01
       DEF Bounded, dataVars, boundVars
  <2>4. CASE DidDropReference(p)
    BY <2>4, DidDropReferenceEffect, <1>0, <1>01
       DEF Bounded, dataVars, boundVars
  <2>5. CASE Unregister(p)
    BY <2>5, UnregisterEffect, <1>0, <1>01
       DEF Bounded, dataVars, boundVars
  <2>6. CASE StopPeeking(p)
    BY <2>6, StopPeekingEffect, <1>0, <1>01
       DEF Bounded, dataVars, boundVars
  <2>7. CASE Leave(p)
    BY <2>7, LeaveEffect, <1>0, <1>01
       DEF Bounded, dataVars, boundVars
  <2>8. CASE LogOutSession(p) \/ Suspend(p) \/ UpdateConfiguration(p)
    BY <2>8, QuitsEffect, <1>0, <1>01
       DEF Bounded, dataVars, boundVars, Quits
  <2>9. CASE FinishLogOut(p)
    BY <2>9, FinishLogOutEffect, <1>0, <1>01
       DEF Bounded, dataVars, boundVars
  <2>10. CASE NotifySession(p)
    BY <2>10, NotifySessionEffect, <1>0, <1>01
       DEF Bounded, dataVars, boundVars
  <2>11. CASE BindSessionHandler(p)
    BY <2>11, BindSessionHandlerEffect, <1>0, <1>01
       DEF Bounded, dataVars, boundVars
  <2> QED
    BY <1>2, <2>1, <2>2, <2>3, <2>4, <2>5, <2>6, <2>7, <2>8, <2>9, <2>10, <2>11 DEF InCall
<1>3. ASSUME ClientSteps
      PROVE  Bounded'
  <2>1. CASE ListenerCalled
    BY <2>1, ListenerCalledEffect, <1>0, <1>01
       DEF Bounded, dataVars, boundVars
  <2>2. CASE Listen
    BY <2>2, ListenEffect, <1>0, <1>01
       DEF Bounded, dataVars, boundVars
  <2>3. CASE HandleError
    BY <2>3, HandleErrorEffect, <1>0, <1>01
       DEF Bounded, dataVars, boundVars
  <2>4. CASE RespondToError
    BY <2>4, RespondToErrorEffect, <1>0, <1>01
       DEF Bounded, dataVars, boundVars
  <2>5. CASE InvalidateUser
    BY <2>5, InvalidateUserEffect, <1>0, <1>01
       DEF Bounded, dataVars, boundVars
  <2>6. CASE CompleteWait
    BY <2>6, CompleteWaitEffect, <1>0, <1>01
       DEF Bounded, dataVars, boundVars
  <2> QED
    BY <1>3, <2>1, <2>2, <2>3, <2>4, <2>5, <2>6 DEF ClientSteps
<1>4. ASSUME NEW r \in requests, TokenArrives(r)
      PROVE  Bounded'
  BY <1>4, TokenArrivesEffect, <1>0, <1>01
     DEF Bounded, dataVars, boundVars
<1>5. ASSUME NEW r \in requests, ServerUnreachable(r)
      PROVE  Bounded'
  BY <1>5, ServerUnreachableEffect, <1>0, <1>01
     DEF Bounded, dataVars, boundVars
<1>6. ASSUME NEW s \in Sessions, Upload(s)
      PROVE  Bounded'
  BY <1>6, UploadEffect, <1>0, <1>01
     DEF Bounded, dataVars, boundVars
<1>7. CASE UNCHANGED vars
  BY <1>7, <1>0, <1>01
     DEF Bounded, dataVars, boundVars, vars
<1> QED
  BY <1>1, <1>2, <1>3, <1>4, <1>5, <1>6, <1>7 DEF Next

-----------------------------------------------------------------------------
(* Where processes are *)

(* A process whose call and whose locks are left is where it was. *)
LEMMA OtherPlace ==
    ASSUME Base, NEW q \in Procs, call'[q] = call[q], refs'[q] = refs[q],
           (sessionLock' = q) <=> (sessionLock = q), userLock' = q => userLock = q,
           registered' = registered
    PROVE  PlaceOf(q)'
<1>1. PlaceOf(q)
  BY DEF Base, Places
<1> QED
  BY <1>1 DEF PlaceOf, Waits

(* A process that goes on with nothing held but its session and its locks *)
LEMMA FreshPlace ==
    ASSUME NEW q \in Procs, NEW pc \in Pcs \ Exits, NEW s, Fresh(q, pc, s),
           pc # "idle" => s # None,
           sessionLock' = q <=> \/ pc \in {"registering", "referencing", "reconnecting"}
                                \/ sessionLock' = q /\ pc \in {"reviving", "asking"},
           sessionLock' = q => s = registered',
           userLock' = q => pc \in {"logging_out", "logged_out"},
           pc = "notifying" => refs'[q] = s,
           refs'[q] # None => refs'[q] = registered'
    PROVE  PlaceOf(q)'
  BY DEF PlaceOf, Fresh, Moved, Waits, Pcs, Exits

LEMMA BeginsPlace ==
    ASSUME Base, NEW q \in Procs, NEW t \in Threads, Begins(t)
    PROVE  PlaceOf(q)'
<1>0. /\ PlaceOf(q) /\ created \subseteq Sessions /\ \A s \in Sessions : s # None
      /\ refs' = refs /\ registered' = registered /\ call[t].pc = "idle"
      /\ sessionLock' = sessionLock /\ userLock' = userLock
  BY SyncAssumption DEF Base, Places, Shape, Begins, lockVars
<1>1. CASE call' = call
  BY <1>0, <1>1, OtherPlace
<1>2. ASSUME NEW pc \in {"reviving", "suspending", "reconfiguring"}, NEW s \in created,
             Fresh(t, pc, s)
      PROVE  PlaceOf(q)'
  <2>1. CASE q = t
    <3>1. sessionLock # q /\ userLock # q /\ (refs[q] # None => refs[q] = registered)
      BY <1>0, <2>1 DEF PlaceOf, Waits, Exits
    <3>2. pc \in Pcs \ Exits /\ s # None
      BY <1>0 DEF Pcs, Exits
    <3> QED
      BY <1>0, <1>2, <2>1, <3>1, <3>2, FreshPlace
  <2>2. CASE q # t
    BY <1>0, <1>2, <2>2, OtherPlace DEF Fresh, Moved, OnlyCall
  <2> QED
    BY <2>1, <2>2
<1> QED
  BY <1>1, <1>2 DEF Begins

(* A process still is where it is said to be. *)
LEMMA PlaceStep ==
    ASSUME Base, NEW q \in Procs, [Next]_vars
    PROVE  PlaceOf(q)'
<1>0. /\ PlaceOf(q) /\ call[q] \in CallT /\ q # None
      /\ refs \in [Procs -> Sessions \cup {None}]
      /\ registered \in Sessions \cup {None}
      /\ created \subseteq Sessions
      /\ \A s \in Sessions : s # None
  BY SyncAssumption DEF Base, Places, Shape
<1>1. ASSUME NEW t \in Threads, ThreadStep(t)
      PROVE  PlaceOf(q)'
  <2>1. CASE GetSession(t)
    <3>0. /\ registered' \in Sessions /\ registered' # None
          /\ Fresh(t, "registering", registered')
          /\ call[t].pc = "idle" /\ refs[t] = None
          /\ sessionLock = None /\ sessionLock' = t /\ userLock' = userLock
          /\ registered # None => registered' = registered /\ refs' = refs
          /\ registered = None => refs' = [refs EXCEPT ![t] = registered']
      BY <2>1, GetSessionEffect, <1>0
    <3>1. /\ q # t => refs'[q] = refs[q]
          /\ q = t => refs'[q] \in {None, registered'}
      BY <3>0, <1>0, ThreadIsProc
    <3>2. CASE q = t
      <4>1. userLock' # q
        BY <3>0, <3>2, <1>0 DEF PlaceOf, Waits, Exits
      <4>2. "registering" \in Pcs \ Exits
        BY DEF Pcs, Exits
      <4> QED
        BY <3>0, <3>1, <3>2, <4>1, <4>2, FreshPlace
    <3>3. CASE q # t
      <4>1. call'[q] = call[q]
        BY <3>0, <3>3 DEF Fresh, Moved, OnlyCall
      <4>2. CASE registered # None
        BY <3>0, <3>1, <3>3, <4>1, <4>2, <1>0, OtherPlace
      <4>3. CASE registered = None
        BY <3>0, <3>1, <3>3, <4>1, <4>3, <1>0 DEF PlaceOf, Waits
      <4> QED
        BY <4>2, <4>3
    <3> QED
      BY <3>2, <3>3
  <2>2. CASE DropReference(t)
    <3>0. /\ call[t].pc = "idle" /\ refs[t] \in Sessions
          /\ Fresh(t, "idle", None) \/ Fresh(t, "dropping", refs[t])
          /\ refs' = [refs EXCEPT ![t] = None] /\ registered' = registered
          /\ sessionLock' = sessionLock /\ userLock' = userLock
      BY <2>2, DropReferenceEffect DEF lockVars
    <3>1. CASE q = t
      <4>1. sessionLock # q /\ userLock # q /\ refs'[q] = None
        BY <3>0, <3>1, <1>0 DEF PlaceOf, Waits, Exits
      <4>2. {"idle", "dropping"} \subseteq Pcs \ Exits /\ refs[t] # None
        BY <3>0, <1>0 DEF Pcs, Exits
      <4> QED
        BY <3>0, <3>1, <4>1, <4>2, FreshPlace
    <3>2. CASE q # t
      <4>1. refs'[q] = refs[q]
        BY <3>0, <3>2, <1>0
      <4> QED
        BY <3>0, <3>2, <4>1, OtherPlace DEF Fresh, Moved, OnlyCall
    <3> QED
      BY <3>1, <3>2
  <2>3. CASE UserLogOut(t)
    <3>0. /\ call[t].pc = "idle" /\ userLock = None
          /\ \/ /\ userSession \in created /\ userLock' = t
                /\ Fresh(t, "logging_out", userSession)
             \/ UNCHANGED <<userLock, call>>
          /\ registered' = registered /\ refs' = refs /\ sessionLock' = sessionLock
      BY <2>3, UserLogOutEffect
    <3>1. CASE q = t /\ userSession \in created /\ Fresh(t, "logging_out", userSession)
      <4>1. sessionLock # q /\ (refs[q] # None => refs[q] = registered)
        BY <3>0, <3>1, <1>0 DEF PlaceOf
      <4>2. "logging_out" \in Pcs \ Exits /\ userSession # None
        BY <3>1, <1>0 DEF Pcs, Exits
      <4> QED
        BY <3>0, <3>1, <4>1, <4>2, FreshPlace
    <3>2. CASE UNCHANGED <<userLock, call>>
      BY <3>0, <3>2, OtherPlace
    <3>3. CASE q # t
      BY <3>0, <3>3, <1>0, OtherPlace DEF Fresh, Moved, OnlyCall
    <3> QED
      BY <3>0, <3>1, <3>2, <3>3
  <2>4. CASE LogIn(t)
    <3>1. Begins(t)
      BY <2>4, LogInEffect
    <3> QED
      BY <3>1, BeginsPlace
  <2>5. CASE WaitForCompletion(t)
    BY <2>5, WaitForCompletionEffect, <1>0
       DEF PlaceOf, Waits, Exits, Thens, CallT, Fresh, Moved, OnlyCall, lockVars, userVars
  <2>6. CASE Commit(t)
    <3>0. /\ call[t].pc = "idle" /\ refs[t] \in Sessions
          /\ Fresh(t, "notifying", refs[t])
          /\ refs' = refs /\ registered' = registered
          /\ sessionLock' = sessionLock /\ userLock' = userLock
      BY <2>6, CommitEffect DEF lockVars
    <3>1. CASE q = t
      <4>1. sessionLock # q /\ userLock # q /\ (refs[q] # None => refs[q] = registered)
        BY <3>0, <3>1, <1>0 DEF PlaceOf, Waits, Exits
      <4>2. "notifying" \in Pcs \ Exits /\ refs[t] # None
        BY <3>0, <1>0 DEF Pcs, Exits
      <4> QED
        BY <3>0, <3>1, <4>1, <4>2, FreshPlace
    <3>2. CASE q # t
      BY <3>0, <3>2, OtherPlace DEF Fresh, Moved, OnlyCall
    <3> QED
      BY <3>1, <3>2
  <2>7. CASE Reconnect(t)
    <3>0. /\ call[t].pc = "idle" /\ registered \in created
          /\ Fresh(t, "reconnecting", registered)
          /\ refs' = refs /\ registered' = registered
          /\ sessionLock = None /\ sessionLock' = t /\ userLock' = userLock
      BY <2>7, ReconnectEffect
    <3>1. CASE q = t
      <4>1. userLock # q /\ (refs[q] # None => refs[q] = registered)
        BY <3>0, <3>1, <1>0 DEF PlaceOf, Waits, Exits
      <4>2. "reconnecting" \in Pcs \ Exits /\ registered # None
        BY <3>0, <1>0 DEF Pcs, Exits
      <4> QED
        BY <3>0, <3>1, <4>1, <4>2, FreshPlace
    <3>2. CASE q # t
      BY <3>0, <3>2, <1>0, OtherPlace DEF Fresh, Moved, OnlyCall
    <3> QED
      BY <3>1, <3>2
  <2>8. CASE \/ Lock(t, "suspend", "suspending") \/ Lock(t, "resume", "reviving")
             \/ Lock(t, "update_configuration", "reconfiguring")
    <3>1. ASSUME NEW c, NEW pc \in {"reviving", "suspending", "reconfiguring"}, Lock(t, c, pc)
          PROVE  PlaceOf(q)'
      <4>1. Begins(t)
        BY <3>1, LockEffect
      <4> QED
        BY <4>1, BeginsPlace
    <3> QED
      BY <2>8, <3>1
  <2>9. ASSUME NEW r \in requests, TokenRefused(t, r)
        PROVE  PlaceOf(q)'
    <3>1. Begins(t)
      BY <2>9, TokenRefusedEffect
    <3> QED
      BY <3>1, BeginsPlace
  <2> QED
    BY <1>1, <2>1, <2>2, <2>3, <2>4, <2>5, <2>6, <2>7, <2>8, <2>9 DEF ThreadStep
<1>2. ASSUME NEW p \in Procs, InCall(p)
      PROVE  PlaceOf(q)'
  <2>1. CASE RegisterSession(p)
    BY <2>1, RegisterSessionEffect, <1>0
       DEF PlaceOf, Waits, Exits, Thens, CallT, Fresh, Moved, OnlyCall, lockVars, userVars
  <2>2. CASE Revive(p)
    <3>0. /\ call[p].pc = "reviving" /\ call[p].session \in created
          /\ \/ Fresh(p, "asking", call[p].session)
             \/ sessionLock = p /\ Fresh(p, "referencing", call[p].session)
             \/ sessionLock # p /\ Fresh(p, "idle", None)
          /\ refs' = refs /\ registered' = registered
          /\ sessionLock' = sessionLock /\ userLock' = userLock
      BY <2>2, ReviveEffect DEF lockVars
    <3>1. CASE q = p
      <4>1. /\ userLock # q /\ (refs[q] # None => refs[q] = registered)
            /\ sessionLock = q => call[q].session = registered
        BY <3>0, <3>1, <1>0 DEF PlaceOf, Waits, Exits
      <4>2. {"idle", "asking", "referencing"} \subseteq Pcs \ Exits /\ call[p].session # None
        BY <3>0, <1>0 DEF Pcs, Exits
      <4>3. CASE sessionLock = p /\ Fresh(p, "referencing", call[p].session)
        BY <3>0, <3>1, <4>1, <4>2, <4>3, FreshPlace
      <4>4. CASE sessionLock # p /\ Fresh(p, "idle", None)
        BY <3>0, <3>1, <4>1, <4>2, <4>4, FreshPlace
      <4>5. CASE Fresh(p, "asking", call[p].session)
        BY <3>0, <3>1, <4>1, <4>2, <4>5, FreshPlace
      <4> QED
        BY <3>0, <4>3, <4>4, <4>5
    <3>2. CASE q # p
      BY <3>0, <3>2, OtherPlace DEF Fresh, Moved, OnlyCall
    <3> QED
      BY <3>1, <3>2
  <2>3. CASE TakeReference(p)
    <3>0. /\ call[p].pc = "referencing" /\ call[p].session \in created
          /\ Fresh(p, "idle", None) /\ refs' = [refs EXCEPT ![p] = call[p].session]
          /\ registered' = registered /\ sessionLock' = None /\ userLock' = userLock
          /\ PlaceOf(p)
      BY <2>3, TakeReferenceEffect DEF Base, Places
    <3>01. sessionLock = p /\ call[p].session = registered
      BY <3>0 DEF PlaceOf
    <3>1. CASE q = p
      <4>1. /\ userLock # q /\ refs'[q] = registered
        BY <3>0, <3>01, <3>1, <1>0 DEF PlaceOf, Waits, Exits
      <4>2. "idle" \in Pcs \ Exits
        BY DEF Pcs, Exits
      <4> QED
        BY <3>0, <3>1, <4>1, <4>2, <1>0, FreshPlace
    <3>2. CASE q # p
      <4>1. refs'[q] = refs[q] /\ sessionLock # q
        BY <3>0, <3>01, <3>2, <1>0
      <4> QED
        BY <3>0, <3>2, <4>1, <1>0, OtherPlace DEF Fresh, Moved, OnlyCall
    <3> QED
      BY <3>1, <3>2
  <2>4. CASE DidDropReference(p)
    BY <2>4, DidDropReferenceEffect, <1>0
       DEF PlaceOf, Waits, Exits, Thens, CallT, Fresh, Moved, OnlyCall, lockVars, userVars, DidClose
  <2>5. CASE Unregister(p)
    BY <2>5, UnregisterEffect, <1>0
       DEF PlaceOf, Waits, Exits, Thens, CallT, Fresh, Moved, OnlyCall, lockVars, userVars, Departs, Referenced
  <2>6. CASE StopPeeking(p)
    <3>0. /\ call[p].pc = "peeking" /\ call[p].peek \in created
          /\ call[p].session \in created /\ PlaceOf(p) /\ call[p] \in CallT
          /\ \/ \E then \in Thens : DidClose(p, call[p].peek, then) /\ sessionLock' = p
             \/ Departs(p) /\ sessionLock' = None
          /\ refs' = refs /\ registered' = registered /\ userLock' = userLock
      BY <2>6, StopPeekingEffect DEF Base, Places, Shape
    <3>01. /\ sessionLock = p /\ call[p].session # None /\ call[p].peek # None
           /\ refs[p] # None => refs[p] = registered
           /\ userLock = p => call[p].then = "logged_out"
           /\ call[p].aborting # {} => call[p].leaving
      BY <3>0, <1>0 DEF PlaceOf, Waits, Exits
    <3>1. ASSUME q = p, NEW then \in Thens, DidClose(p, call[p].peek, then), sessionLock' = p
          PROVE  PlaceOf(q)'
      BY <3>0, <3>01, <3>1, <1>0 DEF PlaceOf, Waits, Exits, DidClose, Moved
    <3>2. CASE q = p /\ Departs(p) /\ sessionLock' = None
      BY <3>0, <3>01, <3>2, <1>0 DEF PlaceOf, Waits, Exits, Departs, CallT, Thens
    <3>3. CASE q # p
      <4>1. call'[q] = call[q] /\ sessionLock # q /\ sessionLock' # q
        BY <3>0, <3>01, <3>3, <1>0 DEF DidClose, Moved, Departs, OnlyCall
      <4> QED
        BY <3>0, <3>3, <4>1, OtherPlace
    <3> QED
      BY <3>0, <3>1, <3>2, <3>3
  <2>7. CASE Leave(p)
    BY <2>7, LeaveEffect, <1>0
       DEF PlaceOf, Waits, Exits, Thens, CallT, Fresh, Moved, OnlyCall, lockVars, userVars
  <2>8. CASE LogOutSession(p) \/ Suspend(p) \/ UpdateConfiguration(p)
    <3>0. \/ call[p].pc = "logging_out" /\ Quits(p, "logged_out", "logged_out")
          \/ call[p].pc = "suspending" /\ Quits(p, "idle", "idle")
          \/ call[p].pc = "reconfiguring" /\ Quits(p, "reconfiguring", "reviving")
      BY <2>8, QuitsEffect
    <3>1. call[p].session \in created /\ call[p].session # None
      BY <3>0, <1>0 DEF Quits
    <3>2. /\ refs' = refs /\ registered' = registered
          /\ sessionLock' = sessionLock /\ userLock' = userLock
      BY <3>0 DEF Quits, lockVars, userVars
    <3>3. CASE q = p
      <4>1. /\ sessionLock # q /\ (refs[q] # None => refs[q] = registered)
            /\ userLock = q => call[q].pc = "logging_out"
        BY <3>0, <3>3, <1>0 DEF PlaceOf, Waits, Exits
      <4>2. {"idle", "logged_out", "reviving"} \subseteq Pcs \ Exits
        BY DEF Pcs, Exits
      <4>3. ASSUME NEW then, NEW aborting, userLock = q => then = "logged_out",
                   Moved(p, "unregistering", call[p].session, then, TRUE, None, aborting)
            PROVE  PlaceOf(q)'
        BY <3>1, <3>2, <3>3, <4>1, <4>3 DEF PlaceOf, Waits, Exits, Moved
      <4>4. ASSUME NEW pc \in {"idle", "logged_out", "reviving"}, userLock = q => pc = "logged_out",
                   Fresh(p, pc, IF pc = "idle" THEN None ELSE call[p].session)
            PROVE  PlaceOf(q)'
        BY <3>1, <3>2, <3>3, <4>1, <4>2, <4>4, FreshPlace
      <4> QED
        BY <3>0, <3>3, <4>1, <4>3, <4>4 DEF Quits
    <3>4. CASE q # p
      <4>1. call'[q] = call[q]
        BY <3>0, <3>4 DEF Quits, Fresh, Moved, OnlyCall
      <4> QED
        BY <3>2, <4>1, OtherPlace
    <3> QED
      BY <3>3, <3>4
  <2>9. CASE FinishLogOut(p)
    <3>0. /\ call[p].pc = "logged_out" /\ Fresh(p, "idle", None)
          /\ refs' = refs /\ registered' = registered
          /\ sessionLock' = sessionLock /\ userLock' = None
      BY <2>9, FinishLogOutEffect
    <3>1. CASE q = p
      <4>1. sessionLock # q /\ (refs[q] # None => refs[q] = registered)
        BY <3>0, <3>1, <1>0 DEF PlaceOf
      <4>2. "idle" \in Pcs \ Exits
        BY DEF Pcs, Exits
      <4> QED
        BY <3>0, <3>1, <4>1, <4>2, <1>0, FreshPlace
    <3>2. CASE q # p
      BY <3>0, <3>2, <1>0, OtherPlace DEF Fresh, Moved, OnlyCall
    <3> QED
      BY <3>1, <3>2
  <2>10. CASE NotifySession(p)
    BY <2>10, NotifySessionEffect, <1>0
       DEF PlaceOf, Waits, Exits, Thens, CallT, Fresh, Moved, OnlyCall, lockVars, userVars
  <2>11. CASE BindSessionHandler(p)
    <3>0. /\ call[p].pc \in {"asking", "reconnecting"} /\ call[p].session \in created
          /\ \/ /\ call[p].pc = "asking" /\ sessionLock = p /\ sessionLock' = sessionLock
                /\ Fresh(p, "referencing", call[p].session)
             \/ /\ call[p].pc = "asking" /\ sessionLock # p /\ sessionLock' = sessionLock
                /\ Fresh(p, "idle", None)
             \/ /\ call[p].pc = "reconnecting" /\ sessionLock' = None
                /\ Fresh(p, "idle", None)
          /\ refs' = refs /\ registered' = registered /\ userLock' = userLock
          /\ PlaceOf(p)
      BY <2>11, BindSessionHandlerEffect DEF Base, Places
    <3>1. CASE q = p
      <4>1. /\ userLock # q /\ (refs[q] # None => refs[q] = registered)
            /\ sessionLock = q /\ call[q].pc = "asking" => call[q].session = registered
        BY <3>0, <3>1, <1>0 DEF PlaceOf, Waits, Exits
      <4>2. {"idle", "referencing"} \subseteq Pcs \ Exits /\ call[p].session # None
        BY <3>0, <1>0 DEF Pcs, Exits
      <4>3. CASE /\ call[p].pc = "asking" /\ sessionLock = p /\ sessionLock' = sessionLock
                 /\ Fresh(p, "referencing", call[p].session)
        BY <3>0, <3>1, <4>1, <4>2, <4>3, FreshPlace
      <4>4. CASE sessionLock' # p /\ Fresh(p, "idle", None)
        BY <3>0, <3>1, <4>1, <4>2, <4>4, FreshPlace
      <4> QED
        BY <3>0, <3>1, <1>0, <4>3, <4>4
    <3>2. CASE q # p
      <4>1. (sessionLock' = q) <=> (sessionLock = q)
        BY <3>0, <3>2, <1>0 DEF PlaceOf
      <4> QED
        BY <3>0, <3>2, <4>1, OtherPlace DEF Fresh, Moved, OnlyCall
    <3> QED
      BY <3>1, <3>2
  <2> QED
    BY <1>2, <2>1, <2>2, <2>3, <2>4, <2>5, <2>6, <2>7, <2>8, <2>9, <2>10, <2>11 DEF InCall
<1>3. ASSUME ClientSteps
      PROVE  PlaceOf(q)'
  <2>1. CASE ListenerCalled
    BY <2>1, ListenerCalledEffect, <1>0, ClientIsProc
       DEF PlaceOf, Waits, Exits, Thens, CallT, Fresh, Moved, OnlyCall, lockVars, userVars, Continues
  <2>2. CASE Listen
    BY <2>2, ListenEffect, <1>0, ClientIsProc
       DEF PlaceOf, Waits, Exits, Thens, CallT, Fresh, Moved, OnlyCall, lockVars, userVars, Continues
  <2>3. CASE HandleError
    BY <2>3, HandleErrorEffect, <1>0, ClientIsProc
       DEF PlaceOf, Waits, Exits, Thens, CallT, Fresh, Moved, OnlyCall, lockVars, userVars, Continues
  <2>4. CASE RespondToError
    BY <2>4, RespondToErrorEffect, <1>0, ClientIsProc
       DEF PlaceOf, Waits, Exits, Thens, CallT, Fresh, Moved, OnlyCall, lockVars, userVars, Continues
  <2>5. CASE InvalidateUser
    BY <2>5, InvalidateUserEffect, <1>0, ClientIsProc
       DEF PlaceOf, Waits, Exits, Thens, CallT, Fresh, Moved, OnlyCall, lockVars, userVars, Continues
  <2>6. CASE CompleteWait
    <3>0. /\ call[Client].pc = "idle" /\ Client \in Procs
          /\ \E o \in ops : o.session \in created /\ Done(o)
          /\ refs' = refs /\ registered' = registered
          /\ sessionLock' = sessionLock /\ userLock' = userLock
      BY <2>6, CompleteWaitEffect, ClientIsProc DEF lockVars
    <3>1. CASE call' = call
      BY <3>0, <3>1, OtherPlace
    <3>2. ASSUME NEW s \in created, NEW ws,
                 Moved(Client, "unregistering", s, "idle", TRUE, None, ws)
          PROVE  PlaceOf(q)'
      <4>1. CASE q = Client
        <5>1. sessionLock # q /\ userLock # q /\ (refs[q] # None => refs[q] = registered)
          BY <3>0, <4>1, <1>0 DEF PlaceOf, Waits, Exits
        <5> QED
          BY <3>0, <3>2, <4>1, <5>1, <1>0 DEF PlaceOf, Moved, Exits
      <4>2. CASE q # Client
        BY <3>0, <3>2, <4>2, OtherPlace DEF Moved, OnlyCall
      <4> QED
        BY <4>1, <4>2
    <3> QED
      BY <3>0, <3>1, <3>2 DEF Done
  <2> QED
    BY <1>3, <2>1, <2>2, <2>3, <2>4, <2>5, <2>6 DEF ClientSteps
<1>4. ASSUME NEW r \in requests, TokenArrives(r)
      PROVE  PlaceOf(q)'
  BY <1>4, TokenArrivesEffect, <1>0
     DEF PlaceOf, Waits, Exits, Thens, CallT, Fresh, Moved, OnlyCall, lockVars, userVars
<1>5. ASSUME NEW r \in requests, ServerUnreachable(r)
      PROVE  PlaceOf(q)'
  BY <1>5, ServerUnreachableEffect, <1>0
     DEF PlaceOf, Waits, Exits, Thens, CallT, Fresh, Moved, OnlyCall, lockVars, userVars
<1>6. ASSUME NEW s \in Sessions, Upload(s)
      PROVE  PlaceOf(q)'
  BY <1>6, UploadEffect, <1>0
     DEF PlaceOf, Waits, Exits, Thens, CallT, Fresh, Moved, OnlyCall, lockVars, userVars
<1>7. CASE UNCHANGED vars
  BY <1>7, <1>0
     DEF PlaceOf, Waits, Exits, Thens, CallT, Fresh, Moved, OnlyCall, lockVars, userVars, vars
<1> QED
  BY <1>1, <1>2, <1>3, <1>4, <1>5, <1>6, <1>7 DEF Next

LEMMA BaseStep ==
    ASSUME Base, [Next]_vars
    PROVE  Base'
  BY ShapeStep, KnownStep, PlaceStep DEF Base, Places

(* The first states *)
LEMMA BaseInit == Init => Base /\ Bounded
<1> SUFFICES ASSUME Init
             PROVE  Base /\ Bounded
  OBVIOUS
<1>1. /\ sess \in [Sessions -> SessionT] /\ call \in [Procs -> CallT]
      /\ \A s \in Sessions : sess[s] = NewSession
      /\ \A p \in Procs : call[p] = Idle /\ refs[p] = None
  BY IdleType DEF Init
<1>2. Shape
  BY <1>1, SyncAssumption DEF Init, Shape
<1>3. Known
  BY <1>1 DEF Init, Known, NewSession, Idle
<1>4. Places
  BY <1>1, SyncAssumption DEF Init, Places, PlaceOf, Waits, Idle
<1>5. Bounded
  BY <1>1, SyncAssumption DEF Init, Bounded, NewSession
<1> QED
  BY <1>2, <1>3, <1>4, <1>5 DEF Base

-----------------------------------------------------------------------------
(* Deaths: each but the first follows a revival, which a call has paid for *)

(* The deaths of a session, with the one it may come to without a revival *)
Used(s) == sess[s].deaths + (IF sess[s].state \in {"waiting", "active"} THEN 1 ELSE 0)

(* A step of these kinds revives no session. *)
NoRevival ==
    \/ Alike
    \/ \E s \in created :
         \/ MadeInactive(s, ops) \/ Dies(s)
         \/ sess[s].state = "waiting" /\ Bound(s)
         \/ \E w \in Waiters \ asked : Queued(s, w) /\ asked' = asked \cup {w}
         \/ Notified(s) \/ Expired(s) \/ Cancelled(s)
    \/ \E o \in ops : o.session \in created /\ Done(o) /\ closedAt' = closedAt

LEMMA NoRevivalUsed ==
    ASSUME Base, NoRevival, NEW s \in Sessions
    PROVE  Used(s)' <= Used(s) /\ Used(s) \in Nat /\ Used(s)' \in Nat
<1>0. /\ sess[s].deaths \in Nat /\ sess[s].state \in States /\ created \subseteq Sessions
  BY DEF Base, Shape, SessionT
<1> DEFINE Calm(t) ==
             \/ /\ sess'[t].deaths = sess[t].deaths
                /\ sess'[t].state \in {"waiting", "active"} => sess[t].state \in {"waiting", "active"}
             \/ /\ sess'[t].deaths = sess[t].deaths + 1
                /\ sess'[t].state = "dying" /\ sess[t].state \in {"waiting", "active"}
<1>1. Calm(s)
  <2>1. CASE Alike
    BY <2>1 DEF Alike
  <2>2. ASSUME NEW r \in created, MadeInactive(r, ops) \/ Dies(r)
                 \/ (\E w \in Waiters \ asked : Queued(r, w))
                 \/ Notified(r) \/ Expired(r) \/ Cancelled(r)
        PROVE  Calm(s)
    <3>1. (r # s => sess'[s] = sess[s]) /\ Calm(r)
      BY <2>2 DEF MadeInactive, Dies, Queued, Notified, Expired, Cancelled, OnlySession
    <3> QED
      BY <3>1
  <2>3. ASSUME NEW r \in created, sess[r].state = "waiting" /\ Bound(r)
        PROVE  Calm(s)
    <3>1. /\ sess'[r].state \in {"active", "dying"} /\ OnlySession(r)
          /\ sess'[r].deaths = IF sess'[r].state = "dying" THEN sess[r].deaths + 1
                               ELSE sess[r].deaths
      BY <2>3, Zenon DEF Bound
    <3> QED
      BY <2>3, <3>1 DEF OnlySession
  <2>4. ASSUME NEW o \in ops, o.session \in created, Done(o)
        PROVE  Calm(s)
    <3>1. sess' = sess \/ MadeInactive(o.session, ops \ {o})
      BY <2>4 DEF Done
    <3> QED
      BY <3>1 DEF MadeInactive, OnlySession
  <2> QED
    BY <2>1, <2>2, <2>3, <2>4 DEF NoRevival
<1> QED
  BY <1>0, <1>1 DEF Used

LEMMA RevivedUsed ==
    ASSUME Base, NEW r \in created, Revived(r), NEW s \in Sessions
    PROVE  Used(s)' <= Used(s) + 1 /\ Used(s) \in Nat /\ Used(s)' \in Nat
<1>1. sess[s].deaths \in Nat /\ sess'[s].deaths = sess[s].deaths
  BY DEF Base, Shape, SessionT, Revived, OnlySession
<1> QED
  BY <1>1 DEF Used

(* Who pays for a step *)
Free == NoRevival /\ calls' = calls /\ MayRevive' \subseteq MayRevive

Starts(p) == NoRevival /\ calls' = calls + 1 /\ MayRevive' \subseteq MayRevive \cup {p}

Revives(p) ==
    /\ \E s \in created : Revived(s) /\ ops' = ops
    /\ calls' = calls /\ p \in MayRevive /\ MayRevive' \subseteq MayRevive \ {p}

(* Each revival is the work of a call. *)
LEMMA WhoPays ==
    ASSUME Base, [Next]_vars
    PROVE  Free \/ \E q \in Procs : Starts(q) \/ Revives(q)
<1>0. \A q \in Procs : call[q].then \in Thens
  BY DEF Base, Shape, CallT
<1>1. ASSUME NEW t \in Threads, ThreadStep(t)
      PROVE  Free \/ \E q \in Procs : Starts(q) \/ Revives(q)
  <2>1. CASE GetSession(t)
    <3>1. NoRevival
      BY <2>1, GetSessionEffect, Zenon DEF NoRevival
    <3>2. calls' = calls + 1 /\ MayRevive' \subseteq MayRevive \cup {t}
      BY <2>1, GetSessionEffect, <1>0 DEF MayRevive, Thens, Fresh, Moved, OnlyCall, boundVars
    <3> QED
      BY <3>1, <3>2, ThreadIsProc DEF Starts
  <2>2. CASE DropReference(t)
    <3>1. NoRevival
      BY <2>2, DropReferenceEffect, Zenon DEF NoRevival
    <3>2. calls' = calls + 1 /\ MayRevive' \subseteq MayRevive \cup {t}
      BY <2>2, DropReferenceEffect, <1>0 DEF MayRevive, Thens, Fresh, Moved, OnlyCall, boundVars
    <3> QED
      BY <3>1, <3>2, ThreadIsProc DEF Starts
  <2>3. CASE UserLogOut(t)
    <3>1. NoRevival
      BY <2>3, UserLogOutEffect, Zenon DEF NoRevival
    <3>2. MayRevive' \subseteq MayRevive
      BY <2>3, UserLogOutEffect, <1>0 DEF MayRevive, Thens, Fresh, Moved, OnlyCall
    <3>3. calls' = calls \/ calls' = calls + 1
      BY <2>3, UserLogOutEffect
    <3> QED
      BY <3>1, <3>2, <3>3, ThreadIsProc DEF Starts, Free
  <2>4. CASE LogIn(t)
    <3>1. NoRevival
      BY <2>4, LogInEffect, Zenon DEF NoRevival, Begins
    <3>2. calls' = calls + 1 /\ MayRevive' \subseteq MayRevive \cup {t}
      BY <2>4, LogInEffect, <1>0 DEF MayRevive, Thens, Fresh, Moved, OnlyCall, boundVars, Begins
    <3> QED
      BY <3>1, <3>2, ThreadIsProc DEF Starts
  <2>5. CASE WaitForCompletion(t)
    <3>1. NoRevival
      BY <2>5, WaitForCompletionEffect, Zenon DEF NoRevival
    <3>2. calls' = calls + 1 /\ MayRevive' \subseteq MayRevive \cup {t}
      BY <2>5, WaitForCompletionEffect, <1>0 DEF MayRevive, Thens, Fresh, Moved, OnlyCall, boundVars
    <3> QED
      BY <3>1, <3>2, ThreadIsProc DEF Starts
  <2>6. CASE Commit(t)
    <3>1. NoRevival
      BY <2>6, CommitEffect, Zenon DEF NoRevival
    <3>2. calls' = calls + 1 /\ MayRevive' \subseteq MayRevive \cup {t}
      BY <2>6, CommitEffect, <1>0 DEF MayRevive, Thens, Fresh, Moved, OnlyCall, boundVars
    <3> QED
      BY <3>1, <3>2, ThreadIsProc DEF Starts
  <2>7. CASE Reconnect(t)
    <3>1. NoRevival
      BY <2>7, ReconnectEffect, Zenon DEF NoRevival
    <3>2. calls' = calls + 1 /\ MayRevive' \subseteq MayRevive \cup {t}
      BY <2>7, ReconnectEffect, <1>0 DEF MayRevive, Thens, Fresh, Moved, OnlyCall, boundVars
    <3> QED
      BY <3>1, <3>2, ThreadIsProc DEF Starts
  <2>8. CASE \/ Lock(t, "suspend", "suspending") \/ Lock(t, "resume", "reviving")
             \/ Lock(t, "update_configuration", "reconfiguring")
    <3>1. ASSUME NEW c, NEW pc \in {"reviving", "suspending", "reconfiguring"}, Lock(t, c, pc)
          PROVE  Starts(t)
      <4>1. Begins(t) /\ calls' = calls + 1
        BY <3>1, LockEffect
      <4>2. NoRevival
        BY <4>1, Zenon DEF NoRevival, Begins
      <4>3. MayRevive' \subseteq MayRevive \cup {t}
        BY <4>1 DEF Begins, MayRevive, Thens, Fresh, Moved, OnlyCall, boundVars
      <4> QED
        BY <4>1, <4>2, <4>3 DEF Starts
    <3> QED
      BY <2>8, <3>1, ThreadIsProc
  <2>9. ASSUME NEW r \in requests, TokenRefused(t, r)
        PROVE  Free \/ \E q \in Procs : Starts(q) \/ Revives(q)
    <3>1. NoRevival
      BY <2>9, TokenRefusedEffect, Zenon DEF NoRevival, Begins
    <3>2. calls' = calls /\ MayRevive' \subseteq MayRevive
      BY <2>9, TokenRefusedEffect, <1>0 DEF MayRevive, Thens, Fresh, Moved, OnlyCall, boundVars
    <3> QED
      BY <3>1, <3>2 DEF Free
  <2> QED
    BY <1>1, <2>1, <2>2, <2>3, <2>4, <2>5, <2>6, <2>7, <2>8, <2>9 DEF ThreadStep
<1>2. ASSUME NEW p \in Procs, InCall(p)
      PROVE  Free \/ \E q \in Procs : Starts(q) \/ Revives(q)
  <2>1. CASE RegisterSession(p)
    <3>1. NoRevival
      BY <2>1, RegisterSessionEffect, Zenon DEF NoRevival
    <3>2. calls' = calls /\ MayRevive' \subseteq MayRevive
      BY <2>1, RegisterSessionEffect, <1>0 DEF MayRevive, Thens, Fresh, Moved, OnlyCall, boundVars
    <3> QED
      BY <3>1, <3>2 DEF Free
  <2>2. CASE Revive(p)
    <3>1. /\ call[p].pc = "reviving" /\ call[p].session \in created
          /\ Revived(call[p].session) /\ ops' = ops /\ calls' = calls
          /\ \E pc \in {"idle", "asking", "referencing"} : \E s : Fresh(p, pc, s)
      BY <2>2, ReviveEffect DEF boundVars
    <3>2. p \in MayRevive /\ MayRevive' \subseteq MayRevive \ {p}
      BY <3>1 DEF MayRevive, Fresh, Moved, OnlyCall
    <3> QED
      BY <3>1, <3>2 DEF Revives
  <2>3. CASE TakeReference(p)
    <3>1. NoRevival
      BY <2>3, TakeReferenceEffect, Zenon DEF NoRevival
    <3>2. calls' = calls /\ MayRevive' \subseteq MayRevive
      BY <2>3, TakeReferenceEffect, <1>0 DEF MayRevive, Thens, Fresh, Moved, OnlyCall, boundVars
    <3> QED
      BY <3>1, <3>2 DEF Free
  <2>4. CASE DidDropReference(p)
    <3>1. NoRevival
      BY <2>4, DidDropReferenceEffect, Zenon DEF NoRevival, DidClose
    <3>2. calls' = calls /\ MayRevive' \subseteq MayRevive
      BY <2>4, DidDropReferenceEffect, <1>0 DEF MayRevive, Thens, Fresh, Moved, OnlyCall, boundVars, DidClose
    <3> QED
      BY <3>1, <3>2 DEF Free
  <2>5. CASE Unregister(p)
    <3>1. NoRevival
      BY <2>5, UnregisterEffect, Zenon DEF NoRevival
    <3>2. calls' = calls /\ MayRevive' \subseteq MayRevive
      BY <2>5, UnregisterEffect, <1>0 DEF MayRevive, Thens, Fresh, Moved, OnlyCall, boundVars, Departs
    <3> QED
      BY <3>1, <3>2 DEF Free
  <2>6. CASE StopPeeking(p)
    <3>1. NoRevival
      BY <2>6, StopPeekingEffect, Zenon DEF NoRevival, DidClose
    <3>2. calls' = calls /\ MayRevive' \subseteq MayRevive
      BY <2>6, StopPeekingEffect, <1>0 DEF MayRevive, Thens, Fresh, Moved, OnlyCall, boundVars, Departs, DidClose
    <3> QED
      BY <3>1, <3>2 DEF Free
  <2>7. CASE Leave(p)
    <3>1. NoRevival
      BY <2>7, LeaveEffect, Zenon DEF NoRevival
    <3>2. calls' = calls /\ MayRevive' \subseteq MayRevive
      BY <2>7, LeaveEffect, <1>0 DEF MayRevive, Thens, Fresh, Moved, OnlyCall, boundVars
    <3> QED
      BY <3>1, <3>2 DEF Free
  <2>8. CASE LogOutSession(p) \/ Suspend(p) \/ UpdateConfiguration(p)
    <3>1. NoRevival
      BY <2>8, QuitsEffect, Zenon DEF NoRevival, Quits
    <3>2. calls' = calls /\ MayRevive' \subseteq MayRevive
      BY <2>8, QuitsEffect, <1>0 DEF MayRevive, Thens, Fresh, Moved, OnlyCall, boundVars, Quits
    <3> QED
      BY <3>1, <3>2 DEF Free
  <2>9. CASE FinishLogOut(p)
    <3>1. NoRevival
      BY <2>9, FinishLogOutEffect, Zenon DEF NoRevival
    <3>2. calls' = calls /\ MayRevive' \subseteq MayRevive
      BY <2>9, FinishLogOutEffect, <1>0 DEF MayRevive, Thens, Fresh, Moved, OnlyCall, boundVars
    <3> QED
      BY <3>1, <3>2 DEF Free
  <2>10. CASE NotifySession(p)
    <3>1. NoRevival
      BY <2>10, NotifySessionEffect, Zenon DEF NoRevival
    <3>2. calls' = calls /\ MayRevive' \subseteq MayRevive
      BY <2>10, NotifySessionEffect, <1>0 DEF MayRevive, Thens, Fresh, Moved, OnlyCall, boundVars
    <3> QED
      BY <3>1, <3>2 DEF Free
  <2>11. CASE BindSessionHandler(p)
    <3>1. NoRevival
      BY <2>11, BindSessionHandlerEffect, Zenon DEF NoRevival
    <3>2. calls' = calls /\ MayRevive' \subseteq MayRevive
      BY <2>11, BindSessionHandlerEffect, <1>0 DEF MayRevive, Thens, Fresh, Moved, OnlyCall, boundVars
    <3> QED
      BY <3>1, <3>2 DEF Free
  <2> QED
    BY <1>2, <2>1, <2>2, <2>3, <2>4, <2>5, <2>6, <2>7, <2>8, <2>9, <2>10, <2>11 DEF InCall
<1>3. ASSUME ClientSteps
      PROVE  Free \/ \E q \in Procs : Starts(q) \/ Revives(q)
  <2>1. CASE ListenerCalled
    <3>1. NoRevival
      BY <2>1, ListenerCalledEffect, Zenon DEF NoRevival
    <3>2. calls' = calls /\ MayRevive' \subseteq MayRevive
      BY <2>1, ListenerCalledEffect, ClientIsProc, <1>0 DEF MayRevive, Thens, Fresh, Moved, OnlyCall, boundVars, Continues
    <3> QED
      BY <3>1, <3>2 DEF Free
  <2>2. CASE Listen
    <3>1. NoRevival
      BY <2>2, ListenEffect, Zenon DEF NoRevival
    <3>2. calls' = calls /\ MayRevive' \subseteq MayRevive
      BY <2>2, ListenEffect, ClientIsProc, <1>0 DEF MayRevive, Thens, Fresh, Moved, OnlyCall, boundVars, Continues
    <3> QED
      BY <3>1, <3>2 DEF Free
  <2>3. CASE HandleError
    <3>1. NoRevival
      BY <2>3, HandleErrorEffect, Zenon DEF NoRevival
    <3>2. calls' = calls /\ MayRevive' \subseteq MayRevive
      BY <2>3, HandleErrorEffect, ClientIsProc, <1>0 DEF MayRevive, Thens, Fresh, Moved, OnlyCall, boundVars, Continues
    <3> QED
      BY <3>1, <3>2 DEF Free
  <2>4. CASE RespondToError
    <3>1. NoRevival
      BY <2>4, RespondToErrorEffect, Zenon DEF NoRevival
    <3>2. calls' = calls /\ MayRevive' \subseteq MayRevive
      BY <2>4, RespondToErrorEffect, ClientIsProc, <1>0 DEF MayRevive, Thens, Fresh, Moved, OnlyCall, boundVars, Continues
    <3> QED
      BY <3>1, <3>2 DEF Free
  <2>5. CASE InvalidateUser
    <3>1. NoRevival
      BY <2>5, InvalidateUserEffect, Zenon DEF NoRevival
    <3>2. calls' = calls /\ MayRevive' \subseteq MayRevive
      BY <2>5, InvalidateUserEffect, ClientIsProc, <1>0 DEF MayRevive, Thens, Fresh, Moved, OnlyCall, boundVars, Continues
    <3> QED
      BY <3>1, <3>2 DEF Free
  <2>6. CASE CompleteWait
    <3>1. NoRevival
      BY <2>6, CompleteWaitEffect, Zenon DEF NoRevival
    <3>2. calls' = calls /\ MayRevive' \subseteq MayRevive
      BY <2>6, CompleteWaitEffect, ClientIsProc, <1>0 DEF MayRevive, Thens, Fresh, Moved, OnlyCall, boundVars, Done
    <3> QED
      BY <3>1, <3>2 DEF Free
  <2> QED
    BY <1>3, <2>1, <2>2, <2>3, <2>4, <2>5, <2>6 DEF ClientSteps
<1>4. ASSUME NEW r \in requests, TokenArrives(r)
      PROVE  Free \/ \E q \in Procs : Starts(q) \/ Revives(q)
  <2>1. NoRevival
    BY <1>4, TokenArrivesEffect, Zenon DEF NoRevival
  <2>2. calls' = calls /\ MayRevive' \subseteq MayRevive
    BY <1>4, TokenArrivesEffect, <1>0 DEF MayRevive, Thens, Fresh, Moved, OnlyCall, boundVars
  <2> QED
    BY <2>1, <2>2 DEF Free
<1>5. ASSUME NEW r \in requests, ServerUnreachable(r)
      PROVE  Free \/ \E q \in Procs : Starts(q) \/ Revives(q)
  <2>1. NoRevival
    BY <1>5, ServerUnreachableEffect, Zenon DEF NoRevival
  <2>2. calls' = calls /\ MayRevive' \subseteq MayRevive
    BY <1>5, ServerUnreachableEffect, <1>0 DEF MayRevive, Thens, Fresh, Moved, OnlyCall, boundVars
  <2> QED
    BY <2>1, <2>2 DEF Free
<1>6. ASSUME NEW s \in Sessions, Upload(s)
      PROVE  Free \/ \E q \in Procs : Starts(q) \/ Revives(q)
  <2>1. NoRevival
    BY <1>6, UploadEffect, Zenon DEF NoRevival
  <2>2. calls' = calls /\ MayRevive' \subseteq MayRevive
    BY <1>6, UploadEffect, <1>0 DEF MayRevive, Thens, Fresh, Moved, OnlyCall, boundVars
  <2> QED
    BY <2>1, <2>2 DEF Free
<1>7. CASE UNCHANGED vars
  <2>1. Alike
    BY <1>7, SameSessions DEF vars, histVars, Base
  <2> QED
    BY <1>7, <2>1 DEF Free, NoRevival, MayRevive, vars, boundVars
<1> QED
  BY <1>1, <1>2, <1>3, <1>4, <1>5, <1>6, <1>7 DEF Next

LEMMA DeathsStep ==
    ASSUME Base, DeathsCounted, [Next]_vars
    PROVE  DeathsCounted'
<1>0. /\ IsFiniteSet(MayRevive) /\ calls \in Nat
      /\ \A s \in Sessions : Used(s) + Cardinality(MayRevive) <= calls
      /\ \A o \in ops : o.death <= sess[o.session].deaths
      /\ Cardinality(MayRevive) \in Nat
      /\ created \subseteq Sessions
  BY FS_CardinalityType DEF Base, Shape, DeathsCounted, Used
<1> DEFINE Paid ==
             /\ IsFiniteSet(MayRevive') /\ Cardinality(MayRevive') \in Nat
             /\ \A s \in Sessions : Used(s)' + Cardinality(MayRevive') <= calls'
<1>1. Paid
  <2>1. CASE Free
    <3>1. IsFiniteSet(MayRevive') /\ Cardinality(MayRevive') <= Cardinality(MayRevive)
          /\ Cardinality(MayRevive') \in Nat
      BY <1>0, <2>1, FS_Subset, FS_CardinalityType DEF Free
    <3> QED
      BY <1>0, <2>1, <3>1, NoRevivalUsed DEF Free
  <2>2. ASSUME NEW q \in Procs, Starts(q)
        PROVE  Paid
    <3>1. /\ IsFiniteSet(MayRevive \cup {q})
          /\ Cardinality(MayRevive \cup {q}) \in Nat
          /\ Cardinality(MayRevive \cup {q}) <= Cardinality(MayRevive) + 1
      <4>1. /\ IsFiniteSet(MayRevive \cup {q})
            /\ Cardinality(MayRevive \cup {q}) =
                 IF q \in MayRevive THEN Cardinality(MayRevive) ELSE Cardinality(MayRevive) + 1
        BY <1>0, FS_AddElement
      <4> QED
        BY <1>0, <4>1
    <3>2. IsFiniteSet(MayRevive') /\ Cardinality(MayRevive') <= Cardinality(MayRevive \cup {q})
          /\ Cardinality(MayRevive') \in Nat
      BY <2>2, <3>1, FS_Subset, FS_CardinalityType DEF Starts
    <3> QED
      BY <1>0, <2>2, <3>1, <3>2, NoRevivalUsed DEF Starts
  <2>3. ASSUME NEW q \in Procs, Revives(q)
        PROVE  Paid
    <3>1. /\ IsFiniteSet(MayRevive \ {q})
          /\ Cardinality(MayRevive \ {q}) = Cardinality(MayRevive) - 1
      BY <1>0, <2>3, FS_RemoveElement DEF Revives
    <3>2. IsFiniteSet(MayRevive') /\ Cardinality(MayRevive') <= Cardinality(MayRevive \ {q})
          /\ Cardinality(MayRevive') \in Nat
      BY <2>3, <3>1, FS_Subset, FS_CardinalityType DEF Revives
    <3>3. \A s \in Sessions : Used(s)' <= Used(s) + 1 /\ Used(s) \in Nat /\ Used(s)' \in Nat
      BY <2>3, RevivedUsed DEF Revives
    <3> QED
      BY <1>0, <2>3, <3>1, <3>2, <3>3 DEF Revives
  <2> QED
    BY <2>1, <2>2, <2>3, WhoPays
<1>2. \A s \in Sessions : /\ sess[s].deaths \in Nat /\ sess'[s].deaths \in Nat
                          /\ sess[s].deaths <= sess'[s].deaths
  <2>0. /\ \A s \in Sessions : sess[s].deaths \in Nat
        /\ \A s \in Sessions : sess'[s].deaths \in Nat
    BY ShapeStep DEF Base, Shape, SessionT
  <2>1. CASE Alike
    BY <2>0, <2>1 DEF Alike
  <2>2. ASSUME NEW r \in created, MadeInactive(r, ops) \/ Dies(r) \/ Revived(r)
                 \/ (\E w \in Waiters \ asked : Queued(r, w))
                 \/ Notified(r) \/ Expired(r) \/ Cancelled(r)
        PROVE  \A s \in Sessions : sess[s].deaths <= sess'[s].deaths
    BY <1>0, <2>0, <2>2 DEF MadeInactive, Dies, Revived, Queued, Notified, Expired, Cancelled, OnlySession
  <2>3. ASSUME NEW r \in created, Bound(r)
        PROVE  \A s \in Sessions : sess[s].deaths <= sess'[s].deaths
    <3>1. /\ OnlySession(r)
          /\ sess'[r].deaths = IF sess'[r].state = "dying" THEN sess[r].deaths + 1
                               ELSE sess[r].deaths
      BY <2>3, Zenon DEF Bound
    <3> QED
      BY <1>0, <2>0, <3>1 DEF OnlySession
  <2>4. ASSUME NEW o \in ops, o.session \in created, Done(o)
        PROVE  \A s \in Sessions : sess[s].deaths <= sess'[s].deaths
    <3>1. sess' = sess \/ MadeInactive(o.session, ops \ {o})
      BY <2>4 DEF Done
    <3> QED
      BY <1>0, <2>0, <3>1 DEF MadeInactive, OnlySession
  <2> QED
    BY <2>0, <2>1, <2>2, <2>3, <2>4, KindsOfStep DEF Kinds
<1>3. ASSUME NEW o \in ops'
      PROVE  o.death <= sess'[o.session].deaths
  <2>0. ops \subseteq OpT /\ created \subseteq Sessions
    BY DEF Base, Shape
  <2>1. CASE OldOp(o)
    <3>1. PICK q \in ops : o.session = q.session /\ o.death = q.death
      BY <2>1 DEF OldOp
    <3>2. q \in OpT
      BY <2>0
    <3>3. q.session \in Sessions /\ q.death \in Nat
      BY <3>2 DEF OpT
    <3> QED
      BY <1>0, <1>2, <3>1, <3>3
  <2>2. CASE NewOp(o)
    BY <1>2, <2>0, <2>2, NewOpFields
  <2> QED
    BY <2>1, <2>2, OpsOfStep, KindsOfStep
<1> QED
  BY <1>1, <1>3 DEF DeathsCounted, Used

LEMMA DeathsInit == Init => DeathsCounted
<1> SUFFICES ASSUME Init
             PROVE  DeathsCounted
  OBVIOUS
<1>1. MayRevive = {}
  BY DEF Init, MayRevive, Idle
<1> QED
  BY <1>1, FS_EmptySet DEF Init, DeathsCounted, NewSession

-----------------------------------------------------------------------------
(* Where waiters go *)

SameAborting == \A q \in Procs : call'[q].aborting = call[q].aborting

SameWaiters == called' = called /\ asked' = asked

(* No waiter moves. *)
Still ==
    /\ SameAborting /\ SameWaiters
    /\ \/ Alike
       \/ \E s \in created : Dies(s) \/ (Revived(s) /\ ops' = ops) \/ Notified(s) \/ Expired(s)

(* Process p has the queue of s, and will tell it. *)
TakesQueue(p, s, os) ==
    /\ MadeInactive(s, os) /\ SameWaiters
    /\ \A o \in ops \ os : o.waiter = None
    /\ call'[p].aborting = call[p].aborting \cup sess[s].queue
    /\ \A q \in Procs : q # p => call'[q].aborting = call[q].aborting

TellsAborted(p) ==
    /\ Alike /\ asked' = asked /\ Told(call[p].aborting) /\ call'[p].aborting = {}
    /\ \A q \in Procs : q # p => call'[q].aborting = call[q].aborting

BindsQueue(s) == Bound(s) /\ SameAborting /\ SameWaiters

Joins(s, w) ==
    /\ w \notin asked /\ asked' = asked \cup {w} /\ called' = called
    /\ Queued(s, w) /\ SameAborting

TellsQueue(s) == Cancelled(s) /\ SameAborting /\ asked' = asked

EndsWait(o) ==
    /\ sess' = sess /\ ops' = ops \ {o} /\ SameAborting /\ asked' = asked
    /\ IF o.waiter = None THEN called' = called ELSE Told({o.waiter})

Moves ==
    \/ Still
    \/ \E p \in Procs : TellsAborted(p)
    \/ \E s \in created :
         \/ \E p \in Procs : \E os \in SUBSET ops : TakesQueue(p, s, os)
         \/ BindsQueue(s) \/ TellsQueue(s)
         \/ \E w \in Waiters : Joins(s, w)
    \/ \E o \in ops : EndsWait(o)

LEMMA FreshAborting ==
    ASSUME Base, NEW p \in Procs, call[p].pc \notin Exits, NEW pc, NEW s, Fresh(p, pc, s)
    PROVE  SameAborting
<1>1. call[p].aborting = {}
  BY DEF Base, Places, PlaceOf
<1>2. call'[p].aborting = {} /\ \A q \in Procs : q # p => call'[q] = call[q]
  BY DEF Fresh, Moved, OnlyCall
<1> QED
  BY <1>1, <1>2 DEF SameAborting

LEMMA ContinuesAborting ==
    ASSUME Base, call[Client].pc \notin Exits, NEW pc, Continues(pc)
    PROVE  SameAborting
<1>1. call[Client].aborting = {}
  BY ClientIsProc DEF Base, Places, PlaceOf
<1>2. call'[Client].aborting = {} /\ \A q \in Procs : q # Client => call'[q] = call[q]
  BY DEF Continues, Moved, OnlyCall
<1> QED
  BY <1>1, <1>2 DEF SameAborting

LEMMA DepartsAborting ==
    ASSUME Base, NEW p \in Procs, Departs(p)
    PROVE  SameAborting
<1>1. ~call[p].leaving => call[p].aborting = {}
  BY DEF Base, Places, PlaceOf
<1>2. call'[p].aborting = (IF call[p].leaving THEN call[p].aborting ELSE {})
  BY DEF Departs
<1>3. \A q \in Procs : q # p => call'[q] = call[q]
  BY DEF Departs, OnlyCall
<1> QED
  BY <1>1, <1>2, <1>3 DEF SameAborting

(* Every step moves the waiters in one of these ways. *)
LEMMA MovesOfStep ==
    ASSUME Base, [Next]_vars
    PROVE  Moves
<1>0. \A q \in Procs : /\ call[q].pc \notin Exits => call[q].aborting = {}
                       /\ ~call[q].leaving => call[q].aborting = {}
  BY DEF Base, Places, PlaceOf
<1>1. ASSUME NEW t \in Threads, ThreadStep(t)
      PROVE  Moves
  <2>1. CASE GetSession(t)
    <3>0. call' = call \/ (call[t].pc \notin Exits /\ \E pc, s : Fresh(t, pc, s))
      BY <2>1, GetSessionEffect, ThreadIsProc DEF Exits
    <3>1. SameAborting
      BY <3>0, ThreadIsProc, FreshAborting DEF SameAborting
    <3>2. SameWaiters
      BY <2>1, GetSessionEffect DEF SameWaiters, waiterVars
    <3>3. Alike
      BY <2>1, GetSessionEffect, Zenon
    <3> QED
      BY <3>1, <3>2, <3>3, Zenon DEF Still, Moves
  <2>2. CASE DropReference(t)
    <3>0. call' = call \/ (call[t].pc \notin Exits /\ \E pc, s : Fresh(t, pc, s))
      BY <2>2, DropReferenceEffect, ThreadIsProc DEF Exits
    <3>1. SameAborting
      BY <3>0, ThreadIsProc, FreshAborting DEF SameAborting
    <3>2. SameWaiters
      BY <2>2, DropReferenceEffect DEF SameWaiters, waiterVars
    <3>3. Alike
      BY <2>2, DropReferenceEffect, Zenon
    <3> QED
      BY <3>1, <3>2, <3>3, Zenon DEF Still, Moves
  <2>3. CASE UserLogOut(t)
    <3>0. call' = call \/ (call[t].pc \notin Exits /\ \E pc, s : Fresh(t, pc, s))
      BY <2>3, UserLogOutEffect, ThreadIsProc DEF Exits
    <3>1. SameAborting
      BY <3>0, ThreadIsProc, FreshAborting DEF SameAborting
    <3>2. SameWaiters
      BY <2>3, UserLogOutEffect DEF SameWaiters, waiterVars
    <3>3. Alike
      BY <2>3, UserLogOutEffect, Zenon
    <3> QED
      BY <3>1, <3>2, <3>3, Zenon DEF Still, Moves
  <2>4. CASE LogIn(t)
    <3>0. call' = call \/ (call[t].pc \notin Exits /\ \E pc, s : Fresh(t, pc, s))
      BY <2>4, LogInEffect, ThreadIsProc DEF Exits, Begins
    <3>1. SameAborting
      BY <3>0, ThreadIsProc, FreshAborting DEF SameAborting
    <3>2. SameWaiters
      BY <2>4, LogInEffect DEF SameWaiters, waiterVars, Begins
    <3>3. Alike
      BY <2>4, LogInEffect, Zenon DEF Begins
    <3> QED
      BY <3>1, <3>2, <3>3, Zenon DEF Still, Moves
  <2>5. CASE WaitForCompletion(t)
    <3>1. /\ refs[t] \in created /\ called' = called /\ call' = call
          /\ \E w \in Waiters \ asked : asked' = asked \cup {w} /\ Queued(refs[t], w)
      BY <2>5, WaitForCompletionEffect
    <3> QED
      BY <3>1 DEF Moves, Joins, SameAborting
  <2>6. CASE Commit(t)
    <3>0. call' = call \/ (call[t].pc \notin Exits /\ \E pc, s : Fresh(t, pc, s))
      BY <2>6, CommitEffect, ThreadIsProc DEF Exits
    <3>1. SameAborting
      BY <3>0, ThreadIsProc, FreshAborting DEF SameAborting
    <3>2. SameWaiters
      BY <2>6, CommitEffect DEF SameWaiters, waiterVars
    <3>3. Alike
      BY <2>6, CommitEffect, Zenon
    <3> QED
      BY <3>1, <3>2, <3>3, Zenon DEF Still, Moves
  <2>7. CASE Reconnect(t)
    <3>0. call' = call \/ (call[t].pc \notin Exits /\ \E pc, s : Fresh(t, pc, s))
      BY <2>7, ReconnectEffect, ThreadIsProc DEF Exits
    <3>1. SameAborting
      BY <3>0, ThreadIsProc, FreshAborting DEF SameAborting
    <3>2. SameWaiters
      BY <2>7, ReconnectEffect DEF SameWaiters, waiterVars
    <3>3. Alike
      BY <2>7, ReconnectEffect, Zenon
    <3> QED
      BY <3>1, <3>2, <3>3, Zenon DEF Still, Moves
  <2>8. CASE \/ Lock(t, "suspend", "suspending") \/ Lock(t, "resume", "reviving")
             \/ Lock(t, "update_configuration", "reconfiguring")
    <3>1. ASSUME NEW c, NEW pc \in {"reviving", "suspending", "reconfiguring"}, Lock(t, c, pc)
          PROVE  Moves
      <4>1. Begins(t)
        BY <3>1, LockEffect
      <4>2. call' = call \/ (call[t].pc \notin Exits /\ \E q, s : Fresh(t, q, s))
        BY <4>1 DEF Begins, Exits
      <4>3. SameAborting
        BY <4>2, ThreadIsProc, FreshAborting DEF SameAborting
      <4> QED
        BY <4>1, <4>3 DEF Begins, SameWaiters, waiterVars, Still, Moves
    <3> QED
      BY <2>8, <3>1
  <2>9. ASSUME NEW r \in requests, TokenRefused(t, r)
        PROVE  Moves
    <3>0. call' = call \/ (call[t].pc \notin Exits /\ \E pc, s : Fresh(t, pc, s))
      BY <2>9, TokenRefusedEffect, ThreadIsProc DEF Exits, Begins
    <3>1. SameAborting
      BY <3>0, ThreadIsProc, FreshAborting DEF SameAborting
    <3>2. SameWaiters
      BY <2>9, TokenRefusedEffect DEF SameWaiters, waiterVars, Begins
    <3>3. Alike
      BY <2>9, TokenRefusedEffect, Zenon DEF Begins
    <3> QED
      BY <3>1, <3>2, <3>3, Zenon DEF Still, Moves
  <2> QED
    BY <1>1, <2>1, <2>2, <2>3, <2>4, <2>5, <2>6, <2>7, <2>8, <2>9 DEF ThreadStep
<1>2. ASSUME NEW p \in Procs, InCall(p)
      PROVE  Moves
  <2>1. CASE RegisterSession(p)
    <3>0. call' = call \/ (call[p].pc \notin Exits /\ \E pc, s : Fresh(p, pc, s))
      BY <2>1, RegisterSessionEffect DEF Exits
    <3>1. SameAborting
      BY <3>0, FreshAborting DEF SameAborting
    <3>2. SameWaiters
      BY <2>1, RegisterSessionEffect DEF SameWaiters, waiterVars
    <3>3. Alike
      BY <2>1, RegisterSessionEffect, Zenon
    <3> QED
      BY <3>1, <3>2, <3>3, Zenon DEF Still, Moves
  <2>2. CASE Revive(p)
    <3>0. call' = call \/ (call[p].pc \notin Exits /\ \E pc, s : Fresh(p, pc, s))
      BY <2>2, ReviveEffect DEF Exits
    <3>1. SameAborting
      BY <3>0, FreshAborting DEF SameAborting
    <3>2. SameWaiters
      BY <2>2, ReviveEffect DEF SameWaiters, waiterVars
    <3>3. \E s \in created : Revived(s) /\ ops' = ops
      BY <2>2, ReviveEffect, Zenon
    <3> QED
      BY <3>1, <3>2, <3>3, Zenon DEF Still, Moves
  <2>3. CASE TakeReference(p)
    <3>0. call' = call \/ (call[p].pc \notin Exits /\ \E pc, s : Fresh(p, pc, s))
      BY <2>3, TakeReferenceEffect DEF Exits
    <3>1. SameAborting
      BY <3>0, FreshAborting DEF SameAborting
    <3>2. SameWaiters
      BY <2>3, TakeReferenceEffect DEF SameWaiters, waiterVars
    <3>3. Alike
      BY <2>3, TakeReferenceEffect, Zenon
    <3> QED
      BY <3>1, <3>2, <3>3, Zenon DEF Still, Moves
  <2>4. CASE DidDropReference(p)
    <3>1. SameWaiters
      BY <2>4, DidDropReferenceEffect DEF SameWaiters, waiterVars
    <3>2. CASE DidClose(p, call[p].session, "idle")
      <4>1. \/ MadeInactive(call[p].session, ops) /\ call[p].session \in created
               /\ call'[p].aborting = call[p].aborting \cup sess[call[p].session].queue
               /\ OnlyCall(p)
            \/ Alike /\ SameAborting
        BY <2>4, <3>2, DidDropReferenceEffect DEF DidClose, SameAborting, Exits, Fresh, Moved, OnlyCall
      <4>2. ASSUME MadeInactive(call[p].session, ops), call[p].session \in created,
                   call'[p].aborting = call[p].aborting \cup sess[call[p].session].queue,
                   OnlyCall(p)
            PROVE  Moves
        <5>1. TakesQueue(p, call[p].session, ops)
          BY <3>1, <4>2 DEF TakesQueue, OnlyCall
        <5> QED
          BY <4>2, <5>1 DEF Moves
      <4> QED
        BY <3>1, <4>1, <4>2 DEF Still, Moves
    <3>3. CASE (Alike \/ Dies(call[p].session)) /\ Fresh(p, "idle", None)
      <4>1. SameAborting
        <5>1. call[p].pc \notin Exits
          BY <2>4, DidDropReferenceEffect DEF Exits
        <5> QED
          BY <3>3, <5>1, FreshAborting, DepartsAborting
      <4>2. call[p].session \in created
        BY <2>4, DidDropReferenceEffect
      <4> QED
        BY <3>1, <3>3, <4>1, <4>2 DEF Still, Moves
    <3> QED
      BY <2>4, <3>2, <3>3, DidDropReferenceEffect, Zenon
  <2>5. CASE Unregister(p)
    <3>0. call' = call \/ Departs(p) \/ \A q \in Procs : call'[q].aborting = call[q].aborting
      BY <2>5, UnregisterEffect DEF Exits, Moved, OnlyCall
    <3>1. SameAborting
      BY <3>0, FreshAborting, DepartsAborting DEF SameAborting
    <3>2. SameWaiters
      BY <2>5, UnregisterEffect DEF SameWaiters, waiterVars
    <3>3. Alike
      BY <2>5, UnregisterEffect, Zenon
    <3> QED
      BY <3>1, <3>2, <3>3, Zenon DEF Still, Moves
  <2>6. CASE StopPeeking(p)
    <3>1. SameWaiters
      BY <2>6, StopPeekingEffect DEF SameWaiters, waiterVars
    <3>2. CASE \E then \in Thens : DidClose(p, call[p].peek, then)
      <4>1. \/ MadeInactive(call[p].peek, ops) /\ call[p].peek \in created
               /\ call'[p].aborting = call[p].aborting \cup sess[call[p].peek].queue
               /\ OnlyCall(p)
            \/ Alike /\ SameAborting
        BY <2>6, <3>2, StopPeekingEffect DEF DidClose, SameAborting, Exits, Fresh, Moved, OnlyCall
      <4>2. ASSUME MadeInactive(call[p].peek, ops), call[p].peek \in created,
                   call'[p].aborting = call[p].aborting \cup sess[call[p].peek].queue,
                   OnlyCall(p)
            PROVE  Moves
        <5>1. TakesQueue(p, call[p].peek, ops)
          BY <3>1, <4>2 DEF TakesQueue, OnlyCall
        <5> QED
          BY <4>2, <5>1 DEF Moves
      <4> QED
        BY <3>1, <4>1, <4>2 DEF Still, Moves
    <3>3. CASE (Alike \/ Dies(call[p].peek)) /\ Departs(p)
      <4>1. SameAborting
        <5>1. call[p].pc = "peeking"
          BY <2>6, StopPeekingEffect DEF Exits
        <5> QED
          BY <3>3, <5>1, FreshAborting, DepartsAborting
      <4>2. call[p].peek \in created
        BY <2>6, StopPeekingEffect
      <4> QED
        BY <3>1, <3>3, <4>1, <4>2 DEF Still, Moves
    <3> QED
      BY <2>6, <3>2, <3>3, StopPeekingEffect, Zenon
  <2>7. CASE Leave(p)
    <3>1. /\ TellsAborted(p)
      BY <2>7, LeaveEffect DEF TellsAborted, Fresh, Moved, OnlyCall
    <3> QED
      BY <3>1 DEF Moves
  <2>8. CASE LogOutSession(p) \/ Suspend(p) \/ UpdateConfiguration(p)
    <3>1. PICK then, pc : call[p].pc \notin Exits /\ Quits(p, then, pc)
      BY <2>8, QuitsEffect DEF Exits
    <3>2. SameWaiters
      BY <3>1 DEF Quits, SameWaiters, waiterVars
    <3>3. CASE Alike /\ Fresh(p, pc, IF pc = "idle" THEN None ELSE call[p].session)
      <4>1. SameAborting
        BY <3>1, <3>3, FreshAborting
      <4> QED
        BY <3>2, <3>3, <4>1 DEF Still, Moves
    <3>4. CASE /\ MadeInactive(call[p].session, ops)
               /\ Moved(p, "unregistering", call[p].session, then, TRUE, None,
                       call[p].aborting \cup sess[call[p].session].queue)
      <4>1. TakesQueue(p, call[p].session, ops)
        BY <3>2, <3>4 DEF TakesQueue, Moved, OnlyCall
      <4>2. call[p].session \in created
        BY <3>1 DEF Quits
      <4> QED
        BY <4>1, <4>2 DEF Moves
    <3> QED
      BY <3>1, <3>3, <3>4 DEF Quits
  <2>9. CASE FinishLogOut(p)
    <3>0. call' = call \/ (call[p].pc \notin Exits /\ \E pc, s : Fresh(p, pc, s))
      BY <2>9, FinishLogOutEffect DEF Exits
    <3>1. SameAborting
      BY <3>0, FreshAborting DEF SameAborting
    <3>2. SameWaiters
      BY <2>9, FinishLogOutEffect DEF SameWaiters, waiterVars
    <3>3. Alike
      BY <2>9, FinishLogOutEffect, Zenon
    <3> QED
      BY <3>1, <3>2, <3>3, Zenon DEF Still, Moves
  <2>10. CASE NotifySession(p)
    <3>0. call' = call \/ (call[p].pc \notin Exits /\ \E pc, s : Fresh(p, pc, s))
      BY <2>10, NotifySessionEffect DEF Exits
    <3>1. SameAborting
      BY <3>0, FreshAborting DEF SameAborting
    <3>2. SameWaiters
      BY <2>10, NotifySessionEffect DEF SameWaiters, waiterVars
    <3>3. \E s \in created : Notified(s)
      BY <2>10, NotifySessionEffect, Zenon
    <3> QED
      BY <3>1, <3>2, <3>3, Zenon DEF Still, Moves
  <2>11. CASE BindSessionHandler(p)
    <3>0. call' = call \/ (call[p].pc \notin Exits /\ \E pc, s : Fresh(p, pc, s))
      BY <2>11, BindSessionHandlerEffect DEF Exits
    <3>1. SameAborting
      BY <3>0, FreshAborting DEF SameAborting
    <3>2. SameWaiters
      BY <2>11, BindSessionHandlerEffect DEF SameWaiters, waiterVars
    <3>3. Alike
      BY <2>11, BindSessionHandlerEffect, Zenon
    <3> QED
      BY <3>1, <3>2, <3>3, Zenon DEF Still, Moves
  <2> QED
    BY <1>2, <2>1, <2>2, <2>3, <2>4, <2>5, <2>6, <2>7, <2>8, <2>9, <2>10, <2>11 DEF InCall
<1>3. ASSUME ClientSteps
      PROVE  Moves
  <2>1. CASE ListenerCalled
    <3>0. call[Client].pc \notin Exits /\ ((\E pc, s : Fresh(Client, pc, s)) \/ \E pc : Continues(pc))
      BY <2>1, ListenerCalledEffect, ClientIsProc DEF Exits
    <3>1. SameAborting
      BY <3>0, ClientIsProc, FreshAborting, ContinuesAborting DEF SameAborting
    <3>2. SameWaiters
      BY <2>1, ListenerCalledEffect DEF SameWaiters, waiterVars
    <3>3. Alike
      BY <2>1, ListenerCalledEffect, Zenon
    <3> QED
      BY <3>1, <3>2, <3>3, Zenon DEF Still, Moves
  <2>2. CASE Listen
    <3>0. call[Client].pc \notin Exits /\ ((\E pc, s : Fresh(Client, pc, s)) \/ \E pc : Continues(pc))
      BY <2>2, ListenEffect, ClientIsProc DEF Exits
    <3>1. SameAborting
      BY <3>0, ClientIsProc, FreshAborting, ContinuesAborting DEF SameAborting
    <3>2. SameWaiters
      BY <2>2, ListenEffect DEF SameWaiters, waiterVars
    <3>3. Alike
      BY <2>2, ListenEffect, Zenon
    <3> QED
      BY <3>1, <3>2, <3>3, Zenon DEF Still, Moves
  <2>3. CASE HandleError
    <3>1. ASSUME MadeInactive(call[Client].session, ops), called' = called,
                 Moved(Client, "unregistering", call[Client].session, "idle", TRUE, None,
                       call[Client].aborting \cup sess[call[Client].session].queue)
          PROVE  Moves
      <4>1. asked' = asked /\ call[Client].session \in created
        BY <2>3, HandleErrorEffect DEF waiterVars
      <4>2. TakesQueue(Client, call[Client].session, ops)
        BY <3>1, <4>1 DEF TakesQueue, SameWaiters, Moved, OnlyCall
      <4> QED
        BY <4>1, <4>2, ClientIsProc DEF Moves
    <3>2. CASE Alike /\ (Fresh(Client, "idle", None) \/ Continues("responding"))
      <4>1. SameAborting
        <5>1. call[Client].pc \notin Exits
          BY <2>3, HandleErrorEffect DEF Exits
        <5> QED
          BY <3>2, <5>1, ClientIsProc, FreshAborting, ContinuesAborting
      <4>2. SameWaiters
        BY <2>3, HandleErrorEffect DEF SameWaiters, waiterVars
      <4> QED
        BY <3>2, <4>1, <4>2 DEF Still, Moves
    <3>3. called' = called
      BY <2>3, HandleErrorEffect DEF waiterVars
    <3> QED
      BY <2>3, <3>1, <3>2, <3>3, HandleErrorEffect, Zenon
  <2>4. CASE RespondToError
    <3>1. ASSUME MadeInactive(call[Client].session, ops), called' = called,
                 Moved(Client, "unregistering", call[Client].session, "idle", TRUE, None,
                       call[Client].aborting \cup sess[call[Client].session].queue)
          PROVE  Moves
      <4>1. asked' = asked /\ call[Client].session \in created
        BY <2>4, RespondToErrorEffect DEF waiterVars
      <4>2. TakesQueue(Client, call[Client].session, ops)
        BY <3>1, <4>1 DEF TakesQueue, SameWaiters, Moved, OnlyCall
      <4> QED
        BY <4>1, <4>2, ClientIsProc DEF Moves
    <3>2. ASSUME NEW pc, NEW s, Fresh(Client, pc, s)
          PROVE  SameAborting /\ asked' = asked /\ call[Client].session \in created
      <4>1. call[Client].pc \notin Exits /\ asked' = asked /\ call[Client].session \in created
        BY <2>4, RespondToErrorEffect DEF Exits
      <4> QED
        BY <3>2, <4>1, ClientIsProc, FreshAborting
    <3>3. CASE \/ Alike /\ called' = called /\ Fresh(Client, "idle", None)
               \/ /\ Expired(call[Client].session)
                  /\ Fresh(Client, "asking", call[Client].session)
      <4>1. SameAborting /\ asked' = asked /\ call[Client].session \in created
        BY <3>2, <3>3
      <4> QED
        BY <3>3, <4>1 DEF Still, Moves, SameWaiters, Expired
    <3>4. CASE /\ Cancelled(call[Client].session)
               /\ \/ Fresh(Client, "idle", None)
                  \/ Fresh(Client, "invalidating", call[Client].session)
      <4>1. SameAborting /\ asked' = asked /\ call[Client].session \in created
        BY <3>2, <3>4
      <4> QED
        BY <3>4, <4>1 DEF TellsQueue, Moves
    <3> QED
      BY <2>4, <3>1, <3>3, <3>4, RespondToErrorEffect, Zenon
  <2>5. CASE InvalidateUser
    <3>0. call[Client].pc \notin Exits /\ ((\E pc, s : Fresh(Client, pc, s)) \/ \E pc : Continues(pc))
      BY <2>5, InvalidateUserEffect, ClientIsProc DEF Exits
    <3>1. SameAborting
      BY <3>0, ClientIsProc, FreshAborting, ContinuesAborting DEF SameAborting
    <3>2. SameWaiters
      BY <2>5, InvalidateUserEffect DEF SameWaiters, waiterVars
    <3>3. Alike
      BY <2>5, InvalidateUserEffect, Zenon
    <3> QED
      BY <3>1, <3>2, <3>3, Zenon DEF Still, Moves
  <2>6. CASE CompleteWait
    <3>1. PICK o \in ops : o.session \in created /\ Done(o)
      BY <2>6, CompleteWaitEffect
    <3>2. asked' = asked /\ call[Client].aborting = {}
      <4>1. asked' = asked /\ call[Client].pc \notin Exits
        BY <2>6, CompleteWaitEffect DEF Exits
      <4>2. call[Client].aborting = {}
        BY <4>1, ClientIsProc DEF Base, Places, PlaceOf
      <4> QED
        BY <4>1, <4>2
    <3>3. CASE /\ sess' = sess /\ call' = call /\ ops' = ops \ {o}
               /\ IF o.waiter = None THEN called' = called ELSE Told({o.waiter})
      BY <3>2, <3>3 DEF Moves, EndsWait, SameAborting
    <3>4. CASE /\ o.waiter = None /\ called' = called /\ MadeInactive(o.session, ops \ {o})
               /\ Moved(Client, "unregistering", o.session, "idle", TRUE, None, sess[o.session].queue)
      <4>1. TakesQueue(Client, o.session, ops \ {o})
        BY <3>2, <3>4 DEF TakesQueue, SameWaiters, Moved, OnlyCall
      <4> QED
        BY <3>1, <4>1, ClientIsProc DEF Moves
    <3> QED
      BY <3>1, <3>3, <3>4 DEF Done
  <2> QED
    BY <1>3, <2>1, <2>2, <2>3, <2>4, <2>5, <2>6 DEF ClientSteps
<1>4. ASSUME NEW r \in requests, TokenArrives(r)
      PROVE  Moves
  <2>1. call' = call /\ SameWaiters
    BY <1>4, TokenArrivesEffect DEF SameWaiters, waiterVars
  <2>2. (\E s \in created : Bound(s)) \/ Alike
    BY <1>4, TokenArrivesEffect, Zenon
  <2> QED
    BY <2>1, <2>2 DEF Moves, Still, BindsQueue, SameAborting
<1>5. ASSUME NEW r \in requests, ServerUnreachable(r)
      PROVE  Moves
  <2>1. SameAborting /\ SameWaiters
    BY <1>5, ServerUnreachableEffect DEF SameAborting, SameWaiters, waiterVars
  <2>2. Alike
    BY <1>5, ServerUnreachableEffect, Zenon
  <2> QED
    BY <2>1, <2>2, Zenon DEF Still, Moves
<1>6. ASSUME NEW s \in Sessions, Upload(s)
      PROVE  Moves
  <2>1. SameAborting /\ SameWaiters
    BY <1>6, UploadEffect DEF SameAborting, SameWaiters, waiterVars
  <2>2. Alike
    BY <1>6, UploadEffect, Zenon
  <2> QED
    BY <2>1, <2>2, Zenon DEF Still, Moves
<1>7. CASE UNCHANGED vars
  <2>1. Alike
    BY <1>7, SameSessions DEF vars, histVars, Base
  <2> QED
    BY <1>7, <2>1 DEF Still, Moves, SameAborting, SameWaiters, vars, waiterVars
<1> QED
  BY <1>1, <1>2, <1>3, <1>4, <1>5, <1>6, <1>7 DEF Next

(* The wait operations of w are those before the step, aborted or not. *)
OpsKept(w) ==
    /\ OpsOf(w) = {} => OpsOf(w)' = {}
    /\ (\E o \in ops : OpsOf(w) = {o}) => \E o \in ops' : OpsOf(w)' = {o}

LEMMA Unmoved ==
    ASSUME NEW w, OnePlace(w), (w \in asked') <=> (w \in asked),
           called'[w] = called[w], Queues(w)' = Queues(w), OpsKept(w),
           Aborters(w)' = Aborters(w)
    PROVE  OnePlace(w)'
  BY DEF OnePlace, OpsKept

LEMMA SameOps ==
    ASSUME NEW w, OpsOf(w)' = OpsOf(w)
    PROVE  OpsKept(w)
<1>1. ASSUME NEW o \in ops, OpsOf(w) = {o}
      PROVE  o \in ops'
  BY <1>1 DEF OpsOf
<1> QED
  BY <1>1 DEF OpsKept

LEMMA AbortedOps ==
    ASSUME Base, NEW w \in Waiters, NEW s \in Sessions, NEW os \in SUBSET ops,
           \A o \in ops \ os : o.waiter = None, ops' = Aborted(s, os)
    PROVE  OpsKept(w)
<1>0. ops \subseteq OpT /\ os \in SUBSET OpT /\ w # None
  BY SyncAssumption DEF Base, Shape
<1> DEFINE After(o) == IF o.session = s THEN [o EXCEPT !.aborted = TRUE] ELSE o
<1>1. ASSUME NEW q \in OpT
      PROVE  After(q).waiter = q.waiter
  BY DEF OpT
<1>2. ops' = {After(o) : o \in os}
  BY DEF Aborted
<1> HIDE DEF After
<1>3. \A o \in ops' : \E q \in os : o = After(q) /\ o.waiter = q.waiter
  BY <1>0, <1>1, <1>2
<1>4. ASSUME OpsOf(w) = {} PROVE OpsOf(w)' = {}
  BY <1>3, <1>4 DEF OpsOf
<1>5. ASSUME NEW q \in ops, OpsOf(w) = {q}
      PROVE  \E o \in ops' : OpsOf(w)' = {o}
  <2>1. q \in os /\ q.waiter = w
    BY <1>0, <1>5 DEF OpsOf
  <2>2. After(q) \in ops' /\ After(q).waiter = w
    BY <1>0, <1>1, <1>2, <2>1
  <2>3. \A o \in ops' : o.waiter = w => o = After(q)
    BY <1>3, <1>5 DEF OpsOf
  <2>4. OpsOf(w)' = {After(q)}
    BY <2>2, <2>3 DEF OpsOf
  <2> QED
    BY <2>2, <2>4
<1> QED
  BY <1>4, <1>5 DEF OpsKept

(* A death is nobody's wait operation. *)
LEMMA DeathOps ==
    ASSUME NEW w \in Waiters, NEW s, NEW d, NEW v,
           ops' = ops \cup {WaitOp(s, None, d, v)}
    PROVE  OpsOf(w)' = OpsOf(w)
<1>1. WaitOp(s, None, d, v).waiter # w
  BY SyncAssumption DEF WaitOp
<1> QED
  BY <1>1 DEF OpsOf

LEMMA SameQueues ==
    ASSUME NEW w, \A s \in Sessions : sess'[s].queue = sess[s].queue
    PROVE  Queues(w)' = Queues(w)
  BY DEF Queues

LEMMA SameAborters ==
    ASSUME NEW w, SameAborting
    PROVE  Aborters(w)' = Aborters(w)
  BY DEF SameAborting, Aborters

LEMMA StillPlaced ==
    ASSUME Base, Still, NEW w \in Waiters, OnePlace(w)
    PROVE  OnePlace(w)'
<1>1. called' = called /\ asked' = asked /\ Aborters(w)' = Aborters(w)
  BY SameAborters DEF Still, SameWaiters
<1> DEFINE Calm ==
             /\ \A s \in Sessions : sess'[s].queue = sess[s].queue
             /\ ops' = ops \/ \E s, d, v : ops' = ops \cup {WaitOp(s, None, d, v)}
<1>2. Calm
  <2>1. CASE Alike
    BY <2>1 DEF Alike
  <2>2. ASSUME NEW s \in created,
               Dies(s) \/ (Revived(s) /\ ops' = ops) \/ Notified(s) \/ Expired(s)
        PROVE  Calm
    <3>1. /\ OnlySession(s) /\ sess'[s].queue = sess[s].queue
          /\ \/ ops' = ops
             \/ ops' = ops \cup {WaitOp(s, None, sess[s].deaths + 1, sess[s].announced)}
      BY <2>2, Zenon DEF Dies, Revived, Notified, Expired
    <3>2. \A r \in Sessions : sess'[r].queue = sess[r].queue
      BY <3>1 DEF OnlySession
    <3> QED
      BY <3>1, <3>2
  <2> QED
    BY <2>1, <2>2 DEF Still
<1>3. OpsOf(w)' = OpsOf(w)
  <2>1. CASE ops' = ops
    BY <2>1 DEF OpsOf
  <2> QED
    BY <1>2, <2>1, DeathOps
<1> QED
  BY <1>1, <1>2, <1>3, SameOps, SameQueues, Unmoved

LEMMA TakesQueuePlaced ==
    ASSUME Base, NEW p \in Procs, NEW s \in created, NEW os \in SUBSET ops,
           TakesQueue(p, s, os), NEW w \in Waiters, OnePlace(w)
    PROVE  OnePlace(w)'
<1>0. s \in Sessions
  BY DEF Base, Shape
<1>1. OpsKept(w)
  BY <1>0, AbortedOps DEF TakesQueue, MadeInactive
<1>2. called' = called /\ asked' = asked
  BY DEF TakesQueue, SameWaiters
<1>3. Queues(w)' = Queues(w) \ {s}
  BY <1>0 DEF TakesQueue, MadeInactive, OnlySession, Queues
<1>4. Aborters(w)' = Aborters(w) \cup (IF w \in sess[s].queue THEN {p} ELSE {})
  BY DEF TakesQueue, Aborters
<1>5. CASE w \in sess[s].queue
  <2>1. s \in Queues(w)
    BY <1>0, <1>5 DEF Queues
  <2>2. /\ w \in asked /\ called[w] = 0 /\ Queues(w) = {s}
        /\ OpsOf(w) = {} /\ Aborters(w) = {}
    BY <2>1 DEF OnePlace
  <2>3. /\ w \in asked' /\ called'[w] = 0 /\ Queues(w)' = {}
        /\ OpsOf(w)' = {} /\ Aborters(w)' = {p}
    BY <1>1, <1>2, <1>3, <1>4, <1>5, <2>2 DEF OpsKept
  <2> QED
    BY <2>3 DEF OnePlace
<1>6. CASE w \notin sess[s].queue
  <2>1. s \notin Queues(w)
    BY <1>6 DEF Queues
  <2>2. Queues(w)' = Queues(w) /\ Aborters(w)' = Aborters(w)
    BY <1>3, <1>4, <1>6, <2>1
  <2> QED
    BY <1>1, <1>2, <2>2, Unmoved
<1> QED
  BY <1>5, <1>6

LEMMA TellsAbortedPlaced ==
    ASSUME Base, NEW p \in Procs, TellsAborted(p), NEW w \in Waiters, OnePlace(w)
    PROVE  OnePlace(w)'
<1>1. /\ asked' = asked /\ called \in [Waiters -> Nat]
      /\ called'[w] = IF w \in call[p].aborting THEN called[w] + 1 ELSE called[w]
  BY DEF TellsAborted, Told, Base, Shape
<1>2. Queues(w)' = Queues(w) /\ OpsOf(w)' = OpsOf(w)
  BY DEF TellsAborted, Alike, Queues, OpsOf
<1>3. Aborters(w)' = Aborters(w) \ {p}
  BY DEF TellsAborted, Aborters
<1>4. CASE w \in call[p].aborting
  <2>1. p \in Aborters(w)
    BY <1>4 DEF Aborters
  <2>2. /\ w \in asked /\ called[w] = 0 /\ Queues(w) = {}
        /\ OpsOf(w) = {} /\ Aborters(w) = {p}
    BY <2>1 DEF OnePlace
  <2>3. /\ w \in asked' /\ called'[w] = 1 /\ Queues(w)' = {}
        /\ OpsOf(w)' = {} /\ Aborters(w)' = {}
    BY <1>1, <1>2, <1>3, <1>4, <2>2
  <2> QED
    BY <2>3 DEF OnePlace
<1>5. CASE w \notin call[p].aborting
  <2>1. Aborters(w)' = Aborters(w)
    BY <1>3, <1>5 DEF Aborters
  <2> QED
    BY <1>1, <1>2, <1>5, <2>1, SameOps, Unmoved
<1> QED
  BY <1>4, <1>5

LEMMA TellsQueuePlaced ==
    ASSUME Base, NEW s \in created, TellsQueue(s), NEW w \in Waiters, OnePlace(w)
    PROVE  OnePlace(w)'
<1>0. s \in Sessions
  BY DEF Base, Shape
<1>1. /\ asked' = asked /\ called \in [Waiters -> Nat]
      /\ called'[w] = IF w \in sess[s].queue THEN called[w] + 1 ELSE called[w]
  BY DEF TellsQueue, Cancelled, Told, Base, Shape
<1>2. OpsOf(w)' = OpsOf(w) /\ Aborters(w)' = Aborters(w)
  BY SameAborters DEF TellsQueue, Cancelled, OpsOf
<1>3. Queues(w)' = Queues(w) \ {s}
  BY <1>0 DEF TellsQueue, Cancelled, OnlySession, Queues
<1>4. CASE w \in sess[s].queue
  <2>1. s \in Queues(w)
    BY <1>0, <1>4 DEF Queues
  <2>2. /\ w \in asked /\ called[w] = 0 /\ Queues(w) = {s}
        /\ OpsOf(w) = {} /\ Aborters(w) = {}
    BY <2>1 DEF OnePlace
  <2>3. /\ w \in asked' /\ called'[w] = 1 /\ Queues(w)' = {}
        /\ OpsOf(w)' = {} /\ Aborters(w)' = {}
    BY <1>1, <1>2, <1>3, <1>4, <2>2
  <2> QED
    BY <2>3 DEF OnePlace
<1>5. CASE w \notin sess[s].queue
  <2>1. Queues(w)' = Queues(w)
    BY <1>3, <1>5 DEF Queues
  <2> QED
    BY <1>1, <1>2, <1>5, <2>1, SameOps, Unmoved
<1> QED
  BY <1>4, <1>5

LEMMA BindsQueuePlaced ==
    ASSUME Base, NEW s \in created, BindsQueue(s), NEW w \in Waiters, OnePlace(w)
    PROVE  OnePlace(w)'
<1>0. s \in Sessions /\ sess[s].queue \subseteq Waiters /\ None \notin Waiters
  BY SyncAssumption DEF Base, Shape, SessionT
<1>1. called' = called /\ asked' = asked /\ Aborters(w)' = Aborters(w)
  BY SameAborters DEF BindsQueue, SameWaiters
<1> DEFINE b == IF sess[s].linked THEN sess[s].announced ELSE committed
           d == sess[s].deaths + 1
           v == Higher(b, sess[s].deferredCommit)
<1>2. ops' = ops \cup {WaitOp(s, u, 0, b) : u \in sess[s].queue}
                 \cup (IF sess'[s].state = "dying" THEN {WaitOp(s, None, d, v)} ELSE {})
  BY Zenon DEF BindsQueue, Bound
<1> HIDE DEF b, d, v
<1>3. OnlySession(s) /\ sess'[s].queue = {}
  BY Zenon DEF BindsQueue, Bound
<1>4. Queues(w)' = Queues(w) \ {s}
  BY <1>0, <1>3 DEF OnlySession, Queues
<1>5. \A u, x, y : WaitOp(s, u, x, y).waiter = u
  BY DEF WaitOp
<1>6. OpsOf(w)' = OpsOf(w) \cup (IF w \in sess[s].queue THEN {WaitOp(s, w, 0, b)} ELSE {})
  BY <1>0, <1>2, <1>5 DEF OpsOf
<1>7. CASE w \in sess[s].queue
  <2>1. s \in Queues(w)
    BY <1>0, <1>7 DEF Queues
  <2>2. /\ w \in asked /\ called[w] = 0 /\ Queues(w) = {s}
        /\ OpsOf(w) = {} /\ Aborters(w) = {}
    BY <2>1 DEF OnePlace
  <2>3. /\ w \in asked' /\ called'[w] = 0 /\ Queues(w)' = {}
        /\ OpsOf(w)' = {WaitOp(s, w, 0, b)} /\ Aborters(w)' = {}
    BY <1>1, <1>4, <1>6, <1>7, <2>2
  <2>4. WaitOp(s, w, 0, b) \in ops'
    BY <1>2, <1>7
  <2> QED
    BY <2>3, <2>4 DEF OnePlace
<1>8. CASE w \notin sess[s].queue
  <2>1. Queues(w)' = Queues(w) /\ OpsOf(w)' = OpsOf(w)
    BY <1>4, <1>6, <1>8 DEF Queues
  <2> QED
    BY <1>1, <2>1, SameOps, Unmoved
<1> QED
  BY <1>7, <1>8

LEMMA JoinsPlaced ==
    ASSUME Base, NEW s \in created, NEW v \in Waiters, Joins(s, v),
           NEW w \in Waiters, OnePlace(w)
    PROVE  OnePlace(w)'
<1>0. s \in Sessions
  BY DEF Base, Shape
<1>1. called' = called /\ asked' = asked \cup {v} /\ v \notin asked
      /\ Aborters(w)' = Aborters(w)
  BY SameAborters DEF Joins
<1>2. OnlySession(s) /\ \/ sess'[s].queue = sess[s].queue \cup {v} /\ ops' = ops
                        \/ /\ sess'[s].queue = sess[s].queue
                           /\ ops' = ops \cup {WaitOp(s, v, 0, sess[s].announced)}
  BY DEF Joins, Queued
<1>3. WaitOp(s, v, 0, sess[s].announced).waiter = v
  BY DEF WaitOp
<1>4. \/ /\ Queues(w)' = Queues(w) \cup (IF w = v THEN {s} ELSE {})
         /\ OpsOf(w)' = OpsOf(w)
      \/ /\ Queues(w)' = Queues(w)
         /\ OpsOf(w)' = OpsOf(w)
              \cup (IF w = v THEN {WaitOp(s, v, 0, sess[s].announced)} ELSE {})
  <2>1. CASE sess'[s].queue = sess[s].queue \cup {v} /\ ops' = ops
    BY <1>0, <1>2, <2>1 DEF OnlySession, Queues, OpsOf
  <2>2. CASE /\ sess'[s].queue = sess[s].queue
             /\ ops' = ops \cup {WaitOp(s, v, 0, sess[s].announced)}
    <3>1. Queues(w)' = Queues(w)
      BY <1>2, <2>2 DEF OnlySession, Queues
    <3>2. OpsOf(w)' = OpsOf(w)
              \cup (IF w = v THEN {WaitOp(s, v, 0, sess[s].announced)} ELSE {})
      BY <1>3, <2>2 DEF OpsOf
    <3> QED
      BY <3>1, <3>2
  <2> QED
    BY <1>2, <2>1, <2>2
<1>5. CASE w = v
  <2>1. /\ called[w] = 0 /\ Queues(w) = {} /\ OpsOf(w) = {} /\ Aborters(w) = {}
    BY <1>1, <1>5 DEF OnePlace
  <2>2. /\ w \in asked' /\ called'[w] = 0 /\ Aborters(w)' = {}
        /\ \/ Queues(w)' = {s} /\ OpsOf(w)' = {}
           \/ Queues(w)' = {} /\ OpsOf(w)' = {WaitOp(s, v, 0, sess[s].announced)}
    BY <1>1, <1>4, <1>5, <2>1
  <2>3. CASE Queues(w)' = {s} /\ OpsOf(w)' = {}
    BY <1>0, <2>2, <2>3 DEF OnePlace
  <2>4. CASE Queues(w)' = {} /\ OpsOf(w)' = {WaitOp(s, v, 0, sess[s].announced)}
    <3>1. WaitOp(s, v, 0, sess[s].announced) \in ops'
      BY <2>4 DEF OpsOf
    <3> QED
      BY <2>2, <2>4, <3>1 DEF OnePlace
  <2> QED
    BY <2>2, <2>3, <2>4
<1>6. CASE w # v
  <2>1. Queues(w)' = Queues(w) /\ OpsOf(w)' = OpsOf(w)
    BY <1>4, <1>6
  <2> QED
    BY <1>1, <1>6, <2>1, SameOps, Unmoved
<1> QED
  BY <1>5, <1>6

LEMMA EndsWaitPlaced ==
    ASSUME Base, NEW o \in ops, EndsWait(o), NEW w \in Waiters, OnePlace(w)
    PROVE  OnePlace(w)'
<1>1. /\ asked' = asked /\ Aborters(w)' = Aborters(w) /\ called \in [Waiters -> Nat]
      /\ w # None /\ called'[w] = IF w = o.waiter THEN called[w] + 1 ELSE called[w]
  BY SameAborters, SyncAssumption DEF EndsWait, Told, Base, Shape
<1>2. Queues(w)' = Queues(w)
  BY DEF EndsWait, Queues
<1>3. OpsOf(w)' = OpsOf(w) \ {o}
  BY DEF EndsWait, OpsOf
<1>4. CASE w = o.waiter
  <2>1. o \in OpsOf(w)
    BY <1>4 DEF OpsOf
  <2>2. /\ w \in asked /\ called[w] = 0 /\ Queues(w) = {}
        /\ OpsOf(w) = {o} /\ Aborters(w) = {}
    BY <2>1 DEF OnePlace
  <2>3. /\ w \in asked' /\ called'[w] = 1 /\ Queues(w)' = {}
        /\ OpsOf(w)' = {} /\ Aborters(w)' = {}
    BY <1>1, <1>2, <1>3, <1>4, <2>2
  <2> QED
    BY <2>3 DEF OnePlace
<1>5. CASE w # o.waiter
  <2>1. OpsOf(w)' = OpsOf(w)
    BY <1>3, <1>5 DEF OpsOf
  <2> QED
    BY <1>1, <1>2, <1>5, <2>1, SameOps, Unmoved
<1> QED
  BY <1>4, <1>5

LEMMA InPlaceStep ==
    ASSUME Base, InPlace, [Next]_vars
    PROVE  InPlace'
<1> SUFFICES ASSUME NEW w \in Waiters
             PROVE  OnePlace(w)'
  BY DEF InPlace
<1>1. OnePlace(w)
  BY DEF InPlace
<1> QED
  BY <1>1, MovesOfStep, StillPlaced, TakesQueuePlaced, TellsAbortedPlaced,
     TellsQueuePlaced, BindsQueuePlaced, JoinsPlaced, EndsWaitPlaced, Zenon DEF Moves

LEMMA InPlaceInit == Init => InPlace
  BY DEF Init, InPlace, OnePlace, Queues, OpsOf, Aborters, NewSession, Idle

-----------------------------------------------------------------------------
(* Sessions and their sync::Sessions *)

(* Process q has yet to say that its session is disconnected, or waits for  *)
(* itself and will never say it. *)
StillLeaving(q) ==
    /\ call'[q].leaving /\ (Waits(q) => Waits(q)')
    /\ call'[q].session = call[q].session \/ Waits(q)'

LEMMA OtherLeaving ==
    ASSUME NEW q, call[q].leaving, call'[q] = call[q], Waits(q) => sessionLock' = q
    PROVE  StillLeaving(q)
  BY DEF StillLeaving, Waits

(* Only Leave comes to an end with leaving a session. *)
LEMMA LeavingStep ==
    ASSUME Base, NEW q \in Procs, call[q].leaving, [Next]_vars
    PROVE  StillLeaving(q) \/ Leave(q)
<1>0. call[q].pc \in Exits /\ q # None
  BY SyncAssumption DEF Base, Places, PlaceOf
<1>1. ASSUME NEW t \in Threads, ThreadStep(t)
      PROVE  StillLeaving(q) \/ Leave(q)
  <2>1. CASE GetSession(t)
    <3>1. /\ call[t].pc \notin Exits /\ OnlyCall(t) /\ sessionLock = None
      BY <2>1, GetSessionEffect DEF Exits, Fresh, Moved
    <3> QED
      BY <1>0, <3>1, OtherLeaving DEF OnlyCall, Waits
  <2>2. CASE DropReference(t)
    <3>1. /\ call' = call \/ (call[t].pc \notin Exits /\ OnlyCall(t))
          /\ sessionLock' = sessionLock
      BY <2>2, DropReferenceEffect DEF Exits, Fresh, Moved, lockVars
    <3> QED
      BY <1>0, <3>1, OtherLeaving DEF OnlyCall, Waits
  <2>3. CASE UserLogOut(t)
    <3>1. /\ call' = call \/ (call[t].pc \notin Exits /\ OnlyCall(t))
          /\ sessionLock' = sessionLock
      BY <2>3, UserLogOutEffect DEF Exits, Fresh, Moved, lockVars
    <3> QED
      BY <1>0, <3>1, OtherLeaving DEF OnlyCall, Waits
  <2>4. CASE LogIn(t)
    <3>1. /\ call' = call \/ (call[t].pc \notin Exits /\ OnlyCall(t))
          /\ sessionLock' = sessionLock
      BY <2>4, LogInEffect DEF Exits, Fresh, Moved, lockVars, Begins
    <3> QED
      BY <1>0, <3>1, OtherLeaving DEF OnlyCall, Waits
  <2>5. CASE WaitForCompletion(t)
    <3>1. /\ call' = call \/ (call[t].pc \notin Exits /\ OnlyCall(t))
          /\ sessionLock' = sessionLock
      BY <2>5, WaitForCompletionEffect DEF Exits, Fresh, Moved, lockVars
    <3> QED
      BY <1>0, <3>1, OtherLeaving DEF OnlyCall, Waits
  <2>6. CASE Commit(t)
    <3>1. /\ call' = call \/ (call[t].pc \notin Exits /\ OnlyCall(t))
          /\ sessionLock' = sessionLock
      BY <2>6, CommitEffect DEF Exits, Fresh, Moved, lockVars
    <3> QED
      BY <1>0, <3>1, OtherLeaving DEF OnlyCall, Waits
  <2>7. CASE Reconnect(t)
    <3>1. /\ call[t].pc \notin Exits /\ OnlyCall(t) /\ sessionLock = None
      BY <2>7, ReconnectEffect DEF Exits, Fresh, Moved
    <3> QED
      BY <1>0, <3>1, OtherLeaving DEF OnlyCall, Waits
  <2>8. CASE \/ Lock(t, "suspend", "suspending") \/ Lock(t, "resume", "reviving")
             \/ Lock(t, "update_configuration", "reconfiguring")
    <3>1. ASSUME NEW c, NEW pc \in {"reviving", "suspending", "reconfiguring"}, Lock(t, c, pc)
          PROVE  StillLeaving(q)
      <4>1. /\ call' = call \/ (call[t].pc \notin Exits /\ OnlyCall(t))
            /\ sessionLock' = sessionLock
        BY <3>1, LockEffect DEF Begins, Exits, Fresh, Moved, lockVars
      <4> QED
        BY <1>0, <4>1, OtherLeaving DEF OnlyCall, Waits
    <3> QED
      BY <2>8, <3>1
  <2>9. ASSUME NEW r \in requests, TokenRefused(t, r)
        PROVE  StillLeaving(q) \/ Leave(q)
    <3>1. /\ call' = call \/ (call[t].pc \notin Exits /\ OnlyCall(t))
          /\ sessionLock' = sessionLock
      BY <2>9, TokenRefusedEffect DEF Exits, Fresh, Moved, lockVars, Begins
    <3> QED
      BY <1>0, <3>1, OtherLeaving DEF OnlyCall, Waits
  <2> QED
    BY <1>1, <2>1, <2>2, <2>3, <2>4, <2>5, <2>6, <2>7, <2>8, <2>9 DEF ThreadStep
<1>2. ASSUME NEW p \in Procs, InCall(p)
      PROVE  StillLeaving(q) \/ Leave(q)
  <2>1. CASE RegisterSession(p)
    <3>1. /\ call' = call \/ (call[p].pc \notin Exits /\ OnlyCall(p))
          /\ sessionLock' = sessionLock
      BY <2>1, RegisterSessionEffect DEF Exits, Fresh, Moved, lockVars
    <3> QED
      BY <1>0, <3>1, OtherLeaving DEF OnlyCall, Waits
  <2>2. CASE Revive(p)
    <3>1. /\ call' = call \/ (call[p].pc \notin Exits /\ OnlyCall(p))
          /\ sessionLock' = sessionLock
      BY <2>2, ReviveEffect DEF Exits, Fresh, Moved, lockVars
    <3> QED
      BY <1>0, <3>1, OtherLeaving DEF OnlyCall, Waits
  <2>3. CASE TakeReference(p)
    <3>1. call[p].pc = "referencing" /\ "referencing" \notin Exits /\ OnlyCall(p)
      BY <2>3, TakeReferenceEffect DEF Exits, Fresh, Moved
    <3>2. sessionLock = p
      BY <3>1 DEF Base, Places, PlaceOf
    <3> QED
      BY <1>0, <3>1, <3>2, OtherLeaving DEF OnlyCall, Waits
  <2>4. CASE DidDropReference(p)
    <3>1. /\ call' = call \/ (call[p].pc \notin Exits /\ OnlyCall(p))
          /\ sessionLock' = sessionLock
      BY <2>4, DidDropReferenceEffect DEF Exits, Fresh, Moved, lockVars, DidClose
    <3> QED
      BY <1>0, <3>1, OtherLeaving DEF OnlyCall, Waits
  <2>5. CASE Unregister(p)
    <3>1. sessionLock = None
      BY <2>5, UnregisterEffect
    <3>2. CASE q = p
      BY <2>5, <1>0, <3>1, <3>2, UnregisterEffect DEF StillLeaving, Waits, Moved, Departs
    <3>3. CASE q # p
      <4>1. call'[q] = call[q]
        BY <2>5, <3>3, UnregisterEffect DEF Moved, Departs, OnlyCall
      <4> QED
        BY <1>0, <3>1, <4>1, OtherLeaving DEF Waits
    <3> QED
      BY <3>2, <3>3
  <2>6. CASE StopPeeking(p)
    <3>1. /\ call[p].pc = "peeking"
          /\ \/ \E then \in Thens : DidClose(p, call[p].peek, then) /\ sessionLock' = p
             \/ Departs(p)
      BY <2>6, StopPeekingEffect
    <3>2. sessionLock = p
      BY <3>1 DEF Base, Places, PlaceOf
    <3>3. CASE q = p
      BY <3>1, <3>3 DEF StillLeaving, Waits, DidClose, Moved, Departs
    <3>4. CASE q # p
      <4>1. call'[q] = call[q]
        BY <3>1, <3>4 DEF DidClose, Moved, Departs, OnlyCall
      <4> QED
        BY <3>2, <3>4, <4>1, OtherLeaving DEF Waits
    <3> QED
      BY <3>3, <3>4
  <2>7. CASE Leave(p)
    <3>1. CASE q # p
      <4>1. call'[q] = call[q] /\ sessionLock' = sessionLock
        BY <2>7, <3>1, LeaveEffect DEF Fresh, Moved, OnlyCall, lockVars
      <4> QED
        BY <4>1, OtherLeaving DEF Waits
    <3> QED
      BY <2>7, <3>1
  <2>8. CASE LogOutSession(p) \/ Suspend(p) \/ UpdateConfiguration(p)
    <3>1. /\ call' = call \/ (call[p].pc \notin Exits /\ OnlyCall(p))
          /\ sessionLock' = sessionLock
      BY <2>8, QuitsEffect DEF Exits, Fresh, Moved, lockVars, Quits
    <3> QED
      BY <1>0, <3>1, OtherLeaving DEF OnlyCall, Waits
  <2>9. CASE FinishLogOut(p)
    <3>1. /\ call' = call \/ (call[p].pc \notin Exits /\ OnlyCall(p))
          /\ sessionLock' = sessionLock
      BY <2>9, FinishLogOutEffect DEF Exits, Fresh, Moved, lockVars
    <3> QED
      BY <1>0, <3>1, OtherLeaving DEF OnlyCall, Waits
  <2>10. CASE NotifySession(p)
    <3>1. /\ call' = call \/ (call[p].pc \notin Exits /\ OnlyCall(p))
          /\ sessionLock' = sessionLock
      BY <2>10, NotifySessionEffect DEF Exits, Fresh, Moved, lockVars
    <3> QED
      BY <1>0, <3>1, OtherLeaving DEF OnlyCall, Waits
  <2>11. CASE BindSessionHandler(p)
    <3>1. /\ call[p].pc \in {"asking", "reconnecting"} /\ OnlyCall(p)
          /\ sessionLock' = sessionLock \/ call[p].pc = "reconnecting"
      BY <2>11, BindSessionHandlerEffect DEF Fresh, Moved
    <3>2. sessionLock' = sessionLock \/ sessionLock = p
      BY <3>1 DEF Base, Places, PlaceOf
    <3> QED
      BY <1>0, <3>1, <3>2, OtherLeaving DEF Exits, OnlyCall, Waits
  <2> QED
    BY <1>2, <2>1, <2>2, <2>3, <2>4, <2>5, <2>6, <2>7, <2>8, <2>9, <2>10, <2>11 DEF InCall
<1>3. ASSUME ClientSteps
      PROVE  StillLeaving(q) \/ Leave(q)
  <2>1. CASE ListenerCalled
    <3>1. /\ call' = call \/ (call[Client].pc \notin Exits /\ OnlyCall(Client))
          /\ sessionLock' = sessionLock
      BY <2>1, ListenerCalledEffect DEF Exits, Fresh, Moved, lockVars, Continues
    <3> QED
      BY <1>0, <3>1, OtherLeaving DEF OnlyCall, Waits
  <2>2. CASE Listen
    <3>1. /\ call' = call \/ (call[Client].pc \notin Exits /\ OnlyCall(Client))
          /\ sessionLock' = sessionLock
      BY <2>2, ListenEffect DEF Exits, Fresh, Moved, lockVars, Continues
    <3> QED
      BY <1>0, <3>1, OtherLeaving DEF OnlyCall, Waits
  <2>3. CASE HandleError
    <3>1. /\ call' = call \/ (call[Client].pc \notin Exits /\ OnlyCall(Client))
          /\ sessionLock' = sessionLock
      BY <2>3, HandleErrorEffect DEF Exits, Fresh, Moved, lockVars, Continues
    <3> QED
      BY <1>0, <3>1, OtherLeaving DEF OnlyCall, Waits
  <2>4. CASE RespondToError
    <3>1. /\ call' = call \/ (call[Client].pc \notin Exits /\ OnlyCall(Client))
          /\ sessionLock' = sessionLock
      BY <2>4, RespondToErrorEffect DEF Exits, Fresh, Moved, lockVars, Continues
    <3> QED
      BY <1>0, <3>1, OtherLeaving DEF OnlyCall, Waits
  <2>5. CASE InvalidateUser
    <3>1. /\ call' = call \/ (call[Client].pc \notin Exits /\ OnlyCall(Client))
          /\ sessionLock' = sessionLock
      BY <2>5, InvalidateUserEffect DEF Exits, Fresh, Moved, lockVars, Continues
    <3> QED
      BY <1>0, <3>1, OtherLeaving DEF OnlyCall, Waits
  <2>6. CASE CompleteWait
    <3>1. /\ call' = call \/ (call[Client].pc \notin Exits /\ OnlyCall(Client))
          /\ sessionLock' = sessionLock
      BY <2>6, CompleteWaitEffect DEF Exits, Fresh, Moved, lockVars, Done
    <3> QED
      BY <1>0, <3>1, OtherLeaving DEF OnlyCall, Waits
  <2> QED
    BY <1>3, <2>1, <2>2, <2>3, <2>4, <2>5, <2>6 DEF ClientSteps
<1>4. ASSUME NEW r \in requests, TokenArrives(r)
      PROVE  StillLeaving(q) \/ Leave(q)
  <2>1. call' = call /\ sessionLock' = sessionLock
    BY <1>4, TokenArrivesEffect DEF lockVars
  <2> QED
    BY <2>1, OtherLeaving DEF Waits
<1>5. ASSUME NEW r \in requests, ServerUnreachable(r)
      PROVE  StillLeaving(q) \/ Leave(q)
  <2>1. call' = call /\ sessionLock' = sessionLock
    BY <1>5, ServerUnreachableEffect DEF lockVars
  <2> QED
    BY <2>1, OtherLeaving DEF Waits
<1>6. ASSUME NEW s \in Sessions, Upload(s)
      PROVE  StillLeaving(q) \/ Leave(q)
  <2>1. call' = call /\ sessionLock' = sessionLock
    BY <1>6, UploadEffect DEF lockVars
  <2> QED
    BY <2>1, OtherLeaving DEF Waits
<1>7. CASE UNCHANGED vars
  BY <1>7, OtherLeaving DEF Waits, vars, lockVars
<1> QED
  BY <1>1, <1>2, <1>3, <1>4, <1>5, <1>6, <1>7 DEF Next

(* No session connects or loses its sync::Session. *)
Steady ==
    /\ \A s \in Sessions : /\ sess'[s].connected => sess[s].connected
                           /\ sess[s].linked => sess'[s].linked
    /\ strays \subseteq strays'

Ended(p, s, os) ==
    /\ MadeInactive(s, os) /\ strays' = strays
    /\ call'[p].leaving /\ call'[p].session = s

Disconnects(p) ==
    LET s == call[p].session
    IN  /\ OnlySession(s) /\ Alike /\ ~sess'[s].connected /\ strays' = strays
        /\ call[p].pc # "unregistering" /\ OnlyCall(p) /\ sessionLock' = sessionLock

Listens ==
    \E s \in Sessions : /\ OnlySession(s) /\ Alike
                        /\ strays' = IF sess[s].linked THEN strays ELSE strays \cup {s}

LEMMA SteadySession ==
    ASSUME NEW s \in Sessions, OnlySession(s), sess'[s].connected = sess[s].connected,
           sess[s].linked => sess'[s].linked, strays' = strays
    PROVE  Steady
  BY DEF Steady, OnlySession

LinksChange ==
    \/ Steady \/ Listens
    \/ \E q \in Procs : Disconnects(q) \/ \E s \in created : \E os : Ended(q, s, os)

(* What a step does to the links of the sessions *)
LEMMA LinksOfStep ==
    ASSUME Base, [Next]_vars
    PROVE  LinksChange
<1>0. created \subseteq Sessions
  BY DEF Base, Shape
<1>1. ASSUME NEW t \in Threads, ThreadStep(t)
      PROVE  LinksChange
  <2>1. CASE GetSession(t)
    <3>1. sess' = sess /\ strays' = strays
      BY <2>1, GetSessionEffect
    <3> QED
      BY <3>1 DEF Steady, LinksChange
  <2>2. CASE DropReference(t)
    <3>1. sess' = sess /\ strays' = strays
      BY <2>2, DropReferenceEffect
    <3> QED
      BY <3>1 DEF Steady, LinksChange
  <2>3. CASE UserLogOut(t)
    <3>1. sess' = sess /\ strays' = strays
      BY <2>3, UserLogOutEffect
    <3> QED
      BY <3>1 DEF Steady, LinksChange
  <2>4. CASE LogIn(t)
    <3>1. sess' = sess /\ strays' = strays
      BY <2>4, LogInEffect DEF Begins
    <3> QED
      BY <3>1 DEF Steady, LinksChange
  <2>5. CASE WaitForCompletion(t)
    <3>1. refs[t] \in Sessions /\ strays' = strays
      BY <2>5, <1>0, WaitForCompletionEffect
    <3>2. /\ OnlySession(refs[t]) /\ sess'[refs[t]].connected = sess[refs[t]].connected
          /\ sess[refs[t]].linked => sess'[refs[t]].linked
      BY <2>5, WaitForCompletionEffect DEF Queued, SameData
    <3> QED
      BY <3>1, <3>2, SteadySession DEF LinksChange
  <2>6. CASE Commit(t)
    <3>1. sess' = sess /\ strays' = strays
      BY <2>6, CommitEffect
    <3> QED
      BY <3>1 DEF Steady, LinksChange
  <2>7. CASE Reconnect(t)
    <3>1. sess' = sess /\ strays' = strays
      BY <2>7, ReconnectEffect
    <3> QED
      BY <3>1 DEF Steady, LinksChange
  <2>8. CASE \/ Lock(t, "suspend", "suspending") \/ Lock(t, "resume", "reviving")
             \/ Lock(t, "update_configuration", "reconfiguring")
    <3>1. ASSUME NEW c, NEW pc \in {"reviving", "suspending", "reconfiguring"}, Lock(t, c, pc)
          PROVE  sess' = sess /\ strays' = strays
      BY <3>1, LockEffect DEF Begins
    <3>2. sess' = sess /\ strays' = strays
      BY <2>8, <3>1
    <3> QED
      BY <3>2 DEF Steady, LinksChange
  <2>9. ASSUME NEW r \in requests, TokenRefused(t, r)
        PROVE  LinksChange
    <3>1. sess' = sess /\ strays' = strays
      BY <2>9, TokenRefusedEffect DEF Begins
    <3> QED
      BY <3>1 DEF Steady, LinksChange
  <2> QED
    BY <1>1, <2>1, <2>2, <2>3, <2>4, <2>5, <2>6, <2>7, <2>8, <2>9 DEF ThreadStep
<1>2. ASSUME NEW p \in Procs, InCall(p)
      PROVE  LinksChange
  <2>1. CASE RegisterSession(p)
    <3>1. sess' = sess /\ strays' = strays
      BY <2>1, RegisterSessionEffect
    <3> QED
      BY <3>1 DEF Steady, LinksChange
  <2>2. CASE Revive(p)
    <3>1. call[p].session \in Sessions /\ strays' = strays
      BY <2>2, <1>0, ReviveEffect
    <3>2. /\ OnlySession(call[p].session) /\ sess'[call[p].session].connected = sess[call[p].session].connected
          /\ sess[call[p].session].linked => sess'[call[p].session].linked
      BY <2>2, ReviveEffect DEF Revived, SameData
    <3> QED
      BY <3>1, <3>2, SteadySession DEF LinksChange
  <2>3. CASE TakeReference(p)
    <3>1. sess' = sess /\ strays' = strays
      BY <2>3, TakeReferenceEffect
    <3> QED
      BY <3>1 DEF Steady, LinksChange
  <2>4. CASE DidDropReference(p)
    <3>1. call[p].session \in created /\ strays' = strays
      BY <2>4, DidDropReferenceEffect
    <3>2. CASE DidClose(p, call[p].session, "idle")
      <4>1. \/ /\ MadeInactive(call[p].session, ops) /\ call'[p].leaving /\ call'[p].session = call[p].session
            \/ Alike /\ \A r \in Sessions : sess'[r].connected = sess[r].connected
        BY <3>2 DEF DidClose, Moved
      <4> QED
        BY <3>1, <4>1 DEF Ended, Steady, Alike, LinksChange
    <3>3. CASE Alike /\ StaysConnected
      BY <3>1, <3>3 DEF Steady, Alike, StaysConnected, LinksChange
    <3>4. CASE Dies(call[p].session)
      BY <1>0, <3>1, <3>4, SteadySession DEF Dies, SameData, LinksChange
    <3> QED
      BY <2>4, <3>2, <3>3, <3>4, DidDropReferenceEffect, Zenon
  <2>5. CASE Unregister(p)
    <3>1. sess' = sess /\ strays' = strays
      BY <2>5, UnregisterEffect
    <3> QED
      BY <3>1 DEF Steady, LinksChange
  <2>6. CASE StopPeeking(p)
    <3>1. call[p].peek \in created /\ strays' = strays
      BY <2>6, StopPeekingEffect
    <3>2. CASE \E then \in Thens : DidClose(p, call[p].peek, then)
      <4>1. \/ /\ MadeInactive(call[p].peek, ops) /\ call'[p].leaving /\ call'[p].session = call[p].peek
            \/ Alike /\ \A r \in Sessions : sess'[r].connected = sess[r].connected
        BY <3>2 DEF DidClose, Moved
      <4> QED
        BY <3>1, <4>1 DEF Ended, Steady, Alike, LinksChange
    <3>3. CASE Alike /\ StaysConnected
      BY <3>1, <3>3 DEF Steady, Alike, StaysConnected, LinksChange
    <3>4. CASE Dies(call[p].peek)
      BY <1>0, <3>1, <3>4, SteadySession DEF Dies, SameData, LinksChange
    <3> QED
      BY <2>6, <3>2, <3>3, <3>4, StopPeekingEffect, Zenon
  <2>7. CASE Leave(p)
    <3>1. Disconnects(p)
      BY <2>7, LeaveEffect DEF Disconnects, Fresh, Moved, lockVars
    <3> QED
      BY <3>1 DEF LinksChange
  <2>8. CASE LogOutSession(p) \/ Suspend(p) \/ UpdateConfiguration(p)
    <3>1. PICK then, pc : Quits(p, then, pc)
      BY <2>8, QuitsEffect
    <3>2. strays' = strays /\ call[p].session \in created
      BY <3>1 DEF Quits
    <3>3. CASE sess' = sess
      BY <3>2, <3>3 DEF Steady, LinksChange
    <3>4. CASE /\ MadeInactive(call[p].session, ops)
               /\ Moved(p, "unregistering", call[p].session, then, TRUE, None,
                       call[p].aborting \cup sess[call[p].session].queue)
      BY <3>2, <3>4 DEF Moved, Ended, LinksChange
    <3> QED
      BY <3>1, <3>3, <3>4 DEF Quits
  <2>9. CASE FinishLogOut(p)
    <3>1. sess' = sess /\ strays' = strays
      BY <2>9, FinishLogOutEffect
    <3> QED
      BY <3>1 DEF Steady, LinksChange
  <2>10. CASE NotifySession(p)
    <3>1. call[p].session \in Sessions /\ strays' = strays
      BY <2>10, <1>0, NotifySessionEffect
    <3>2. /\ OnlySession(call[p].session) /\ sess'[call[p].session].connected = sess[call[p].session].connected
          /\ sess[call[p].session].linked => sess'[call[p].session].linked
      BY <2>10, NotifySessionEffect DEF Notified
    <3> QED
      BY <3>1, <3>2, SteadySession DEF LinksChange
  <2>11. CASE BindSessionHandler(p)
    <3>1. sess' = sess /\ strays' = strays
      BY <2>11, BindSessionHandlerEffect
    <3> QED
      BY <3>1 DEF Steady, LinksChange
  <2> QED
    BY <1>2, <2>1, <2>2, <2>3, <2>4, <2>5, <2>6, <2>7, <2>8, <2>9, <2>10, <2>11 DEF InCall
<1>3. ASSUME ClientSteps
      PROVE  LinksChange
  <2>1. CASE ListenerCalled
    <3>1. sess' = sess /\ strays' = strays
      BY <2>1, ListenerCalledEffect
    <3> QED
      BY <3>1 DEF Steady, LinksChange
  <2>2. CASE Listen
    <3>1. Listens
      BY <2>2, <1>0, ListenEffect DEF Listens
    <3> QED
      BY <3>1 DEF LinksChange
  <2>3. CASE HandleError
    <3>1. strays' = strays /\ call[Client].session \in created /\ call[Client].session \in Sessions
      BY <2>3, <1>0, HandleErrorEffect
    <3>2. CASE sess' = sess
      BY <3>1, <3>2 DEF Steady, LinksChange
    <3>3. CASE /\ MadeInactive(call[Client].session, ops)
               /\ Moved(Client, "unregistering", call[Client].session, "idle", TRUE, None,
                        call[Client].aborting \cup sess[call[Client].session].queue)
      BY <3>1, <3>3, ClientIsProc DEF Moved, Ended, LinksChange
    <3> QED
      BY <2>3, <3>2, <3>3, HandleErrorEffect, Zenon
  <2>4. CASE RespondToError
    <3>1. strays' = strays /\ call[Client].session \in created /\ call[Client].session \in Sessions
      BY <2>4, <1>0, RespondToErrorEffect
    <3>2. CASE sess' = sess
      BY <3>1, <3>2 DEF Steady, LinksChange
    <3>3. CASE /\ MadeInactive(call[Client].session, ops)
               /\ Moved(Client, "unregistering", call[Client].session, "idle", TRUE, None,
                        call[Client].aborting \cup sess[call[Client].session].queue)
      BY <3>1, <3>3, ClientIsProc DEF Moved, Ended, LinksChange
    <3>4. CASE Expired(call[Client].session) \/ Cancelled(call[Client].session)
      BY <3>1, <3>4, SteadySession DEF Expired, Cancelled, SameData, LinksChange
    <3> QED
      BY <2>4, <3>2, <3>3, <3>4, RespondToErrorEffect, Zenon
  <2>5. CASE InvalidateUser
    <3>1. sess' = sess /\ strays' = strays
      BY <2>5, InvalidateUserEffect
    <3> QED
      BY <3>1 DEF Steady, LinksChange
  <2>6. CASE CompleteWait
    <3>1. PICK o \in ops : o.session \in created /\ Done(o)
      BY <2>6, CompleteWaitEffect
    <3>2. strays' = strays
      BY <2>6, CompleteWaitEffect
    <3>3. CASE sess' = sess
      BY <3>2, <3>3 DEF Steady, LinksChange
    <3>4. CASE /\ MadeInactive(o.session, ops \ {o})
               /\ Moved(Client, "unregistering", o.session, "idle", TRUE, None, sess[o.session].queue)
      BY <3>1, <3>2, <3>4, ClientIsProc DEF Moved, Ended, LinksChange
    <3> QED
      BY <3>1, <3>3, <3>4 DEF Done
  <2> QED
    BY <1>3, <2>1, <2>2, <2>3, <2>4, <2>5, <2>6 DEF ClientSteps
<1>4. ASSUME NEW r \in requests, TokenArrives(r)
      PROVE  LinksChange
  <2>1. strays' = strays
    BY <1>4, TokenArrivesEffect
  <2>2. CASE sess' = sess
    BY <2>1, <2>2 DEF Steady, LinksChange
  <2>3. ASSUME NEW s \in created, Bound(s)
        PROVE  LinksChange
    <3>1. OnlySession(s) /\ sess'[s].connected = sess[s].connected /\ sess'[s].linked
      BY <2>3, Zenon DEF Bound
    <3> QED
      BY <1>0, <2>1, <3>1, SteadySession DEF LinksChange
  <2> QED
    BY <1>4, <2>2, <2>3, TokenArrivesEffect, Zenon
<1>5. ASSUME NEW r \in requests, ServerUnreachable(r)
      PROVE  LinksChange
  <2>1. sess' = sess /\ strays' = strays
    BY <1>5, ServerUnreachableEffect
  <2> QED
    BY <2>1 DEF Steady, LinksChange
<1>6. ASSUME NEW s \in Sessions, Upload(s)
      PROVE  LinksChange
  <2>1. sess' = sess /\ strays' = strays
    BY <1>6, UploadEffect
  <2> QED
    BY <2>1 DEF Steady, LinksChange
<1>7. CASE UNCHANGED vars
  BY <1>7 DEF Steady, LinksChange, vars, histVars
<1> QED
  BY <1>1, <1>2, <1>3, <1>4, <1>5, <1>6, <1>7 DEF Next

LEMMA LinkedStep ==
    ASSUME Base, ActiveIsLinked, [Next]_vars
    PROVE  ActiveIsLinked'
<1>0. /\ \A s \in Sessions :
           /\ sess[s].state \in {"active", "dying"} => sess[s].linked /\ sess[s].queue = {}
           /\ sess[s].state = "inactive" => ~sess[s].linked
      /\ created \subseteq Sessions
  BY DEF ActiveIsLinked, Base, Shape
<1> DEFINE Links ==
      \A s \in Sessions :
        /\ sess'[s].state \in {"active", "dying"} => sess'[s].linked /\ sess'[s].queue = {}
        /\ sess'[s].state = "inactive" => ~sess'[s].linked
<1>1. Links
  <2>1. CASE Alike
    BY <1>0, <2>1 DEF Alike
  <2>2. ASSUME NEW s \in created, OnlySession(s),
               sess'[s].state \in {"active", "dying"} => sess'[s].linked /\ sess'[s].queue = {},
               sess'[s].state = "inactive" => ~sess'[s].linked
        PROVE  Links
    BY <1>0, <2>2 DEF OnlySession
  <2>3. ASSUME NEW s \in created, NEW os, MadeInactive(s, os)
        PROVE  Links
    BY <2>2, <2>3 DEF MadeInactive
  <2>4. ASSUME NEW s \in created, Dies(s) \/ Revived(s) \/ Notified(s) \/ Expired(s)
                 \/ Cancelled(s) \/ \E w \in Waiters \ asked : Queued(s, w)
        PROVE  Links
    <3>1. s \in Sessions /\ sess[s].state \in States
      BY <1>0 DEF Base, Shape, SessionT
    <3>2. /\ OnlySession(s)
          /\ sess'[s].state \in {"active", "dying"} => sess'[s].linked /\ sess'[s].queue = {}
          /\ sess'[s].state = "inactive" => ~sess'[s].linked
      BY <1>0, <2>4, <3>1 DEF Dies, Revived, Notified, Expired, Cancelled, Queued, States
    <3> QED
      BY <2>2, <3>2
  <2>5. ASSUME NEW s \in created, Bound(s)
        PROVE  Links
    <3>1. OnlySession(s) /\ sess'[s].linked /\ sess'[s].queue = {}
          /\ sess'[s].state \in {"active", "dying"}
      BY <2>5, Zenon DEF Bound
    <3> QED
      BY <2>2, <3>1
  <2>6. ASSUME NEW o \in ops, o.session \in created, Done(o)
        PROVE  Links
    BY <1>0, <2>3, <2>6 DEF Done
  <2> QED
    BY <2>1, <2>3, <2>4, <2>5, <2>6, KindsOfStep, Zenon DEF Kinds
<1> DEFINE Excused(s) == \E p \in Procs : call[p].leaving /\ (call[p].session = s \/ Waits(p))
<1>2. ASSUME NEW s \in Sessions, sess'[s].connected
      PROVE  sess'[s].linked \/ s \in strays' \/ Excused(s)'
  <2>1. sess[s].connected => sess[s].linked \/ s \in strays \/ Excused(s)
    BY DEF ActiveIsLinked
  <2>2. ASSUME Excused(s), \A p \in Procs : ~Disconnects(p)
        PROVE  Excused(s)'
    <3>1. PICK p \in Procs : call[p].leaving /\ (call[p].session = s \/ Waits(p))
      BY <2>2
    <3>2. CASE StillLeaving(p)
      BY <3>1, <3>2 DEF StillLeaving
    <3>3. CASE Leave(p)
      <4>1. Disconnects(p)
        BY <3>3, LeaveEffect DEF Disconnects, Fresh, Moved, lockVars
      <4> QED
        BY <2>2, <4>1
    <3> QED
      BY <3>1, <3>2, <3>3, LeavingStep
  <2>3. ASSUME NEW p \in Procs, Disconnects(p)
        PROVE  sess'[s].linked \/ s \in strays' \/ Excused(s)'
    <3>1. /\ s # call[p].session /\ sess'[s].connected = sess[s].connected
          /\ sess'[s].linked = sess[s].linked /\ strays' = strays
      BY <1>2, <2>3 DEF Disconnects, OnlySession, Alike
    <3>2. ASSUME NEW q \in Procs, call[q].leaving, call[q].session = s \/ Waits(q)
          PROVE  Excused(s)'
      <4>1. q # p
        BY <2>3, <3>1, <3>2 DEF Disconnects, Waits
      <4>2. call'[q] = call[q] /\ sessionLock' = sessionLock
        BY <2>3, <4>1 DEF Disconnects, OnlyCall
      <4> QED
        BY <3>2, <4>2 DEF Waits
    <3> QED
      BY <1>2, <2>1, <3>1, <3>2
  <2>4. CASE Steady /\ \A p \in Procs : ~Disconnects(p)
    <3>1. /\ sess[s].connected /\ (sess[s].linked => sess'[s].linked)
          /\ strays \subseteq strays'
      BY <1>2, <2>4 DEF Steady
    <3>2. \A p \in Procs : ~Disconnects(p)
      BY <2>4
    <3> HIDE DEF Excused
    <3> QED
      BY <2>1, <2>2, <3>1, <3>2
  <2>5. CASE Listens /\ \A p \in Procs : ~Disconnects(p)
    <3>1. PICK r \in Sessions : /\ OnlySession(r) /\ Alike
                                /\ strays' = IF sess[r].linked THEN strays ELSE strays \cup {r}
      BY <2>5 DEF Listens
    <3>2. sess'[s].linked = sess[s].linked /\ (s # r => sess'[s] = sess[s])
      BY <3>1 DEF Alike, OnlySession
    <3> QED
      BY <1>2, <2>1, <2>2, <2>5, <3>1, <3>2
  <2>6. ASSUME NEW p \in Procs, NEW r \in created, NEW os, Ended(p, r, os),
               \A q \in Procs : ~Disconnects(q)
        PROVE  sess'[s].linked \/ s \in strays' \/ Excused(s)'
    <3>1. CASE r = s
      BY <2>6, <3>1 DEF Ended
    <3>2. CASE r # s
      BY <1>2, <2>1, <2>2, <2>6, <3>2 DEF Ended, MadeInactive, OnlySession
    <3> QED
      BY <3>1, <3>2
  <2>7. CASE \A p \in Procs : ~Disconnects(p)
    <3>1. \/ Steady \/ Listens
          \/ \E q \in Procs : \E r \in created : \E os : Ended(q, r, os)
      BY <2>7, LinksOfStep, Zenon DEF LinksChange
    <3> HIDE DEF Excused
    <3> QED
      BY <2>4, <2>5, <2>6, <2>7, <3>1, Zenon
  <2> QED
    BY <2>3, <2>7
<1> QED
  BY <1>1, <1>2 DEF ActiveIsLinked

LEMMA LinkedInit == Init => ActiveIsLinked
  BY DEF Init, ActiveIsLinked, NewSession

-----------------------------------------------------------------------------
(* Sessions in use and the session of the map *)

(* Process q leaves a session that is inactive, or was leaving it before. *)
Exiting(q) ==
    call'[q].pc \in Exits =>
      \/ call[q].pc \in Exits /\ call'[q].session = call[q].session
      \/ sess'[call'[q].session].state = "inactive"

LEMMA FreshExiting ==
    ASSUME NEW p, NEW pc, NEW s, Fresh(p, pc, s), pc \notin Exits, NEW q \in Procs
    PROVE  Exiting(q)
  BY DEF Exiting, Fresh, Moved, OnlyCall

LEMMA MovedExiting ==
    ASSUME NEW p, NEW pc, NEW s, NEW then, NEW l, NEW k, NEW a,
           Moved(p, pc, s, then, l, k, a), sess'[s].state = "inactive", NEW q \in Procs
    PROVE  Exiting(q)
  BY DEF Exiting, Moved, OnlyCall

LEMMA DepartsExiting ==
    ASSUME NEW p, Departs(p), call[p].pc \in Exits,
           call[p].leaving \/ call[p].then \notin Exits, NEW q \in Procs
    PROVE  Exiting(q)
  BY DEF Exiting, Departs, OnlyCall

(* A process starts to leave a session that is inactive. *)
LEMMA ExitingStep ==
    ASSUME Base, NEW q \in Procs, [Next]_vars
    PROVE  Exiting(q)
<1>0. created \subseteq Sessions
  BY DEF Base, Shape
<1>1. ASSUME NEW t \in Threads, ThreadStep(t)
      PROVE  Exiting(q)
  <2>1. CASE GetSession(t)
    <3>1. call' = call \/ \E pc, s : pc \notin Exits /\ Fresh(t, pc, s)
      BY <2>1, GetSessionEffect DEF Exits
    <3> QED
      BY <3>1, FreshExiting DEF Exiting
  <2>2. CASE DropReference(t)
    <3>1. call' = call \/ \E pc, s : pc \notin Exits /\ Fresh(t, pc, s)
      BY <2>2, DropReferenceEffect DEF Exits
    <3> QED
      BY <3>1, FreshExiting DEF Exiting
  <2>3. CASE UserLogOut(t)
    <3>1. call' = call \/ \E pc, s : pc \notin Exits /\ Fresh(t, pc, s)
      BY <2>3, UserLogOutEffect DEF Exits
    <3> QED
      BY <3>1, FreshExiting DEF Exiting
  <2>4. CASE LogIn(t)
    <3>1. call' = call \/ \E pc, s : pc \notin Exits /\ Fresh(t, pc, s)
      BY <2>4, LogInEffect DEF Exits, Begins
    <3> QED
      BY <3>1, FreshExiting DEF Exiting
  <2>5. CASE WaitForCompletion(t)
    <3>1. call' = call \/ \E pc, s : pc \notin Exits /\ Fresh(t, pc, s)
      BY <2>5, WaitForCompletionEffect DEF Exits
    <3> QED
      BY <3>1, FreshExiting DEF Exiting
  <2>6. CASE Commit(t)
    <3>1. call' = call \/ \E pc, s : pc \notin Exits /\ Fresh(t, pc, s)
      BY <2>6, CommitEffect DEF Exits
    <3> QED
      BY <3>1, FreshExiting DEF Exiting
  <2>7. CASE Reconnect(t)
    <3>1. call' = call \/ \E pc, s : pc \notin Exits /\ Fresh(t, pc, s)
      BY <2>7, ReconnectEffect DEF Exits
    <3> QED
      BY <3>1, FreshExiting DEF Exiting
  <2>8. CASE \/ Lock(t, "suspend", "suspending") \/ Lock(t, "resume", "reviving")
             \/ Lock(t, "update_configuration", "reconfiguring")
    <3>1. ASSUME NEW c, NEW pc \in {"reviving", "suspending", "reconfiguring"}, Lock(t, c, pc)
          PROVE  Exiting(q)
      <4>1. call' = call \/ \E x, s : x \notin Exits /\ Fresh(t, x, s)
        BY <3>1, LockEffect DEF Begins, Exits
      <4> QED
        BY <4>1, FreshExiting DEF Exiting
    <3> QED
      BY <2>8, <3>1
  <2>9. ASSUME NEW r \in requests, TokenRefused(t, r)
        PROVE  Exiting(q)
    <3>1. call' = call \/ \E pc, s : pc \notin Exits /\ Fresh(t, pc, s)
      BY <2>9, TokenRefusedEffect DEF Exits, Begins
    <3> QED
      BY <3>1, FreshExiting DEF Exiting
  <2> QED
    BY <1>1, <2>1, <2>2, <2>3, <2>4, <2>5, <2>6, <2>7, <2>8, <2>9 DEF ThreadStep
<1>2. ASSUME NEW p \in Procs, InCall(p)
      PROVE  Exiting(q)
  <2>1. CASE RegisterSession(p)
    <3>1. call' = call \/ \E pc, s : pc \notin Exits /\ Fresh(p, pc, s)
      BY <2>1, RegisterSessionEffect DEF Exits
    <3> QED
      BY <3>1, FreshExiting DEF Exiting
  <2>2. CASE Revive(p)
    <3>1. call' = call \/ \E pc, s : pc \notin Exits /\ Fresh(p, pc, s)
      BY <2>2, ReviveEffect DEF Exits
    <3> QED
      BY <3>1, FreshExiting DEF Exiting
  <2>3. CASE TakeReference(p)
    <3>1. call' = call \/ \E pc, s : pc \notin Exits /\ Fresh(p, pc, s)
      BY <2>3, TakeReferenceEffect DEF Exits
    <3> QED
      BY <3>1, FreshExiting DEF Exiting
  <2>4. CASE DidDropReference(p)
    <3>1. CASE DidClose(p, call[p].session, "idle")
      <4>1. sess'[call[p].session].state = "inactive"
        BY <2>4, <3>1, DidDropReferenceEffect, <1>0 DEF DidClose, MadeInactive, Alike
      <4> QED
        BY <3>1, <4>1, MovedExiting DEF DidClose
    <3>2. CASE Fresh(p, "idle", None)
      BY <3>2, FreshExiting DEF Exits
    <3> QED
      BY <2>4, <3>1, <3>2, DidDropReferenceEffect
  <2>5. CASE Unregister(p)
    <3>1. CASE q = p
      <4>1. call'[q].pc \in Exits => call'[q].session = call[q].session
        BY <2>5, <3>1, UnregisterEffect DEF Departs, Moved, Exits
      <4> QED
        BY <2>5, <3>1, <4>1, UnregisterEffect DEF Exiting, Exits
    <3>2. CASE q # p
      BY <2>5, <3>2, UnregisterEffect DEF Exiting, Departs, Moved, OnlyCall
    <3> QED
      BY <3>1, <3>2
  <2>6. CASE StopPeeking(p)
    <3>1. ASSUME NEW then, DidClose(p, call[p].peek, then)
          PROVE  Exiting(q)
      <4>1. sess'[call[p].peek].state = "inactive"
        BY <2>6, <3>1, StopPeekingEffect, <1>0 DEF DidClose, MadeInactive, Alike
      <4> QED
        BY <3>1, <4>1, MovedExiting DEF DidClose
    <3>2. CASE Departs(p)
      <4>1. q = p /\ call'[q].pc \in Exits => call'[q].session = call[q].session
        BY <3>2 DEF Departs, Exits
      <4> QED
        BY <2>6, <3>2, <4>1, StopPeekingEffect DEF Exiting, Departs, OnlyCall, Exits
    <3> QED
      BY <2>6, <3>1, <3>2, StopPeekingEffect
  <2>7. CASE Leave(p)
    <3>1. call[p].then \notin Exits \/ call[p].then = "leaving"
      BY DEF Base, Shape, CallT, Thens, Exits
    <3>2. CASE q = p
      <4>1. call[p].pc \in Exits /\ call[p].then \in Exits => call'[p].session = call[p].session
        BY <2>7, LeaveEffect DEF Fresh, Moved, Exits
      <4> QED
        BY <2>7, <3>2, <4>1, LeaveEffect DEF Exiting, Fresh, Moved, Exits
    <3>3. CASE q # p
      BY <2>7, <3>3, LeaveEffect DEF Exiting, Fresh, Moved, OnlyCall
    <3> QED
      BY <3>2, <3>3
  <2>8. CASE LogOutSession(p) \/ Suspend(p) \/ UpdateConfiguration(p)
    <3>1. PICK then, pc : Quits(p, then, pc) /\ pc \notin Exits
      BY <2>8, QuitsEffect DEF Exits
    <3>2. CASE /\ MadeInactive(call[p].session, ops)
               /\ Moved(p, "unregistering", call[p].session, then, TRUE, None,
                        call[p].aborting \cup sess[call[p].session].queue)
      <4>1. sess'[call[p].session].state = "inactive"
        BY <3>2 DEF MadeInactive
      <4> QED
        BY <3>2, <4>1, MovedExiting
    <3>3. CASE Fresh(p, pc, IF pc = "idle" THEN None ELSE call[p].session)
      BY <3>1, <3>3, FreshExiting
    <3> QED
      BY <3>1, <3>2, <3>3 DEF Quits
  <2>9. CASE FinishLogOut(p)
    <3>1. call' = call \/ \E pc, s : pc \notin Exits /\ Fresh(p, pc, s)
      BY <2>9, FinishLogOutEffect DEF Exits
    <3> QED
      BY <3>1, FreshExiting DEF Exiting
  <2>10. CASE NotifySession(p)
    <3>1. call' = call \/ \E pc, s : pc \notin Exits /\ Fresh(p, pc, s)
      BY <2>10, NotifySessionEffect DEF Exits
    <3> QED
      BY <3>1, FreshExiting DEF Exiting
  <2>11. CASE BindSessionHandler(p)
    <3>1. call' = call \/ \E pc, s : pc \notin Exits /\ Fresh(p, pc, s)
      BY <2>11, BindSessionHandlerEffect DEF Exits
    <3> QED
      BY <3>1, FreshExiting DEF Exiting
  <2> QED
    BY <1>2, <2>1, <2>2, <2>3, <2>4, <2>5, <2>6, <2>7, <2>8, <2>9, <2>10, <2>11 DEF InCall
<1>3. ASSUME ClientSteps
      PROVE  Exiting(q)
  <2>1. CASE ListenerCalled
    <3>1. CASE \/ Continues("erring") \/ Continues("responding")
               \/ \E pc, s : pc \notin Exits /\ Fresh(Client, pc, s)
      BY <3>1, FreshExiting DEF Continues, Exiting, Moved, OnlyCall, Exits
    <3>2. ASSUME NEW s, NEW os, NEW a, MadeInactive(s, os),
                 Moved(Client, "unregistering", s, "idle", TRUE, None, a)
          PROVE  Exiting(q)
      <4>1. sess'[s].state = "inactive"
        BY <3>2 DEF MadeInactive
      <4> QED
        BY <3>2, <4>1, MovedExiting
    <3> QED
      BY <2>1, <3>1, <3>2, ListenerCalledEffect DEF Exits
  <2>2. CASE Listen
    <3>1. CASE \/ Continues("erring") \/ Continues("responding")
               \/ \E pc, s : pc \notin Exits /\ Fresh(Client, pc, s)
      BY <3>1, FreshExiting DEF Continues, Exiting, Moved, OnlyCall, Exits
    <3>2. ASSUME NEW s, NEW os, NEW a, MadeInactive(s, os),
                 Moved(Client, "unregistering", s, "idle", TRUE, None, a)
          PROVE  Exiting(q)
      <4>1. sess'[s].state = "inactive"
        BY <3>2 DEF MadeInactive
      <4> QED
        BY <3>2, <4>1, MovedExiting
    <3> QED
      BY <2>2, <3>1, <3>2, ListenEffect DEF Exits
  <2>3. CASE HandleError
    <3>1. CASE \/ Continues("erring") \/ Continues("responding")
               \/ \E pc, s : pc \notin Exits /\ Fresh(Client, pc, s)
      BY <3>1, FreshExiting DEF Continues, Exiting, Moved, OnlyCall, Exits
    <3>2. ASSUME NEW s, NEW os, NEW a, MadeInactive(s, os),
                 Moved(Client, "unregistering", s, "idle", TRUE, None, a)
          PROVE  Exiting(q)
      <4>1. sess'[s].state = "inactive"
        BY <3>2 DEF MadeInactive
      <4> QED
        BY <3>2, <4>1, MovedExiting
    <3> QED
      BY <2>3, <3>1, <3>2, HandleErrorEffect DEF Exits
  <2>4. CASE RespondToError
    <3>1. CASE \/ Continues("erring") \/ Continues("responding")
               \/ \E pc, s : pc \notin Exits /\ Fresh(Client, pc, s)
      BY <3>1, FreshExiting DEF Continues, Exiting, Moved, OnlyCall, Exits
    <3>2. ASSUME NEW s, NEW os, NEW a, MadeInactive(s, os),
                 Moved(Client, "unregistering", s, "idle", TRUE, None, a)
          PROVE  Exiting(q)
      <4>1. sess'[s].state = "inactive"
        BY <3>2 DEF MadeInactive
      <4> QED
        BY <3>2, <4>1, MovedExiting
    <3> QED
      BY <2>4, <3>1, <3>2, RespondToErrorEffect DEF Exits
  <2>5. CASE InvalidateUser
    <3>1. CASE \/ Continues("erring") \/ Continues("responding")
               \/ \E pc, s : pc \notin Exits /\ Fresh(Client, pc, s)
      BY <3>1, FreshExiting DEF Continues, Exiting, Moved, OnlyCall, Exits
    <3>2. ASSUME NEW s, NEW os, NEW a, MadeInactive(s, os),
                 Moved(Client, "unregistering", s, "idle", TRUE, None, a)
          PROVE  Exiting(q)
      <4>1. sess'[s].state = "inactive"
        BY <3>2 DEF MadeInactive
      <4> QED
        BY <3>2, <4>1, MovedExiting
    <3> QED
      BY <2>5, <3>1, <3>2, InvalidateUserEffect DEF Exits
  <2>6. CASE CompleteWait
    <3>1. CASE \/ Continues("erring") \/ Continues("responding")
               \/ \E pc, s : pc \notin Exits /\ Fresh(Client, pc, s)
      BY <3>1, FreshExiting DEF Continues, Exiting, Moved, OnlyCall, Exits
    <3>2. ASSUME NEW s, NEW os, NEW a, MadeInactive(s, os),
                 Moved(Client, "unregistering", s, "idle", TRUE, None, a)
          PROVE  Exiting(q)
      <4>1. sess'[s].state = "inactive"
        BY <3>2 DEF MadeInactive
      <4> QED
        BY <3>2, <4>1, MovedExiting
    <3>3. CASE call' = call
      BY <3>3 DEF Exiting
    <3> QED
      BY <2>6, <3>2, <3>3, CompleteWaitEffect DEF Done
  <2> QED
    BY <1>3, <2>1, <2>2, <2>3, <2>4, <2>5, <2>6 DEF ClientSteps
<1>4. ASSUME NEW r \in requests, TokenArrives(r)
      PROVE  Exiting(q)
  <2>1. call' = call
    BY <1>4, TokenArrivesEffect
  <2> QED
    BY <2>1 DEF Exiting
<1>5. ASSUME NEW r \in requests, ServerUnreachable(r)
      PROVE  Exiting(q)
  <2>1. call' = call
    BY <1>5, ServerUnreachableEffect
  <2> QED
    BY <2>1 DEF Exiting
<1>6. ASSUME NEW s \in Sessions, Upload(s)
      PROVE  Exiting(q)
  <2>1. call' = call
    BY <1>6, UploadEffect
  <2> QED
    BY <2>1 DEF Exiting
<1>7. CASE UNCHANGED vars
  BY <1>7 DEF Exiting, vars
<1> QED
  BY <1>1, <1>2, <1>3, <1>4, <1>5, <1>6, <1>7 DEF Next

(* What a step does to the session of the map *)
MapChange ==
    /\ overtaken' = FALSE => overtaken = FALSE
    /\ \/ registered' = registered
       \/ registered = None
       \/ \E p \in Procs : /\ call[p].pc = "unregistering"
                           /\ registered = call[p].session \/ overtaken'

(* Process p revives a session. *)
Reviver(p) ==
    /\ call[p].session \in created /\ Revived(call[p].session)
    /\ registered' = registered
    /\ overtaken' = (overtaken \/ BeingLeft(call[p].session)
                        \/ call[p].session # registered)

(* The session of the map is erased by unregister_session only. *)
LEMMA MapStep ==
    ASSUME Base, [Next]_vars
    PROVE  MapChange
<1>1. ASSUME NEW t \in Threads, ThreadStep(t)
      PROVE  MapChange
  <2>1. CASE GetSession(t)
    <3>1. overtaken' = overtaken /\ (registered' = registered \/ registered = None)
      BY <2>1, GetSessionEffect
    <3> QED
      BY <3>1 DEF MapChange
  <2>2. CASE DropReference(t)
    <3>1. overtaken' = overtaken /\ registered' = registered
      BY <2>2, DropReferenceEffect
    <3> QED
      BY <3>1 DEF MapChange
  <2>3. CASE UserLogOut(t)
    <3>1. overtaken' = overtaken /\ registered' = registered
      BY <2>3, UserLogOutEffect
    <3> QED
      BY <3>1 DEF MapChange
  <2>4. CASE LogIn(t)
    <3>1. overtaken' = overtaken /\ registered' = registered
      BY <2>4, LogInEffect DEF Begins
    <3> QED
      BY <3>1 DEF MapChange
  <2>5. CASE WaitForCompletion(t)
    <3>1. overtaken' = overtaken /\ registered' = registered
      BY <2>5, WaitForCompletionEffect
    <3> QED
      BY <3>1 DEF MapChange
  <2>6. CASE Commit(t)
    <3>1. overtaken' = overtaken /\ registered' = registered
      BY <2>6, CommitEffect
    <3> QED
      BY <3>1 DEF MapChange
  <2>7. CASE Reconnect(t)
    <3>1. overtaken' = overtaken /\ registered' = registered
      BY <2>7, ReconnectEffect
    <3> QED
      BY <3>1 DEF MapChange
  <2>8. CASE \/ Lock(t, "suspend", "suspending") \/ Lock(t, "resume", "reviving")
             \/ Lock(t, "update_configuration", "reconfiguring")
    <3>1. ASSUME NEW c, NEW pc \in {"reviving", "suspending", "reconfiguring"}, Lock(t, c, pc)
          PROVE  overtaken' = overtaken /\ registered' = registered
      BY <3>1, LockEffect DEF Begins
    <3>2. overtaken' = overtaken /\ registered' = registered
      BY <2>8, <3>1
    <3> QED
      BY <3>2 DEF MapChange
  <2>9. ASSUME NEW r \in requests, TokenRefused(t, r)
        PROVE  MapChange
    <3>1. overtaken' = overtaken /\ registered' = registered
      BY <2>9, TokenRefusedEffect DEF Begins
    <3> QED
      BY <3>1 DEF MapChange
  <2> QED
    BY <1>1, <2>1, <2>2, <2>3, <2>4, <2>5, <2>6, <2>7, <2>8, <2>9 DEF ThreadStep
<1>2. ASSUME NEW p \in Procs, InCall(p)
      PROVE  MapChange
  <2>1. CASE RegisterSession(p)
    <3>1. overtaken' = overtaken /\ registered' = registered
      BY <2>1, RegisterSessionEffect
    <3> QED
      BY <3>1 DEF MapChange
  <2>2. CASE Revive(p)
    <3>1. registered' = registered
          /\ overtaken' = (overtaken \/ BeingLeft(call[p].session) \/ call[p].session # registered)
      BY <2>2, ReviveEffect
    <3>2. overtaken' = FALSE => overtaken = FALSE
      BY <3>1 DEF Base, Shape
    <3> QED
      BY <3>1, <3>2 DEF MapChange
  <2>3. CASE TakeReference(p)
    <3>1. overtaken' = overtaken /\ registered' = registered
      BY <2>3, TakeReferenceEffect
    <3> QED
      BY <3>1 DEF MapChange
  <2>4. CASE DidDropReference(p)
    <3>1. overtaken' = overtaken /\ registered' = registered
      BY <2>4, DidDropReferenceEffect
    <3> QED
      BY <3>1 DEF MapChange
  <2>5. CASE Unregister(p)
    <3>1. CASE UNCHANGED <<registered, overtaken>>
      BY <3>1 DEF MapChange
    <3>2. CASE overtaken' = (overtaken \/ registered # call[p].session)
      <4>1. overtaken' = FALSE => overtaken = FALSE
        BY <3>2 DEF Base, Shape
      <4>2. overtaken' \/ registered = call[p].session
        BY <3>2
      <4> QED
        BY <2>5, <4>1, <4>2, UnregisterEffect DEF MapChange
    <3> QED
      BY <2>5, <3>1, <3>2, UnregisterEffect
  <2>6. CASE StopPeeking(p)
    <3>1. overtaken' = overtaken /\ registered' = registered
      BY <2>6, StopPeekingEffect
    <3> QED
      BY <3>1 DEF MapChange
  <2>7. CASE Leave(p)
    <3>1. overtaken' = overtaken /\ registered' = registered
      BY <2>7, LeaveEffect
    <3> QED
      BY <3>1 DEF MapChange
  <2>8. CASE LogOutSession(p) \/ Suspend(p) \/ UpdateConfiguration(p)
    <3>1. overtaken' = overtaken /\ registered' = registered
      BY <2>8, QuitsEffect DEF Quits
    <3> QED
      BY <3>1 DEF MapChange
  <2>9. CASE FinishLogOut(p)
    <3>1. overtaken' = overtaken /\ registered' = registered
      BY <2>9, FinishLogOutEffect
    <3> QED
      BY <3>1 DEF MapChange
  <2>10. CASE NotifySession(p)
    <3>1. overtaken' = overtaken /\ registered' = registered
      BY <2>10, NotifySessionEffect
    <3> QED
      BY <3>1 DEF MapChange
  <2>11. CASE BindSessionHandler(p)
    <3>1. overtaken' = overtaken /\ registered' = registered
      BY <2>11, BindSessionHandlerEffect
    <3> QED
      BY <3>1 DEF MapChange
  <2> QED
    BY <1>2, <2>1, <2>2, <2>3, <2>4, <2>5, <2>6, <2>7, <2>8, <2>9, <2>10, <2>11 DEF InCall
<1>3. ASSUME ClientSteps
      PROVE  MapChange
  <2>1. CASE ListenerCalled
    <3>1. overtaken' = overtaken /\ registered' = registered
      BY <2>1, ListenerCalledEffect
    <3> QED
      BY <3>1 DEF MapChange
  <2>2. CASE Listen
    <3>1. overtaken' = overtaken /\ registered' = registered
      BY <2>2, ListenEffect
    <3> QED
      BY <3>1 DEF MapChange
  <2>3. CASE HandleError
    <3>1. overtaken' = overtaken /\ registered' = registered
      BY <2>3, HandleErrorEffect
    <3> QED
      BY <3>1 DEF MapChange
  <2>4. CASE RespondToError
    <3>1. overtaken' = overtaken /\ registered' = registered
      BY <2>4, RespondToErrorEffect
    <3> QED
      BY <3>1 DEF MapChange
  <2>5. CASE InvalidateUser
    <3>1. overtaken' = overtaken /\ registered' = registered
      BY <2>5, InvalidateUserEffect
    <3> QED
      BY <3>1 DEF MapChange
  <2>6. CASE CompleteWait
    <3>1. overtaken' = overtaken /\ registered' = registered
      BY <2>6, CompleteWaitEffect
    <3> QED
      BY <3>1 DEF MapChange
  <2> QED
    BY <1>3, <2>1, <2>2, <2>3, <2>4, <2>5, <2>6 DEF ClientSteps
<1>4. ASSUME NEW r \in requests, TokenArrives(r)
      PROVE  MapChange
  <2>1. overtaken' = overtaken /\ registered' = registered
    BY <1>4, TokenArrivesEffect
  <2> QED
    BY <2>1 DEF MapChange
<1>5. ASSUME NEW r \in requests, ServerUnreachable(r)
      PROVE  MapChange
  <2>1. overtaken' = overtaken /\ registered' = registered
    BY <1>5, ServerUnreachableEffect
  <2> QED
    BY <2>1 DEF MapChange
<1>6. ASSUME NEW s \in Sessions, Upload(s)
      PROVE  MapChange
  <2>1. overtaken' = overtaken /\ registered' = registered
    BY <1>6, UploadEffect
  <2> QED
    BY <2>1 DEF MapChange
<1>7. CASE UNCHANGED vars
  BY <1>7 DEF MapChange, vars, histVars
<1> QED
  BY <1>1, <1>2, <1>3, <1>4, <1>5, <1>6, <1>7 DEF Next

(* Only Revive makes an inactive session anything else. *)
LEMMA ReviverOfStep ==
    ASSUME Base, [Next]_vars
    PROVE  NoRevival \/ \E q \in Procs : Reviver(q)
<1>1. ASSUME NEW t \in Threads, ThreadStep(t)
      PROVE  NoRevival \/ \E q \in Procs : Reviver(q)
  <2>1. CASE GetSession(t)
    BY <2>1, GetSessionEffect, Zenon DEF NoRevival
  <2>2. CASE DropReference(t)
    BY <2>2, DropReferenceEffect, Zenon DEF NoRevival
  <2>3. CASE UserLogOut(t)
    BY <2>3, UserLogOutEffect, Zenon DEF NoRevival
  <2>4. CASE LogIn(t)
    BY <2>4, LogInEffect, Zenon DEF NoRevival, Begins
  <2>5. CASE WaitForCompletion(t)
    BY <2>5, WaitForCompletionEffect, Zenon DEF NoRevival
  <2>6. CASE Commit(t)
    BY <2>6, CommitEffect, Zenon DEF NoRevival
  <2>7. CASE Reconnect(t)
    BY <2>7, ReconnectEffect, Zenon DEF NoRevival
  <2>8. CASE \/ Lock(t, "suspend", "suspending") \/ Lock(t, "resume", "reviving")
             \/ Lock(t, "update_configuration", "reconfiguring")
    <3>1. ASSUME NEW c, NEW pc \in {"reviving", "suspending", "reconfiguring"}, Lock(t, c, pc)
          PROVE  NoRevival
      BY <3>1, LockEffect, Zenon DEF Begins, NoRevival
    <3> QED
      BY <2>8, <3>1
  <2>9. ASSUME NEW r \in requests, TokenRefused(t, r)
        PROVE  NoRevival \/ \E q \in Procs : Reviver(q)
    BY <2>9, TokenRefusedEffect, Zenon DEF NoRevival, Begins
  <2> QED
    BY <1>1, <2>1, <2>2, <2>3, <2>4, <2>5, <2>6, <2>7, <2>8, <2>9 DEF ThreadStep
<1>2. ASSUME NEW p \in Procs, InCall(p)
      PROVE  NoRevival \/ \E q \in Procs : Reviver(q)
  <2>1. CASE RegisterSession(p)
    BY <2>1, RegisterSessionEffect, Zenon DEF NoRevival
  <2>2. CASE Revive(p)
    <3>1. Reviver(p)
      BY <2>2, ReviveEffect DEF Reviver
    <3> QED
      BY <3>1
  <2>3. CASE TakeReference(p)
    BY <2>3, TakeReferenceEffect, Zenon DEF NoRevival
  <2>4. CASE DidDropReference(p)
    BY <2>4, DidDropReferenceEffect, Zenon DEF NoRevival, DidClose
  <2>5. CASE Unregister(p)
    BY <2>5, UnregisterEffect, Zenon DEF NoRevival
  <2>6. CASE StopPeeking(p)
    BY <2>6, StopPeekingEffect, Zenon DEF NoRevival, DidClose
  <2>7. CASE Leave(p)
    BY <2>7, LeaveEffect, Zenon DEF NoRevival
  <2>8. CASE LogOutSession(p) \/ Suspend(p) \/ UpdateConfiguration(p)
    BY <2>8, QuitsEffect, Zenon DEF NoRevival, Quits
  <2>9. CASE FinishLogOut(p)
    BY <2>9, FinishLogOutEffect, Zenon DEF NoRevival
  <2>10. CASE NotifySession(p)
    BY <2>10, NotifySessionEffect, Zenon DEF NoRevival
  <2>11. CASE BindSessionHandler(p)
    BY <2>11, BindSessionHandlerEffect, Zenon DEF NoRevival
  <2> QED
    BY <1>2, <2>1, <2>2, <2>3, <2>4, <2>5, <2>6, <2>7, <2>8, <2>9, <2>10, <2>11 DEF InCall
<1>3. ASSUME ClientSteps
      PROVE  NoRevival \/ \E q \in Procs : Reviver(q)
  <2>1. CASE ListenerCalled
    BY <2>1, ListenerCalledEffect, Zenon DEF NoRevival
  <2>2. CASE Listen
    BY <2>2, ListenEffect, Zenon DEF NoRevival
  <2>3. CASE HandleError
    BY <2>3, HandleErrorEffect, Zenon DEF NoRevival
  <2>4. CASE RespondToError
    BY <2>4, RespondToErrorEffect, Zenon DEF NoRevival
  <2>5. CASE InvalidateUser
    BY <2>5, InvalidateUserEffect, Zenon DEF NoRevival
  <2>6. CASE CompleteWait
    BY <2>6, CompleteWaitEffect, Zenon DEF NoRevival
  <2> QED
    BY <1>3, <2>1, <2>2, <2>3, <2>4, <2>5, <2>6 DEF ClientSteps
<1>4. ASSUME NEW r \in requests, TokenArrives(r)
      PROVE  NoRevival \/ \E q \in Procs : Reviver(q)
  BY <1>4, TokenArrivesEffect, Zenon DEF NoRevival
<1>5. ASSUME NEW r \in requests, ServerUnreachable(r)
      PROVE  NoRevival \/ \E q \in Procs : Reviver(q)
  BY <1>5, ServerUnreachableEffect, Zenon DEF NoRevival
<1>6. ASSUME NEW s \in Sessions, Upload(s)
      PROVE  NoRevival \/ \E q \in Procs : Reviver(q)
  BY <1>6, UploadEffect, Zenon DEF NoRevival
<1>7. CASE UNCHANGED vars
  BY <1>7, SameSessions DEF vars, histVars, NoRevival, Base
<1> QED
  BY <1>1, <1>2, <1>3, <1>4, <1>5, <1>6, <1>7 DEF Next

LEMMA NoRevivalInactive ==
    ASSUME Base, NoRevival, NEW s \in Sessions, sess[s].state = "inactive"
    PROVE  sess'[s].state = "inactive"
<1>1. CASE Alike
  BY <1>1 DEF Alike
<1>2. ASSUME NEW r \in created, MadeInactive(r, ops) \/ Dies(r)
               \/ (\E w \in Waiters \ asked : Queued(r, w))
               \/ Notified(r) \/ Expired(r) \/ Cancelled(r)
      PROVE  sess'[s].state = "inactive"
  BY <1>2 DEF MadeInactive, Dies, Queued, Notified, Expired, Cancelled, OnlySession
<1>3. ASSUME NEW r \in created, sess[r].state = "waiting" /\ Bound(r)
      PROVE  sess'[s].state = "inactive"
  <2>1. OnlySession(r)
    BY <1>3, Zenon DEF Bound
  <2> QED
    BY <1>3, <2>1 DEF OnlySession
<1>4. ASSUME NEW o \in ops, o.session \in created, Done(o)
      PROVE  sess'[s].state = "inactive"
  BY <1>4 DEF Done, MadeInactive, OnlySession
<1> QED
  BY <1>1, <1>2, <1>3, <1>4 DEF NoRevival

(* A session in use stays the one of the map. *)
LEMMA InUseStep ==
    ASSUME Base, InUseIsRegistered, [Next]_vars
    PROVE  InUseIsRegistered'
<1> SUFFICES ASSUME ~overtaken'
             PROVE  /\ \A s \in Sessions : sess'[s].state # "inactive" => s = registered'
                    /\ \A q \in Procs : call'[q].pc \in Exits =>
                         sess'[call'[q].session].state = "inactive"
  BY DEF InUseIsRegistered
<1>0. /\ overtaken \in BOOLEAN /\ overtaken' \in BOOLEAN /\ None \notin Sessions
      /\ \A q \in Procs : call[q].pc \in Exits => call[q].session \in Sessions
  <2>1. overtaken \in BOOLEAN /\ overtaken' \in BOOLEAN
    BY ShapeStep DEF Base, Shape
  <2>2. ASSUME NEW q \in Procs, call[q].pc \in Exits PROVE call[q].session \in Sessions
    BY <2>2, KnownSession DEF Exits
  <2> QED
    BY <2>1, <2>2, SyncAssumption
<1>1. ~overtaken
  BY <1>0, MapStep DEF MapChange
<1>2. /\ \A s \in Sessions : sess[s].state # "inactive" => s = registered
      /\ \A q \in Procs : call[q].pc \in Exits => sess[call[q].session].state = "inactive"
  BY <1>1 DEF InUseIsRegistered
<1>3. CASE NoRevival
  <2>1. \A s \in Sessions : sess[s].state = "inactive" => sess'[s].state = "inactive"
    BY <1>3, NoRevivalInactive
  <2>2. ASSUME NEW s \in Sessions, sess'[s].state # "inactive"
        PROVE  s = registered'
    <3>1. s = registered /\ registered # None
      BY <1>0, <1>2, <2>1, <2>2
    <3>2. \A p \in Procs : ~(call[p].pc = "unregistering" /\ registered = call[p].session)
      BY <1>2, <2>1, <2>2, <3>1 DEF Exits
    <3> QED
      BY <3>1, <3>2, MapStep DEF MapChange
  <2>3. ASSUME NEW q \in Procs, call'[q].pc \in Exits
        PROVE  sess'[call'[q].session].state = "inactive"
    BY <1>0, <1>2, <2>1, <2>3, ExitingStep DEF Exiting
  <2> QED
    BY <2>2, <2>3
<1>4. ASSUME NEW p \in Procs, Reviver(p)
      PROVE  /\ \A s \in Sessions : sess'[s].state # "inactive" => s = registered'
             /\ \A q \in Procs : call'[q].pc \in Exits =>
                  sess'[call'[q].session].state = "inactive"
  <2> DEFINE r == call[p].session
  <2>1. /\ r = registered /\ registered' = registered /\ ~BeingLeft(r)
        /\ \A s \in Sessions : s # r => sess'[s] = sess[s]
    BY <1>4 DEF Reviver, Revived, OnlySession
  <2>2. \A s \in Sessions : sess'[s].state # "inactive" => s = registered'
    BY <1>2, <2>1
  <2>3. ASSUME NEW q \in Procs, call'[q].pc \in Exits
        PROVE  sess'[call'[q].session].state = "inactive"
    <3>1. CASE call[q].pc \in Exits /\ call'[q].session = call[q].session
      <4>1. call[q].session # r
        BY <2>1, <3>1 DEF BeingLeft, Exits
      <4> QED
        BY <1>0, <1>2, <2>1, <3>1, <4>1
    <3> QED
      BY <2>3, <3>1, ExitingStep DEF Exiting
  <2> QED
    BY <2>2, <2>3
<1> QED
  BY <1>3, <1>4, ReviverOfStep

LEMMA InUseInit == Init => InUseIsRegistered
  BY DEF Init, InUseIsRegistered, NewSession, Idle, Exits

(* While no session was overtaken, the bound one is the one of the map. *)
LEMMA OneBound ==
    ASSUME Base, ActiveIsLinked, InUseIsRegistered
    PROVE  OneBoundSession
  BY DEF ActiveIsLinked, InUseIsRegistered, OneBoundSession, Linked

-----------------------------------------------------------------------------
(* Commits, and what the session of the map knows of them *)

(* Process p tells the session of the map of the commits. *)
TellsNews ==
    /\ registered \in Sessions /\ registered' = registered /\ Notified(registered)
    /\ sess[registered].state # "dying"

News ==
    \/ Missed'
    \/ committed' = committed /\ (~Missed \/ TellsNews)

LEMMA NoNews ==
    ASSUME NEW p \in Procs, call' = call \/ (call[p].pc # "notifying" /\ OnlyCall(p)),
           unheard' = unheard, committed' = committed
    PROVE  News
<1>1. Missed => Missed'
  BY DEF Missed, OnlyCall
<1> QED
  BY <1>1 DEF News

(* A commit is missed until the session of the map is told of it. *)
LEMMA NewsStep ==
    ASSUME Base, [Next]_vars
    PROVE  News
<1>1. ASSUME NEW t \in Threads, ThreadStep(t)
      PROVE  News
  <2>1. CASE GetSession(t)
    <3>1. unheard' = unheard /\ committed' = committed
      BY <2>1, GetSessionEffect DEF dataVars, histVars, vars
    <3>2. call' = call \/ (call[t].pc # "notifying" /\ OnlyCall(t))
      BY <2>1, GetSessionEffect DEF Moved, Fresh
    <3> QED
      BY <3>1, <3>2, NoNews, ThreadIsProc, ClientIsProc
  <2>2. CASE DropReference(t)
    <3>1. unheard' = unheard /\ committed' = committed
      BY <2>2, DropReferenceEffect DEF dataVars, histVars, vars
    <3>2. call' = call \/ (call[t].pc # "notifying" /\ OnlyCall(t))
      BY <2>2, DropReferenceEffect DEF Moved, Fresh
    <3> QED
      BY <3>1, <3>2, NoNews, ThreadIsProc, ClientIsProc
  <2>3. CASE UserLogOut(t)
    <3>1. unheard' = unheard /\ committed' = committed
      BY <2>3, UserLogOutEffect DEF dataVars, histVars, vars
    <3>2. call' = call \/ (call[t].pc # "notifying" /\ OnlyCall(t))
      BY <2>3, UserLogOutEffect DEF Moved, Fresh
    <3> QED
      BY <3>1, <3>2, NoNews, ThreadIsProc, ClientIsProc
  <2>4. CASE LogIn(t)
    <3>1. unheard' = unheard /\ committed' = committed
      BY <2>4, LogInEffect DEF dataVars, histVars, vars, Begins
    <3>2. call' = call \/ (call[t].pc # "notifying" /\ OnlyCall(t))
      BY <2>4, LogInEffect DEF Moved, Fresh, Begins
    <3> QED
      BY <3>1, <3>2, NoNews, ThreadIsProc, ClientIsProc
  <2>5. CASE WaitForCompletion(t)
    <3>1. unheard' = unheard /\ committed' = committed
      BY <2>5, WaitForCompletionEffect DEF dataVars, histVars, vars
    <3>2. call' = call \/ (call[t].pc # "notifying" /\ OnlyCall(t))
      BY <2>5, WaitForCompletionEffect DEF Moved, Fresh
    <3> QED
      BY <3>1, <3>2, NoNews, ThreadIsProc, ClientIsProc
  <2>6. CASE Commit(t)
    <3>1. call'[t].pc = "notifying"
      BY <2>6, CommitEffect DEF Fresh, Moved
    <3> QED
      BY <3>1, ThreadIsProc DEF News, Missed
  <2>7. CASE Reconnect(t)
    <3>1. unheard' = unheard /\ committed' = committed
      BY <2>7, ReconnectEffect DEF dataVars, histVars, vars
    <3>2. call' = call \/ (call[t].pc # "notifying" /\ OnlyCall(t))
      BY <2>7, ReconnectEffect DEF Moved, Fresh
    <3> QED
      BY <3>1, <3>2, NoNews, ThreadIsProc, ClientIsProc
  <2>8. CASE \/ Lock(t, "suspend", "suspending") \/ Lock(t, "resume", "reviving")
             \/ Lock(t, "update_configuration", "reconfiguring")
    <3>1. ASSUME NEW c, NEW pc \in {"reviving", "suspending", "reconfiguring"}, Lock(t, c, pc)
          PROVE  /\ unheard' = unheard /\ committed' = committed
                 /\ call' = call \/ (call[t].pc # "notifying" /\ OnlyCall(t))
      BY <3>1, LockEffect DEF Begins, dataVars, Fresh, Moved
    <3>2. /\ unheard' = unheard /\ committed' = committed
          /\ call' = call \/ (call[t].pc # "notifying" /\ OnlyCall(t))
      BY <2>8, <3>1
    <3> QED
      BY <3>2, NoNews, ThreadIsProc
  <2>9. ASSUME NEW r \in requests, TokenRefused(t, r)
        PROVE  News
    <3>1. unheard' = unheard /\ committed' = committed
      BY <2>9, TokenRefusedEffect DEF dataVars, histVars, vars, Begins
    <3>2. call' = call \/ (call[t].pc # "notifying" /\ OnlyCall(t))
      BY <2>9, TokenRefusedEffect DEF Moved, Fresh, Begins
    <3> QED
      BY <3>1, <3>2, NoNews, ThreadIsProc, ClientIsProc
  <2> QED
    BY <1>1, <2>1, <2>2, <2>3, <2>4, <2>5, <2>6, <2>7, <2>8, <2>9 DEF ThreadStep
<1>2. ASSUME NEW p \in Procs, InCall(p)
      PROVE  News
  <2>1. CASE RegisterSession(p)
    <3>1. unheard' = unheard /\ committed' = committed
      BY <2>1, RegisterSessionEffect DEF dataVars, histVars, vars
    <3>2. call' = call \/ (call[p].pc # "notifying" /\ OnlyCall(p))
      BY <2>1, RegisterSessionEffect DEF Moved, Fresh
    <3> QED
      BY <3>1, <3>2, NoNews, ThreadIsProc, ClientIsProc
  <2>2. CASE Revive(p)
    <3>1. unheard' = unheard /\ committed' = committed
      BY <2>2, ReviveEffect DEF dataVars, histVars, vars
    <3>2. call' = call \/ (call[p].pc # "notifying" /\ OnlyCall(p))
      BY <2>2, ReviveEffect DEF Moved, Fresh
    <3> QED
      BY <3>1, <3>2, NoNews, ThreadIsProc, ClientIsProc
  <2>3. CASE TakeReference(p)
    <3>1. unheard' = unheard /\ committed' = committed
      BY <2>3, TakeReferenceEffect DEF dataVars, histVars, vars
    <3>2. call' = call \/ (call[p].pc # "notifying" /\ OnlyCall(p))
      BY <2>3, TakeReferenceEffect DEF Moved, Fresh
    <3> QED
      BY <3>1, <3>2, NoNews, ThreadIsProc, ClientIsProc
  <2>4. CASE DidDropReference(p)
    <3>1. unheard' = unheard /\ committed' = committed
      BY <2>4, DidDropReferenceEffect DEF dataVars, histVars, vars, DidClose
    <3>2. call' = call \/ (call[p].pc # "notifying" /\ OnlyCall(p))
      BY <2>4, DidDropReferenceEffect DEF Moved, Fresh, DidClose
    <3> QED
      BY <3>1, <3>2, NoNews, ThreadIsProc, ClientIsProc
  <2>5. CASE Unregister(p)
    <3>1. unheard' = unheard /\ committed' = committed
      BY <2>5, UnregisterEffect DEF dataVars, histVars, vars, Departs
    <3>2. call' = call \/ (call[p].pc # "notifying" /\ OnlyCall(p))
      BY <2>5, UnregisterEffect DEF Moved, Fresh, Departs
    <3> QED
      BY <3>1, <3>2, NoNews, ThreadIsProc, ClientIsProc
  <2>6. CASE StopPeeking(p)
    <3>1. unheard' = unheard /\ committed' = committed
      BY <2>6, StopPeekingEffect DEF dataVars, histVars, vars, DidClose, Departs
    <3>2. call' = call \/ (call[p].pc # "notifying" /\ OnlyCall(p))
      BY <2>6, StopPeekingEffect DEF Moved, Fresh, DidClose, Departs
    <3> QED
      BY <3>1, <3>2, NoNews, ThreadIsProc, ClientIsProc
  <2>7. CASE Leave(p)
    <3>1. unheard' = unheard /\ committed' = committed
      BY <2>7, LeaveEffect DEF dataVars, histVars, vars
    <3>2. call' = call \/ (call[p].pc # "notifying" /\ OnlyCall(p))
      BY <2>7, LeaveEffect DEF Moved, Fresh
    <3> QED
      BY <3>1, <3>2, NoNews, ThreadIsProc, ClientIsProc
  <2>8. CASE LogOutSession(p) \/ Suspend(p) \/ UpdateConfiguration(p)
    <3>1. unheard' = unheard /\ committed' = committed
      BY <2>8, QuitsEffect DEF dataVars, histVars, vars, Quits
    <3>2. call' = call \/ (call[p].pc # "notifying" /\ OnlyCall(p))
      BY <2>8, QuitsEffect DEF Moved, Fresh, Quits
    <3> QED
      BY <3>1, <3>2, NoNews, ThreadIsProc, ClientIsProc
  <2>9. CASE FinishLogOut(p)
    <3>1. unheard' = unheard /\ committed' = committed
      BY <2>9, FinishLogOutEffect DEF dataVars, histVars, vars
    <3>2. call' = call \/ (call[p].pc # "notifying" /\ OnlyCall(p))
      BY <2>9, FinishLogOutEffect DEF Moved, Fresh
    <3> QED
      BY <3>1, <3>2, NoNews, ThreadIsProc, ClientIsProc
  <2>10. CASE NotifySession(p)
    <3>1. /\ call[p].pc = "notifying" /\ committed' = committed
          /\ Notified(call[p].session) /\ call[p].session \in created /\ registered' = registered
          /\ unheard' = (unheard \/ sess[call[p].session].state = "dying")
      BY <2>10, NotifySessionEffect DEF dataVars
    <3>2. call[p].session = registered /\ created \subseteq Sessions
      BY <3>1, SyncAssumption DEF Base, Places, PlaceOf, Shape
    <3>3. CASE sess[registered].state = "dying"
      BY <3>1, <3>2, <3>3 DEF News, Missed
    <3>4. CASE sess[registered].state # "dying"
      BY <3>1, <3>2, <3>4 DEF News, TellsNews
    <3> QED
      BY <3>3, <3>4
  <2>11. CASE BindSessionHandler(p)
    <3>1. unheard' = unheard /\ committed' = committed
      BY <2>11, BindSessionHandlerEffect DEF dataVars
    <3>2. call' = call \/ (call[p].pc # "notifying" /\ OnlyCall(p))
      BY <2>11, BindSessionHandlerEffect DEF Moved, Fresh
    <3> QED
      BY <3>1, <3>2, NoNews
  <2> QED
    BY <1>2, <2>1, <2>2, <2>3, <2>4, <2>5, <2>6, <2>7, <2>8, <2>9, <2>10, <2>11 DEF InCall
<1>3. ASSUME ClientSteps
      PROVE  News
  <2>1. CASE ListenerCalled
    <3>1. unheard' = unheard /\ committed' = committed
      BY <2>1, ListenerCalledEffect DEF dataVars, histVars, vars, Continues
    <3>2. call' = call \/ (call[Client].pc # "notifying" /\ OnlyCall(Client))
      BY <2>1, ListenerCalledEffect DEF Moved, Fresh, Continues
    <3> QED
      BY <3>1, <3>2, NoNews, ThreadIsProc, ClientIsProc
  <2>2. CASE Listen
    <3>1. unheard' = unheard /\ committed' = committed
      BY <2>2, ListenEffect DEF dataVars, histVars, vars, Continues
    <3>2. call' = call \/ (call[Client].pc # "notifying" /\ OnlyCall(Client))
      BY <2>2, ListenEffect DEF Moved, Fresh, Continues
    <3> QED
      BY <3>1, <3>2, NoNews, ThreadIsProc, ClientIsProc
  <2>3. CASE HandleError
    <3>1. unheard' = unheard /\ committed' = committed
      BY <2>3, HandleErrorEffect DEF dataVars, histVars, vars, Continues
    <3>2. call' = call \/ (call[Client].pc # "notifying" /\ OnlyCall(Client))
      BY <2>3, HandleErrorEffect DEF Moved, Fresh, Continues
    <3> QED
      BY <3>1, <3>2, NoNews, ThreadIsProc, ClientIsProc
  <2>4. CASE RespondToError
    <3>1. unheard' = unheard /\ committed' = committed
      BY <2>4, RespondToErrorEffect DEF dataVars, histVars, vars, Continues
    <3>2. call' = call \/ (call[Client].pc # "notifying" /\ OnlyCall(Client))
      BY <2>4, RespondToErrorEffect DEF Moved, Fresh, Continues
    <3> QED
      BY <3>1, <3>2, NoNews, ThreadIsProc, ClientIsProc
  <2>5. CASE InvalidateUser
    <3>1. unheard' = unheard /\ committed' = committed
      BY <2>5, InvalidateUserEffect DEF dataVars, histVars, vars, Continues
    <3>2. call' = call \/ (call[Client].pc # "notifying" /\ OnlyCall(Client))
      BY <2>5, InvalidateUserEffect DEF Moved, Fresh, Continues
    <3> QED
      BY <3>1, <3>2, NoNews, ThreadIsProc, ClientIsProc
  <2>6. CASE CompleteWait
    <3>1. unheard' = unheard /\ committed' = committed
      BY <2>6, CompleteWaitEffect DEF dataVars, histVars, vars, Done
    <3>2. call' = call \/ (call[Client].pc # "notifying" /\ OnlyCall(Client))
      BY <2>6, CompleteWaitEffect DEF Moved, Fresh, Done
    <3> QED
      BY <3>1, <3>2, NoNews, ThreadIsProc, ClientIsProc
  <2> QED
    BY <1>3, <2>1, <2>2, <2>3, <2>4, <2>5, <2>6 DEF ClientSteps
<1>4. ASSUME NEW r \in requests, TokenArrives(r)
      PROVE  News
  <2>1. unheard' = unheard /\ committed' = committed
    BY <1>4, TokenArrivesEffect DEF dataVars, histVars, vars
  <2>2. call' = call
    BY <1>4, TokenArrivesEffect DEF Moved, Fresh
  <2> QED
    BY <2>1, <2>2, NoNews, ClientIsProc
<1>5. ASSUME NEW r \in requests, ServerUnreachable(r)
      PROVE  News
  <2>1. unheard' = unheard /\ committed' = committed
    BY <1>5, ServerUnreachableEffect DEF dataVars, histVars, vars
  <2>2. call' = call
    BY <1>5, ServerUnreachableEffect DEF Moved, Fresh
  <2> QED
    BY <2>1, <2>2, NoNews, ClientIsProc
<1>6. ASSUME NEW s \in Sessions, Upload(s)
      PROVE  News
  <2>1. unheard' = unheard /\ committed' = committed
    BY <1>6, UploadEffect DEF dataVars, histVars, vars
  <2>2. call' = call
    BY <1>6, UploadEffect DEF Moved, Fresh
  <2> QED
    BY <2>1, <2>2, NoNews, ClientIsProc
<1>7. CASE UNCHANGED vars
  <2>1. unheard' = unheard /\ committed' = committed /\ call' = call
    BY <1>7 DEF vars, dataVars, histVars
  <2> QED
    BY <2>1, NoNews, ClientIsProc
<1> QED
  BY <1>1, <1>2, <1>3, <1>4, <1>5, <1>6, <1>7 DEF Next

(* A session that takes the place of another in the map is a new one. *)
LEMMA MapKeepsStep ==
    ASSUME Base, [Next]_vars
    PROVE  registered' \in {registered, None} \/ registered' \notin created
<1>1. ASSUME NEW t \in Threads, ThreadStep(t)
      PROVE  registered' \in {registered, None} \/ registered' \notin created
  <2>1. CASE GetSession(t)
    BY <2>1, GetSessionEffect
  <2>2. CASE DropReference(t)
    BY <2>2, DropReferenceEffect
  <2>3. CASE UserLogOut(t)
    BY <2>3, UserLogOutEffect
  <2>4. CASE LogIn(t)
    BY <2>4, LogInEffect DEF Begins
  <2>5. CASE WaitForCompletion(t)
    BY <2>5, WaitForCompletionEffect
  <2>6. CASE Commit(t)
    BY <2>6, CommitEffect
  <2>7. CASE Reconnect(t)
    BY <2>7, ReconnectEffect
  <2>8. CASE \/ Lock(t, "suspend", "suspending") \/ Lock(t, "resume", "reviving")
             \/ Lock(t, "update_configuration", "reconfiguring")
    <3>1. ASSUME NEW c, NEW pc \in {"reviving", "suspending", "reconfiguring"}, Lock(t, c, pc)
          PROVE  registered' = registered
      BY <3>1, LockEffect DEF Begins
    <3> QED
      BY <2>8, <3>1
  <2>9. ASSUME NEW r \in requests, TokenRefused(t, r)
        PROVE  registered' \in {registered, None} \/ registered' \notin created
    BY <2>9, TokenRefusedEffect DEF Begins
  <2> QED
    BY <1>1, <2>1, <2>2, <2>3, <2>4, <2>5, <2>6, <2>7, <2>8, <2>9 DEF ThreadStep
<1>2. ASSUME NEW p \in Procs, InCall(p)
      PROVE  registered' \in {registered, None} \/ registered' \notin created
  <2>1. CASE RegisterSession(p)
    BY <2>1, RegisterSessionEffect
  <2>2. CASE Revive(p)
    BY <2>2, ReviveEffect
  <2>3. CASE TakeReference(p)
    BY <2>3, TakeReferenceEffect
  <2>4. CASE DidDropReference(p)
    BY <2>4, DidDropReferenceEffect
  <2>5. CASE Unregister(p)
    BY <2>5, UnregisterEffect
  <2>6. CASE StopPeeking(p)
    BY <2>6, StopPeekingEffect
  <2>7. CASE Leave(p)
    BY <2>7, LeaveEffect
  <2>8. CASE LogOutSession(p) \/ Suspend(p) \/ UpdateConfiguration(p)
    BY <2>8, QuitsEffect DEF Quits
  <2>9. CASE FinishLogOut(p)
    BY <2>9, FinishLogOutEffect
  <2>10. CASE NotifySession(p)
    BY <2>10, NotifySessionEffect
  <2>11. CASE BindSessionHandler(p)
    BY <2>11, BindSessionHandlerEffect
  <2> QED
    BY <1>2, <2>1, <2>2, <2>3, <2>4, <2>5, <2>6, <2>7, <2>8, <2>9, <2>10, <2>11 DEF InCall
<1>3. ASSUME ClientSteps
      PROVE  registered' \in {registered, None} \/ registered' \notin created
  <2>1. CASE ListenerCalled
    BY <2>1, ListenerCalledEffect
  <2>2. CASE Listen
    BY <2>2, ListenEffect
  <2>3. CASE HandleError
    BY <2>3, HandleErrorEffect
  <2>4. CASE RespondToError
    BY <2>4, RespondToErrorEffect
  <2>5. CASE InvalidateUser
    BY <2>5, InvalidateUserEffect
  <2>6. CASE CompleteWait
    BY <2>6, CompleteWaitEffect
  <2> QED
    BY <1>3, <2>1, <2>2, <2>3, <2>4, <2>5, <2>6 DEF ClientSteps
<1>4. ASSUME NEW r \in requests, TokenArrives(r)
      PROVE  registered' \in {registered, None} \/ registered' \notin created
  BY <1>4, TokenArrivesEffect
<1>5. ASSUME NEW r \in requests, ServerUnreachable(r)
      PROVE  registered' \in {registered, None} \/ registered' \notin created
  BY <1>5, ServerUnreachableEffect
<1>6. ASSUME NEW s \in Sessions, Upload(s)
      PROVE  registered' \in {registered, None} \/ registered' \notin created
  BY <1>6, UploadEffect
<1>7. CASE UNCHANGED vars
  BY <1>7 DEF vars
<1> QED
  BY <1>1, <1>2, <1>3, <1>4, <1>5, <1>6, <1>7 DEF Next

(* The session of the map knows of all commits, or will once it is bound. *)
Knows(s) ==
    /\ sess[s].state \in {"active", "dying"} => sess[s].announced = committed
    /\ sess[s].state = "waiting" /\ sess[s].linked =>
         Higher(sess[s].announced, sess[s].deferredCommit) = committed

LEMMA HigherOf ==
    ASSUME NEW a \in Nat, NEW b \in Nat, NEW c \in Nat, a <= c, b <= c, a = c \/ b = c
    PROVE  Higher(a, b) = c
  BY DEF Higher

LEMMA KnowsStep ==
    ASSUME Base, Bounded, ActiveIsLinked, NEW s \in Sessions, Kinds,
           committed' = committed,
           Knows(s) \/ (Notified(s) /\ sess[s].state # "dying")
    PROVE  Knows(s)'
<1>0. /\ sess[s].state \in States /\ sess[s].announced \in Nat
      /\ sess[s].deferredCommit \in Nat /\ committed \in Nat
      /\ sess[s].announced <= committed /\ sess[s].deferredCommit <= committed
      /\ sess[s].state = "inactive" => ~sess[s].linked
      /\ created \subseteq Sessions
  BY DEF Base, Shape, SessionT, Bounded, ActiveIsLinked
<1>1. ASSUME Notified(s), Knows(s) \/ sess[s].state # "dying" PROVE Knows(s)'
  <2>1. Higher(sess[s].announced, committed) = committed
    BY <1>0, HigherOf
  <2> QED
    BY <1>0, <1>1, <2>1 DEF Knows, Notified
<1>2. ASSUME Knows(s), sess'[s].announced = sess[s].announced,
             sess'[s].deferredCommit = sess[s].deferredCommit,
             sess'[s].linked = sess[s].linked,
             \/ sess'[s].state = sess[s].state
             \/ sess'[s].state \in {"active", "dying"} /\ sess[s].state \in {"active", "dying"}
             \/ sess'[s].state = "waiting" /\ sess[s].state \in {"inactive", "active"}
      PROVE  Knows(s)'
  <2>1. sess[s].state = "active" =>
          Higher(sess[s].announced, sess[s].deferredCommit) = committed
    BY <1>0, <1>2, HigherOf DEF Knows
  <2> QED
    BY <1>0, <1>2, <2>1 DEF Knows
<1>3. ASSUME Knows(s), sess[s].state = "waiting", Bound(s) PROVE Knows(s)'
  <2> DEFINE bound == IF sess[s].linked THEN sess[s].announced ELSE committed
  <2>1. /\ sess'[s].announced = Higher(bound, sess[s].deferredCommit)
        /\ sess'[s].state \in {"active", "dying"}
    BY <1>3, Zenon DEF Bound
  <2>2. Higher(bound, sess[s].deferredCommit) = committed
    <3>1. CASE sess[s].linked
      BY <1>3, <3>1 DEF Knows
    <3>2. CASE ~sess[s].linked
      BY <1>0, <3>2, HigherOf
    <3> QED
      BY <3>1, <3>2
  <2> HIDE DEF bound
  <2> QED
    BY <2>1, <2>2 DEF Knows
<1>4. CASE Notified(s)
  BY <1>1, <1>4
<1>5. CASE Knows(s)
  <2>1. CASE Alike
    BY <1>2, <1>5, <2>1 DEF Alike
  <2>2. ASSUME NEW r \in created, r # s, OnlySession(r)
        PROVE  Knows(s)'
    BY <1>2, <1>5, <2>2 DEF OnlySession
  <2>3. ASSUME NEW r \in created, NEW os, MadeInactive(r, os)
        PROVE  Knows(s)'
    <3>1. CASE r = s
      BY <2>3, <3>1 DEF MadeInactive, Knows
    <3>2. CASE r # s
      BY <2>2, <2>3, <3>2 DEF MadeInactive
    <3> QED
      BY <3>1, <3>2
  <2>4. ASSUME NEW r \in created,
               Dies(r) \/ Revived(r) \/ Expired(r) \/ Cancelled(r)
                 \/ \E w \in Waiters \ asked : Queued(r, w)
        PROVE  Knows(s)'
    <3>1. CASE r = s
      <4>1. /\ sess'[s].announced = sess[s].announced
            /\ sess'[s].deferredCommit = sess[s].deferredCommit
            /\ sess'[s].linked = sess[s].linked
        BY <2>4, <3>1 DEF Dies, Revived, Expired, Cancelled, Queued, SameData
      <4>2. \/ sess'[s].state = sess[s].state
            \/ sess'[s].state \in {"active", "dying"} /\ sess[s].state \in {"active", "dying"}
            \/ sess'[s].state = "waiting" /\ sess[s].state \in {"inactive", "active"}
        BY <1>0, <2>4, <3>1 DEF Dies, Revived, Expired, Cancelled, Queued, States
      <4> QED
        BY <1>2, <1>5, <4>1, <4>2
    <3>2. CASE r # s
      <4>1. OnlySession(r)
        BY <2>4 DEF Dies, Revived, Expired, Cancelled, Queued
      <4> QED
        BY <2>2, <3>2, <4>1
    <3> QED
      BY <3>1, <3>2
  <2>5. ASSUME NEW r \in created, sess[r].state = "waiting" /\ Bound(r)
        PROVE  Knows(s)'
    <3>1. OnlySession(r)
      BY <2>5, Zenon DEF Bound
    <3> QED
      BY <1>3, <1>5, <2>2, <2>5, <3>1
  <2>6. ASSUME NEW r \in created, Notified(r)
        PROVE  Knows(s)'
    <3>1. OnlySession(r)
      BY <2>6 DEF Notified
    <3> QED
      BY <1>1, <1>5, <2>2, <2>6, <3>1
  <2>7. ASSUME NEW o \in ops, o.session \in created, Done(o)
        PROVE  Knows(s)'
    <3>1. sess' = sess \/ MadeInactive(o.session, ops \ {o})
      BY <2>7 DEF Done
    <3> QED
      BY <1>2, <1>5, <2>3, <2>7, <3>1
  <2> QED
    BY <2>1, <2>3, <2>4, <2>5, <2>6, <2>7, Zenon DEF Kinds
<1> QED
  BY <1>4, <1>5

(* A session that is dying was dying before, or has just begun to. *)
LEMMA DyingStep ==
    ASSUME Base, Kinds, NEW s \in Sessions, sess'[s].state = "dying"
    PROVE  \/ /\ sess[s].state = "dying" /\ sess'[s].deaths = sess[s].deaths
              /\ closedAt'[s] = closedAt[s]
           \/ sess'[s].deaths = sess[s].deaths + 1
<1>0. created \subseteq Sessions
  BY DEF Base, Shape
<1>1. CASE Alike
  BY <1>1 DEF Alike
<1>2. ASSUME NEW r \in created,
             (Revived(r) /\ closedAt' = closedAt) \/ Expired(r) \/ Cancelled(r) \/ Notified(r)
               \/ (\E w \in Waiters \ asked : Queued(r, w)) \/ MadeInactive(r, ops)
      PROVE  /\ sess[s].state = "dying" /\ sess'[s].deaths = sess[s].deaths
             /\ closedAt'[s] = closedAt[s]
  BY <1>2 DEF Revived, Expired, Cancelled, Notified, Queued, MadeInactive, OnlySession
<1>3. ASSUME NEW r \in created, Dies(r)
      PROVE  \/ /\ sess[s].state = "dying" /\ sess'[s].deaths = sess[s].deaths
                /\ closedAt'[s] = closedAt[s]
             \/ sess'[s].deaths = sess[s].deaths + 1
  BY <1>3 DEF Dies, OnlySession
<1>4. ASSUME NEW r \in created, sess[r].state = "waiting" /\ Bound(r)
      PROVE  \/ /\ sess[s].state = "dying" /\ sess'[s].deaths = sess[s].deaths
                /\ closedAt'[s] = closedAt[s]
             \/ sess'[s].deaths = sess[s].deaths + 1
  <2>1. /\ OnlySession(r)
        /\ sess'[r].deaths = IF sess'[r].state = "dying" THEN sess[r].deaths + 1
                             ELSE sess[r].deaths
        /\ \A q \in Sessions : q # r => closedAt'[q] = closedAt[q]
    BY <1>4, Zenon DEF Bound
  <2> QED
    BY <2>1 DEF OnlySession
<1>5. ASSUME NEW o \in ops, o.session \in created, Done(o), closedAt' = closedAt
      PROVE  /\ sess[s].state = "dying" /\ sess'[s].deaths = sess[s].deaths
             /\ closedAt'[s] = closedAt[s]
  BY <1>5 DEF Done, MadeInactive, OnlySession
<1> QED
  BY <1>1, <1>2, <1>3, <1>4, <1>5, Zenon DEF Kinds

(* What is known of the commits stays true. *)
LEMMA InformedStep ==
    ASSUME Base, Bounded, ActiveIsLinked, DeathsCounted, Informed, [Next]_vars
    PROVE  Informed'
<1>0. /\ Kinds /\ News
      /\ registered' \in {registered, None} \/ registered' \notin created
      /\ \A s \in Sessions \ created : sess'[s].state = "inactive"
      /\ \A o \in ops' : o \in OpT /\ o.session \in created
      /\ created \subseteq Sessions /\ None \notin Sessions
      /\ \A s \in Sessions : sess[s].deaths \in Nat
  BY KindsOfStep, NewsStep, MapKeepsStep, KindsShape, SyncAssumption
     DEF Base, Shape, SessionT
<1>1. ASSUME NEW s \in Sessions, s = registered', sess'[s].state # "inactive"
      PROVE  s = registered
  BY <1>0, <1>1
<1>2. ASSUME NEW s \in Sessions, s = registered, s = registered', ~Missed'
      PROVE  Knows(s)' /\ committed' = committed
  <2>1. committed' = committed /\ (~Missed \/ TellsNews)
    BY <1>0, <1>2 DEF News
  <2>2. Knows(s) \/ (Notified(s) /\ sess[s].state # "dying")
    <3>1. CASE ~Missed
      BY <1>2, <3>1 DEF Informed, Knows
    <3>2. CASE TellsNews
      BY <1>2, <3>2 DEF TellsNews
    <3> QED
      BY <2>1, <3>1, <3>2
  <2> QED
    BY <1>0, <2>1, <2>2, KnowsStep
<1>3. ASSUME NEW s \in Sessions, s = registered'
      PROVE  /\ sess'[s].state \in {"active", "dying"} =>
                  sess'[s].announced = committed' \/ Missed'
             /\ sess'[s].state = "waiting" /\ sess'[s].linked =>
                  Higher(sess'[s].announced, sess'[s].deferredCommit) = committed' \/ Missed'
  BY <1>1, <1>2, <1>3 DEF Knows
<1>4. ASSUME NEW o \in ops', o.waiter = None, sess'[o.session].state = "dying",
             sess'[o.session].deaths = o.death
      PROVE  /\ ~o.aborted
             /\ o.session = registered' => closedAt'[o.session] <= o.version \/ Missed'
  <2> DEFINE s == o.session
  <2>0. s \in Sessions /\ o.death \in Nat
    BY <1>0 DEF OpT
  <2>1. CASE NewOp(o)
    <3>1. /\ ~o.aborted /\ o.version = sess'[s].announced /\ closedAt'[s] = committed
          /\ committed \in Nat
      BY <1>4, <2>1, NewOpFields, SyncAssumption DEF Base, Shape
    <3>2. ASSUME s = registered', ~Missed'
          PROVE  closedAt'[s] <= o.version
      <4>1. sess'[s].announced = committed'
        BY <1>3, <1>4, <2>0, <3>2
      <4>2. committed' = committed
        BY <1>1, <1>2, <1>4, <2>0, <3>2
      <4> QED
        BY <3>1, <4>1, <4>2
    <3> QED
      BY <3>1, <3>2
  <2>2. CASE OldOp(o)
    <3>1. o \in ops
      BY <1>4, <2>2 DEF OldOp
    <3>2. o.death <= sess[s].deaths /\ sess[s].deaths \in Nat
      BY <1>0, <2>0, <3>1 DEF DeathsCounted
    <3>3. /\ sess[s].state = "dying" /\ sess'[s].deaths = sess[s].deaths
          /\ closedAt'[s] = closedAt[s]
      BY <1>0, <1>4, <2>0, <3>2, DyingStep
    <3>4. ~o.aborted /\ (s = registered => closedAt[s] <= o.version \/ Missed)
      BY <1>4, <3>1, <3>3 DEF Informed
    <3>5. ASSUME s = registered', Missed, ~Missed'
          PROVE  FALSE
      <4>1. s = registered
        BY <1>1, <1>4, <2>0, <3>5
      <4> QED
        BY <1>0, <3>3, <3>5, <4>1 DEF News, TellsNews
    <3>6. s = registered' => s = registered
      BY <1>1, <1>4, <2>0
    <3> QED
      BY <3>3, <3>4, <3>5, <3>6
  <2> QED
    BY <1>0, <2>1, <2>2, OpsOfStep
<1> QED
  BY <1>3, <1>4 DEF Informed

LEMMA InformedInit == Init => Informed
  BY DEF Init, Informed, NewSession

(* A death ends when the server has what was committed before it. *)
LEMMA EndsUploaded ==
    ASSUME Base, Informed, NEW s \in Sessions, Ends(s), s = registered, ~Missed
    PROVE  uploaded >= closedAt[s]
<1>0. /\ sess \in [Sessions -> SessionT] /\ ops \subseteq OpT /\ uploaded \in Nat
      /\ closedAt \in [Sessions -> Nat]
  BY DEF Base, Shape
<1>1. CompleteWait /\ sess[s].state = "dying" /\ sess'[s].state = "inactive"
  BY DEF Ends
<1>2. PICK o \in ops :
        /\ o.aborted \/ ~Alive(o.session) \/ uploaded >= o.version
        /\ o.waiter = None /\ Alive(o.session) /\ IsDeathOf(o.session, o.death)
        /\ sess' = [sess EXCEPT ![o.session].state = "inactive",
                                ![o.session].linked = FALSE,
                                ![o.session].queue = Emptied(o.session)]
  <2>1. sess' # sess
    BY <1>1
  <2> QED
    BY <1>1, <2>1 DEF CompleteWait
<1>3. s = o.session
  BY <1>0, <1>1, <1>2
<1>4. ~o.aborted /\ closedAt[s] <= o.version
  BY <1>2, <1>3 DEF Informed, IsDeathOf
<1>5. uploaded >= o.version /\ o.version \in Nat /\ closedAt[s] \in Nat
  BY <1>0, <1>2, <1>3, <1>4 DEF OpT
<1> QED
  BY <1>0, <1>4, <1>5

-----------------------------------------------------------------------------
(* What the inductive invariant says of the properties *)

SyncInv ==
    /\ Base /\ Bounded /\ DeathsCounted /\ InPlace
    /\ ActiveIsLinked /\ InUseIsRegistered /\ Informed

LEMMA InvInit == Init => SyncInv
  BY BaseInit, DeathsInit, InPlaceInit, LinkedInit, InUseInit, InformedInit DEF SyncInv

LEMMA InvStep == SyncInv /\ [Next]_vars => SyncInv'
  BY BaseStep, BoundedStep, DeathsStep, InPlaceStep, LinkedStep, InUseStep, InformedStep
     DEF SyncInv

LEMMA InvAlways == Spec => []SyncInv
  BY InvInit, InvStep, PTL DEF Spec

LEMMA TypesOfInv ==
    ASSUME SyncInv
    PROVE  TypeOK
<1>0. Base /\ Bounded /\ DeathsCounted /\ InPlace
  BY DEF SyncInv
<1>1. /\ Cardinality(MayRevive) \in Nat
      /\ \A s \in Sessions : sess[s].deaths \in 0 .. MaxCalls
      /\ \A o \in ops : o.death \in 0 .. MaxCalls
  <2>1. Cardinality(MayRevive) \in Nat /\ calls \in Nat /\ MaxCalls \in Nat /\ calls <= MaxCalls
    BY <1>0, FS_CardinalityType, SyncAssumption DEF DeathsCounted, Base, Shape, Bounded
  <2>2. ASSUME NEW s \in Sessions
        PROVE  sess[s].deaths \in 0 .. MaxCalls
    <3>1. sess[s].deaths \in Nat
      BY <1>0 DEF Base, Shape, SessionT
    <3>2. sess[s].deaths + (IF sess[s].state \in {"waiting", "active"} THEN 1 ELSE 0)
            + Cardinality(MayRevive) <= calls
      BY <1>0 DEF DeathsCounted
    <3>3. sess[s].deaths <= calls
      BY <2>1, <3>1, <3>2
    <3> QED
      BY <2>1, <3>1, <3>3
  <2>3. ASSUME NEW o \in ops
        PROVE  o.death \in 0 .. MaxCalls
    <3>1. o.death \in Nat /\ o.session \in Sessions
      BY <1>0 DEF Base, Shape, OpT
    <3>2. o.death <= sess[o.session].deaths
      BY <1>0 DEF DeathsCounted
    <3> QED
      BY <2>1, <2>2, <3>1, <3>2
  <2> QED
    BY <2>1, <2>2, <2>3
<1>2. sess \in [Sessions ->
         [state : {"inactive", "waiting", "active", "dying"}, linked : BOOLEAN,
          connected : BOOLEAN, deferredClose : BOOLEAN,
          deferredCommit : 0 .. committed, deaths : 0 .. MaxCalls,
          queue : SUBSET Waiters, announced : 0 .. committed]]
  <2>1. sess \in [Sessions -> SessionT] /\ committed \in Nat
    BY <1>0 DEF Base, Shape
  <2>2. ASSUME NEW s \in Sessions
        PROVE  sess[s] \in
                 [state : {"inactive", "waiting", "active", "dying"}, linked : BOOLEAN,
                  connected : BOOLEAN, deferredClose : BOOLEAN,
                  deferredCommit : 0 .. committed, deaths : 0 .. MaxCalls,
                  queue : SUBSET Waiters, announced : 0 .. committed]
    <3>1. /\ sess[s].deferredCommit \in 0 .. committed
          /\ sess[s].announced \in 0 .. committed
      BY <1>0, <2>1 DEF Bounded, SessionT
    <3> QED
      BY <1>1, <2>1, <3>1 DEF SessionT, States
  <2> QED
    BY <2>1, <2>2
<1>3. ops \subseteq [session : created, waiter : asked \cup {None},
                     death : 0 .. MaxCalls, version : 0 .. committed,
                     aborted : BOOLEAN]
  <2>1. ASSUME NEW o \in ops
        PROVE  o \in [session : created, waiter : asked \cup {None},
                      death : 0 .. MaxCalls, version : 0 .. committed,
                      aborted : BOOLEAN]
    <3>1. o \in OpT /\ o.session \in created
      BY <1>0 DEF Base, Shape, Known
    <3>2. o.version \in 0 .. committed
      BY <1>0, <3>1 DEF Bounded, OpT, Base, Shape
    <3>3. ASSUME o.waiter # None
          PROVE  o.waiter \in asked
      <4>1. o.waiter \in Waiters /\ o \in OpsOf(o.waiter)
        BY <3>1, <3>3 DEF OpT, OpsOf
      <4> QED
        BY <1>0, <4>1 DEF InPlace, OnePlace
    <3> QED
      BY <1>1, <3>1, <3>2, <3>3 DEF OpT
  <2> QED
    BY <2>1
<1>4. requests \subseteq [session : created, strong : BOOLEAN]
  BY <1>0 DEF Base, Shape, Known, RequestT
<1>5. /\ {registered, userSession, waiting} \subseteq created \cup {None}
      /\ refs \in [Procs -> created \cup {None}]
      /\ \A p \in Procs : {call[p].session, call[p].peek} \subseteq created \cup {None}
  BY <1>0 DEF Base, Shape, Known
<1>6. \A p \in {sessionLock, userLock} \ {None} : call[p].pc # "idle"
  <2>1. ASSUME NEW p \in Procs, p = sessionLock \/ p = userLock
        PROVE  call[p].pc # "idle"
    <3>1. PlaceOf(p)
      BY <1>0 DEF Base, Places
    <3> QED
      BY <2>1, <3>1 DEF PlaceOf, Waits, Exits
  <2> QED
    BY <1>0, <2>1 DEF Base, Shape
<1>7. committed \in 0 .. MaxCalls /\ uploaded \in 0 .. committed
      /\ calls \in 0 .. MaxCalls /\ errors \in 0 .. MaxErrors
  BY <1>0, SyncAssumption DEF Base, Shape, Bounded
<1>8. /\ policy \in StopPolicies /\ created \subseteq Sessions
      /\ {sessionLock, userLock} \subseteq Procs \cup {None}
      /\ userState \in {"Active", "LoggedOut", "Error"}
      /\ called \in [Waiters -> Nat] /\ asked \subseteq Waiters /\ crashed \in BOOLEAN
  BY <1>0 DEF Base, Shape
<1> QED
  BY <1>2, <1>3, <1>4, <1>5, <1>6, <1>7, <1>8, Zenon DEF TypeOK

LEMMA PlaceOfInv ==
    ASSUME Base, InPlace
    PROVE  WaiterHasOnePlace
<1>1. ASSUME NEW w \in asked
      PROVE  Holders(w) = 1
  <2>1. w \in Waiters
    BY DEF Base, Shape
  <2>2. Holders(w) = called[w] + Cardinality(Queues(w)) + Cardinality(OpsOf(w))
                       + Cardinality(Aborters(w))
    BY DEF Holders, Queues, OpsOf, Aborters
  <2>3. /\ Cardinality({}) = 0 /\ \A x : Cardinality({x}) = 1
    BY FS_EmptySet, FS_Singleton
  <2>4. OnePlace(w)
    BY <2>1 DEF InPlace
  <2>5. \/ /\ called[w] = 1 /\ Cardinality(Queues(w)) = 0
           /\ Cardinality(OpsOf(w)) = 0 /\ Cardinality(Aborters(w)) = 0
        \/ /\ called[w] = 0 /\ Cardinality(Queues(w)) = 1
           /\ Cardinality(OpsOf(w)) = 0 /\ Cardinality(Aborters(w)) = 0
        \/ /\ called[w] = 0 /\ Cardinality(Queues(w)) = 0
           /\ Cardinality(OpsOf(w)) = 1 /\ Cardinality(Aborters(w)) = 0
        \/ /\ called[w] = 0 /\ Cardinality(Queues(w)) = 0
           /\ Cardinality(OpsOf(w)) = 0 /\ Cardinality(Aborters(w)) = 1
    BY <2>3, <2>4 DEF OnePlace
  <2> QED
    BY <2>2, <2>5
<1> QED
  BY <1>1 DEF WaiterHasOnePlace

-----------------------------------------------------------------------------
(* The theorems *)

(* Every variable keeps its type: in particular a session dies at most as   *)
(* often as the application makes calls, an operation's waiter is one that  *)
(* was registered, and a mutex is held by a process that is in a call.      *)
THEOREM TypeCorrect == Spec => []TypeOK
<1>1. SyncInv => TypeOK
  BY TypesOfInv
<1> QED
  BY <1>1, InvAlways, PTL

(* SyncSession's states use m_session without a look at it: an active or    *)
(* dying session has one and an inactive one has none, whatever the threads *)
(* and the event loop do; and a session without one says it is connected    *)
(* only for the two reasons that ActiveIsLinked names.                      *)
THEOREM Linkage == Spec => []ActiveIsLinked
<1>1. SyncInv => ActiveIsLinked
  BY DEF SyncInv
<1> QED
  BY <1>1, InvAlways, PTL

(* A completion handler given to wait_for_upload_completion is always in    *)
(* exactly one place: called once, in a session's queue, in a wait          *)
(* operation, or with the process that will cancel it.                      *)
THEOREM OnePlaceEach == Spec => []WaiterHasOnePlace
<1>1. SyncInv => WaiterHasOnePlace
  BY PlaceOfInv DEF SyncInv
<1> QED
  BY <1>1, InvAlways, PTL

(* SyncManager::get_session and unregister_session keep one sync::Session   *)
(* for a file, as long as no session is used again that a thread leaves, or *)
(* has left when nobody referenced it, and no thread unregisters another    *)
(* unreferenced session than its own.                                       *)
THEOREM OneBoundEach == Spec => []OneBoundSession
<1>1. SyncInv => OneBoundSession
  BY OneBound DEF SyncInv
<1> QED
  BY <1>1, InvAlways, PTL

(* Under AfterChangesUploaded the session of the map does not end its death *)
(* before the server has what was committed when the death began, unless it *)
(* missed a commit: the death count keeps the handler of an earlier death   *)
(* from ending a later one.                                                 *)
THEOREM UploadedFirst == Spec => DiesUploaded
<1>1. SyncInv /\ [Next]_vars =>
        [\A s \in Sessions :
           Ends(s) /\ s = registered /\ ~unheard /\ (\A p \in Procs : call[p].pc # "notifying")
             => uploaded >= closedAt[s]]_vars
  BY EndsUploaded DEF SyncInv, Missed
<1> QED
  BY <1>1, InvAlways, PTL DEF Spec, DiesUploaded
=============================================================================
