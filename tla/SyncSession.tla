---------------------------- MODULE SyncSession ----------------------------
(***************************************************************************)
(* The sync sessions of Realm's object store: SyncSession, and what        *)
(* SyncManager and SyncUser do with the sessions of one Realm file and one *)
(* user.                                                                   *)
(*                                                                         *)
(* A session is a state machine under its own mutex.  SyncManager keeps    *)
(* the session of a file in a map under m_session_mutex, SyncUser keeps    *)
(* weak pointers to it under its m_mutex.  A section under a session's     *)
(* mutex is one step here, because nothing else is waited for inside it;   *)
(* the other two mutexes are held across steps.  Becoming inactive is not  *)
(* one step: the session's mutex is released first, then the session is    *)
(* unregistered, then its listeners and waiters are told.                  *)
(*                                                                         *)
(* Application threads make calls; the client thread is the event loop of  *)
(* the sync client.  The sync::Session that moves the data is external:    *)
(* a session is linked while it owns one.  The binding (RLMSyncUser.mm,    *)
(* RLMSyncSessionRefreshHandle.mm) asks a server for access tokens.        *)
(***************************************************************************)
EXTENDS Naturals, FiniteSets

CONSTANTS
    Sessions,       \* SyncSession objects that may be made for the file
    Threads,        \* application threads
    Client,         \* the event loop's thread
    Waiters,        \* completion handlers
    None,
    Calls,          \* the calls the application makes
    Errors,         \* the kinds of error the server sends
    StopPolicies,   \* the stop policies to choose from
    Answers,        \* what the authentication server may answer
    MaxCalls,       \* bound: calls of the application
    MaxErrors       \* bound: errors of the server

AllCalls == {"get", "drop", "wait", "commit", "suspend", "resume", "log_out",
             "log_in", "update_configuration", "reconnect"}
AllErrors == {"token_expired", "bad_authentication", "inactive", "fatal", "other"}
AllPolicies == {"Immediately", "LiveIndefinitely", "AfterChangesUploaded"}
AllAnswers == {"token", "unreachable", "refused"}

Procs == Threads \cup {Client}

ASSUME SyncAssumption ==
    /\ Client \notin Threads /\ None \notin Sessions \cup Procs \cup Waiters
    /\ Calls \subseteq AllCalls /\ Errors \subseteq AllErrors
    /\ StopPolicies \subseteq AllPolicies /\ StopPolicies # {}
    /\ Answers \subseteq AllAnswers
    /\ MaxCalls \in Nat /\ MaxErrors \in Nat

VARIABLES
    policy,        \* m_config.stop_policy
    created,       \* the sessions made so far
    sess,          \* each session
    registered,    \* SyncManager::m_sessions of the file
    sessionLock,   \* who holds SyncManager::m_session_mutex
    userLock,      \* who holds SyncUser::m_mutex, across steps
    userState,     \* SyncUser::m_state
    userSession,   \* SyncUser::m_sessions of the file, a weak pointer
    waiting,       \* SyncUser::m_waiting_sessions of the file, likewise
    refs,          \* the external reference each thread holds
    call,          \* the call each thread is in
    requests,      \* requests for access tokens under way
    ops,           \* wait operations of the sync::Sessions
    committed,     \* versions the application has committed
    uploaded,      \* versions the server has
    called,        \* how often each waiter was called
    crashed,       \* undefined behaviour was reached
    calls, errors, \* bounds: made so far
    \* history
    asked,         \* waiters that were registered
    closedAt,      \* what was committed when the session began to die
    unheard,       \* was a session told of a commit while it was dying?
    overtaken,     \* was a session used again that a thread had yet to
                   \* unregister, or had unregistered when nobody referenced
                   \* it, or did a thread unregister another unreferenced one?
    strays         \* sessions whose listener wrote after its sync::Session ended

lockVars == <<sessionLock, userLock>>
userVars == <<userState, userSession, waiting>>
dataVars == <<committed, uploaded>>
waiterVars == <<called, asked>>
boundVars == <<calls, errors>>
histVars == <<closedAt, unheard, overtaken, strays>>
vars == <<policy, created, sess, registered, lockVars, userVars, refs, call,
          requests, ops, dataVars, waiterVars, crashed, boundVars, histVars>>

NewSession == [state |-> "inactive",
               linked |-> FALSE,            \* m_session, bound
               connected |-> FALSE,         \* m_connection_state
               deferredClose |-> FALSE,
               deferredCommit |-> 0,        \* m_deferred_commit_notification; 0: none
               deaths |-> 0,                \* m_death_count
               queue |-> {},                \* m_completion_wait_packages
               announced |-> 0]             \* the version m_session knows of

Idle == [pc |-> "idle", session |-> None,
         then |-> "idle",         \* where to go on once unregistered
         leaving |-> FALSE,       \* is the rest of Inactive::enter_state to follow?
         peek |-> None,           \* the reference unregister_session looks at
         aborting |-> {},         \* waiters to be told they are cancelled
         event |-> "none"]        \* what the client's listener was called with

(* Somebody holds an external reference. *)
Referenced(s) == \E p \in Procs : s \in {refs[p], call[p].peek}

(* Shared pointers keep a session: weak pointers to it can still be locked. *)
Alive(s) ==
    /\ s # None
    /\ \/ s = registered \/ Referenced(s)
       \/ \E p \in Procs : call[p].session = s
       \/ [session |-> s, strong |-> TRUE] \in requests

Linked(s) == Alive(s) /\ sess[s].linked

At(p, pc) == ~crashed /\ call[p].pc = pc

Init ==
    /\ policy \in StopPolicies /\ created = {}
    /\ sess = [s \in Sessions |-> NewSession]
    /\ registered = None /\ sessionLock = None /\ userLock = None
    /\ userState = "Active" /\ userSession = None /\ waiting = None
    /\ refs = [p \in Procs |-> None] /\ call = [p \in Procs |-> Idle]
    /\ requests = {} /\ ops = {}
    /\ committed = 0 /\ uploaded = 0
    /\ called = [w \in Waiters |-> 0] /\ asked = {}
    /\ crashed = FALSE /\ calls = 0 /\ errors = 0
    /\ closedAt = [s \in Sessions |-> 0] 
    /\ unheard = FALSE /\ overtaken = FALSE /\ strays = {}

(* A thread starts a call of the application. *)
Start(t, c) ==
    /\ c \in Calls /\ At(t, "idle") /\ calls < MaxCalls
    /\ calls' = calls + 1
    /\ UNCHANGED <<policy, dataVars, crashed, errors, unheard, strays>>

(* Steps inside a call *)
Go(p, pc) ==
    /\ At(p, pc)
    /\ pc # "notifying" => UNCHANGED unheard
    /\ UNCHANGED <<policy, created, dataVars, asked, boundVars, strays>>

(* The call goes on at pc, or ends. *)
To(p, pc) ==
    call' = [call EXCEPT ![p] =
      IF pc = "idle" THEN Idle
      ELSE [Idle EXCEPT !.pc = pc, !.session = call[p].session]]

Tell(ws) == called' = [w \in Waiters |-> called[w] + (IF w \in ws THEN 1 ELSE 0)]

-----------------------------------------------------------------------------
(* Sections under a session's mutex *)

(* The wait operations in os once the sync::Session of s has ended *)
Aborted(s, os) ==
    {IF o.session = s THEN [o EXCEPT !.aborted = TRUE] ELSE o : o \in os}

(* Mutant of Emptied: the queue is left. *)
Kept(s) == sess[s].queue

(* The queue of a session that has become inactive *)
Emptied(s) == {}

(* advance_state(inactive), up to the release of the mutex *)
Inactivate(p, s, then) ==
    /\ sess' = [sess EXCEPT ![s].state = "inactive", ![s].linked = FALSE,
                            ![s].queue = Emptied(s)]
    /\ ops' = Aborted(s, ops)
    /\ call' = [call EXCEPT ![p] =
         [Idle EXCEPT !.pc = "unregistering", !.session = s, !.then = then,
                      !.leaving = TRUE,
                      !.aborting = call[p].aborting \cup sess[s].queue]]
    /\ UNCHANGED <<closedAt, overtaken>>

(* A wait operation, for a waiter or the death-th death of a session, is    *)
(* done when the server has the version, or its sync::Session has ended. *)
WaitOp(s, w, death, v) ==
    [session |-> s, waiter |-> w, death |-> death, version |-> v,
     aborted |-> FALSE]

(* advance_state(dying), with the state entered: the session dies when all  *)
(* it has to upload is uploaded. *)
BeginDying(s) ==
    /\ sess' = [sess EXCEPT ![s].state = "dying", ![s].deaths = @ + 1]
    /\ ops' = ops \cup {WaitOp(s, None, sess[s].deaths + 1, sess[s].announced)}
    /\ closedAt' = [closedAt EXCEPT ![s] = committed]

(* SyncSession::close, and on with the call as c *)
Close(p, s, c) ==
    LET state == sess[s].state
    IN  \/ /\ policy = "Immediately" /\ state \in {"waiting", "active"}
           /\ Inactivate(p, s, c.pc)
        \/ /\ policy # "Immediately" /\ state = "waiting"
           /\ sess' = [sess EXCEPT ![s].deferredClose = TRUE]
           /\ call' = [call EXCEPT ![p] = c]
           /\ UNCHANGED <<ops, closedAt, overtaken>>
        \/ /\ policy = "AfterChangesUploaded" /\ state = "active"
           /\ BeginDying(s)
           /\ call' = [call EXCEPT ![p] = c]
           /\ UNCHANGED overtaken
        \/ /\ state = "dying" \/ (policy = "LiveIndefinitely" /\ state = "active")
           /\ call' = [call EXCEPT ![p] = c]
           /\ UNCHANGED <<sess, ops, closedAt, overtaken>>
        \/ /\ state = "inactive"
           /\ call' = [call EXCEPT ![p] =
                [c EXCEPT !.pc = "unregistering", !.session = s, !.then = c.pc]]
           /\ UNCHANGED <<sess, ops, closedAt, overtaken>>

(* SyncSession::log_out, and on to pc *)
LogOut(p, s, pc) ==
    \/ /\ sess[s].state # "inactive"
       /\ Inactivate(p, s, pc)
    \/ /\ sess[s].state = "inactive"
       /\ To(p, pc)
       /\ UNCHANGED <<sess, ops, closedAt, overtaken>>

(* The binding lets requests go: they no longer keep their session. *)
LetGo(rs) == {[r EXCEPT !.strong = FALSE] : r \in rs}

(* bind_session_handler, which the session calls when its mutex is released: *)
(* a new request for a token takes the place of the last one.  get_session   *)
(* and reconnect hold m_session_mutex. *)
BindSessionHandler(p) ==
    /\ \/ /\ Go(p, "asking")
          /\ To(p, IF sessionLock = p THEN "referencing" ELSE "idle")
          /\ UNCHANGED sessionLock
       \/ /\ Go(p, "reconnecting")
          /\ To(p, "idle")
          /\ sessionLock' = None
    /\ requests' = LetGo(requests) \cup {[session |-> call[p].session, strong |-> TRUE]}
    /\ UNCHANGED <<sess, registered, userLock, userVars, refs, ops, called, crashed,
                   closedAt, overtaken>>

(* The threads that have yet to unregister s *)
BeingLeft(s) ==
    \E p \in Procs : call[p].pc \in {"unregistering", "peeking", "leaving"}
                     /\ call[p].session = s

(* SyncSession::revive_if_needed, up to the release of the mutex *)
ReviveIfNeeded(s) ==
    LET state == sess[s].state
    IN  /\ \/ /\ state = "inactive"
              /\ sess' = [sess EXCEPT ![s].state = "waiting",
                                      ![s].deferredClose = FALSE]
           \/ /\ state = "waiting"
              /\ sess' = [sess EXCEPT ![s].deferredClose = FALSE]
           \/ /\ state = "dying"
              /\ sess' = [sess EXCEPT ![s].state = "active"]
           \/ state = "active" /\ UNCHANGED sess
        /\ overtaken' = (overtaken \/ BeingLeft(s) \/ (s # registered /\ ~Referenced(s)))

-----------------------------------------------------------------------------
(* SyncManager: get_session, and the end of the last external reference *)

(* The map is searched, and filled, under m_session_mutex, which is held    *)
(* until the session is revived and referenced. *)
GetSession(t) ==
    /\ Start(t, "get")
    /\ refs[t] = None /\ sessionLock = None
    /\ sessionLock' = t
    /\ \/ /\ registered # None
          /\ call' = [call EXCEPT ![t] =
               [Idle EXCEPT !.pc = "registering", !.session = registered]]
          /\ UNCHANGED <<created, registered, refs>>
       \/ /\ registered = None
          /\ \E s \in Sessions \ created :
               /\ created' = created \cup {s}
               /\ registered' = s
               /\ refs' = [refs EXCEPT ![t] = s]
               /\ call' = [call EXCEPT ![t] =
                    [Idle EXCEPT !.pc = "registering", !.session = s]]
    /\ UNCHANGED <<sess, userLock, userVars, requests, ops, waiterVars, closedAt,
                   overtaken>>

(* SyncUser::register_session *)
RegisterSession(t) ==
    LET s == call[t].session
    IN  /\ Go(t, "registering")
        /\ userLock = None
        /\ \/ /\ userState = "Active" /\ userSession' = s
              /\ To(t, "reviving") /\ UNCHANGED waiting
           \/ /\ userState = "LoggedOut" /\ waiting' = s
              /\ To(t, "referencing") /\ UNCHANGED userSession
           \/ /\ userState = "Error"
              /\ To(t, "referencing") /\ UNCHANGED <<userSession, waiting>>
        /\ UNCHANGED <<sess, registered, lockVars, userState, refs, requests, ops,
                       called, crashed, closedAt, overtaken>>

Revive(t) ==
    LET s == call[t].session
    IN  /\ Go(t, "reviving")
        /\ ReviveIfNeeded(s)
        /\ To(t, IF sess[s].state = "inactive" THEN "asking"
                 ELSE IF sessionLock = t THEN "referencing" ELSE "idle")
        /\ UNCHANGED <<registered, lockVars, userVars, refs, requests, ops, called,
                       crashed, closedAt>>

(* Mutant of TakeReference: m_session_mutex is kept. *)
TakeReferenceLocked(t) ==
    /\ Go(t, "referencing")
    /\ refs' = [refs EXCEPT ![t] = call[t].session]
    /\ To(t, "idle")
    /\ UNCHANGED <<sess, registered, lockVars, userVars, requests, ops, called,
                   crashed, closedAt, overtaken>>

TakeReference(t) ==
    /\ Go(t, "referencing")
    /\ refs' = [refs EXCEPT ![t] = call[t].session]
    /\ sessionLock' = None
    /\ To(t, "idle")
    /\ UNCHANGED <<sess, registered, userLock, userVars, requests, ops, called,
                   crashed, closedAt, overtaken>>

(* The reference is gone before did_drop_external_reference has the mutex. *)
DropReference(t) ==
    LET s == refs[t]
    IN  /\ Start(t, "drop")
        /\ s # None
        /\ refs' = [refs EXCEPT ![t] = None]
        /\ call' = [call EXCEPT ![t] =
             IF \E p \in Procs : s = call[p].peek \/ (p # t /\ s = refs[p]) THEN Idle
             ELSE [Idle EXCEPT !.pc = "dropping", !.session = s]]
        /\ UNCHANGED <<created, sess, registered, lockVars, userVars, requests,
                       ops, waiterVars, closedAt, overtaken>>

(* A session that is referenced again is not closed. *)
DidDropReference(t) ==
    LET s == call[t].session
    IN  /\ Go(t, "dropping")
        /\ \/ Referenced(s) /\ To(t, "idle")
              /\ UNCHANGED <<sess, ops, closedAt, overtaken>>
           \/ ~Referenced(s) /\ Close(t, s, Idle)
        /\ UNCHANGED <<registered, lockVars, userVars, refs, requests, called,
                       crashed>>

-----------------------------------------------------------------------------
(* Any process: SyncManager::unregister_session, and the rest of            *)
(* Inactive::enter_state *)

(* Mutant of Spare: a session in use is unregistered. *)
SpareNone(s) == FALSE

Spare(s) == Referenced(s)

(* Where to go on once the session is unregistered *)
Left(c) ==
    IF c.leaving THEN [c EXCEPT !.pc = "leaving", !.peek = None]
    ELSE IF c.then = "idle" THEN Idle
    ELSE [Idle EXCEPT !.pc = c.then, !.session = c.session]

(* The map's session is erased, unless it is referenced.  To find out, the  *)
(* reference is shared for a moment.  The assertion that the map has one is *)
(* not compiled, and its element is used. *)
Unregister(p) ==
    /\ Go(p, "unregistering")
    /\ sessionLock = None
    /\ \/ /\ registered = None
          /\ crashed' = TRUE
          /\ UNCHANGED <<registered, sessionLock, call, overtaken>>
       \/ /\ registered # None /\ Spare(registered)
          /\ sessionLock' = p
          /\ call' = [call EXCEPT ![p].pc = "peeking", ![p].peek = registered]
          /\ UNCHANGED <<registered, crashed, overtaken>>
       \/ /\ registered # None /\ ~Spare(registered)
          /\ registered' = None
          /\ call' = [call EXCEPT ![p] = Left(call[p])]
          /\ overtaken' = (overtaken \/ (registered # call[p].session
                                         /\ ~Referenced(registered)))
          /\ UNCHANGED <<sessionLock, crashed>>
    /\ UNCHANGED <<sess, userLock, userVars, refs, requests, ops, called, closedAt>>

(* If every other reference has gone meanwhile, this one is the last, and   *)
(* closes the session while the process holds m_session_mutex: if that      *)
(* leaves the session inactive, unregister_session waits for itself. *)
StopPeeking(p) ==
    LET s == call[p].peek
        last == \A q \in Procs : s # refs[q] /\ (q # p => s # call[q].peek)
    IN  /\ Go(p, "peeking")
        /\ \/ /\ last
              /\ Close(p, s, Left(call[p]))
           \/ /\ ~last
              /\ call' = [call EXCEPT ![p] = Left(call[p])]
              /\ UNCHANGED <<sess, ops, closedAt, overtaken>>
        /\ sessionLock' = IF call'[p].pc = "unregistering" THEN p ELSE None
        /\ UNCHANGED <<registered, userLock, userVars, refs, requests, called,
                       crashed>>

Disconnect(s) == sess' = [sess EXCEPT ![s].connected = FALSE]

(* The connection is gone, and the waiters are cancelled. *)
Leave(p) ==
    LET c == call[p]
    IN  /\ Go(p, "leaving")
        /\ Disconnect(c.session)
        /\ Tell(c.aborting)
        /\ To(p, c.then)
        /\ UNCHANGED <<registered, lockVars, userVars, refs, requests, ops, crashed,
                       closedAt, overtaken>>

-----------------------------------------------------------------------------
(* SyncUser *)

(* SyncUser::log_out, under m_mutex until the session is logged out; rs are *)
(* the requests there are.  A user who is logged out has no session. *)
LogOutUser(t, rs) ==
    /\ userLock = None
    /\ userState' = "LoggedOut"
    /\ \/ /\ Alive(userSession)
          /\ userLock' = t
          /\ call' = [call EXCEPT ![t] =
               [Idle EXCEPT !.pc = "logging_out", !.session = userSession]]
          /\ requests' = rs /\ UNCHANGED userSession
       \/ /\ ~Alive(userSession)
          /\ userSession' = None /\ requests' = LetGo(rs)
          /\ UNCHANGED <<userLock, call>>
    /\ UNCHANGED <<created, sess, registered, sessionLock, waiting, refs, ops,
                   waiterVars, closedAt, overtaken>>

(* The server refuses a token: an answer that thread t is given. *)
Refused(t, r) ==
    /\ "refused" \in Answers /\ r \in requests /\ At(t, "idle")
    /\ UNCHANGED <<policy, dataVars, crashed, boundVars, unheard, strays>>

(* The application logs the user out, or the binding does when a token is   *)
(* refused and the application has set an error handler. *)
UserLogOut(t) ==
    \/ Start(t, "log_out") /\ LogOutUser(t, requests)
    \/ \E r \in requests : Refused(t, r) /\ LogOutUser(t, requests \ {r})

LogOutSession(t) ==
    /\ Go(t, "logging_out")
    /\ LogOut(t, call[t].session, "logged_out")
    /\ UNCHANGED <<registered, lockVars, userVars, refs, requests, called, crashed>>

(* The binding then lets its requests go. *)
FinishLogOut(t) ==
    /\ Go(t, "logged_out")
    /\ waiting' = call[t].session /\ userSession' = None
    /\ userLock' = None
    /\ requests' = LetGo(requests)
    /\ To(t, "idle")
    /\ UNCHANGED <<sess, registered, sessionLock, userState, refs, ops, called,
                   crashed, closedAt, overtaken>>

(* update_refresh_token: the waiting session is revived without the mutex. *)
LogIn(t) ==
    /\ Start(t, "log_in")
    /\ userLock = None /\ userState = "LoggedOut"
    /\ userState' = "Active" /\ waiting' = None
    /\ \/ /\ Alive(waiting)
          /\ userSession' = waiting
          /\ call' = [call EXCEPT ![t] =
               [Idle EXCEPT !.pc = "reviving", !.session = waiting]]
       \/ ~Alive(waiting) /\ UNCHANGED <<userSession, call>>
    /\ UNCHANGED <<created, sess, registered, lockVars, refs, requests, ops,
                   waiterVars, closedAt, overtaken>>

-----------------------------------------------------------------------------
(* Calls of a session.  RLMSyncSession holds a weak pointer, and locks it   *)
(* before the call. *)

Lock(t, c, pc) ==
    /\ Start(t, c)
    /\ \E s \in Sessions :
         /\ Alive(s)
         /\ call' = [call EXCEPT ![t] = [Idle EXCEPT !.pc = pc, !.session = s]]
    /\ UNCHANGED <<created, sess, registered, lockVars, userVars, refs, requests,
                   ops, waiterVars, closedAt, overtaken>>

(* RLMSyncSession's suspend; its resume is Revive. *)
Suspend(t) ==
    /\ Go(t, "suspending")
    /\ LogOut(t, call[t].session, "idle")
    /\ UNCHANGED <<registered, lockVars, userVars, refs, requests, called, crashed>>

(* update_configuration makes the session inactive until it stays so. *)
UpdateConfiguration(t) ==
    LET s == call[t].session
    IN  /\ Go(t, "reconfiguring")
        /\ \/ /\ sess[s].state # "inactive"
              /\ Inactivate(t, s, "reconfiguring")
           \/ /\ sess[s].state = "inactive"
              /\ To(t, "reviving")
              /\ UNCHANGED <<sess, ops, closedAt, overtaken>>
        /\ UNCHANGED <<registered, lockVars, userVars, refs, requests, called,
                       crashed>>

(* wait_for_upload_completion: queued until there is a sync::Session. *)
WaitForCompletion(t) ==
    LET s == refs[t]
    IN  /\ Start(t, "wait")
        /\ s # None
        /\ \E w \in Waiters \ asked :
             /\ asked' = asked \cup {w}
             /\ \/ /\ sess[s].state \in {"waiting", "inactive"}
                   /\ sess' = [sess EXCEPT ![s].queue = @ \cup {w}]
                   /\ UNCHANGED ops
                \/ /\ sess[s].state \in {"active", "dying"}
                   /\ ops' = ops \cup {WaitOp(s, w, 0, sess[s].announced)}
                   /\ UNCHANGED sess
        /\ UNCHANGED <<created, registered, lockVars, userVars, refs, call,
                       requests, called, closedAt, overtaken>>

(* A Realm commits, and then tells its session. *)
Commit(t) ==
    /\ "commit" \in Calls /\ At(t, "idle") /\ calls < MaxCalls
    /\ calls' = calls + 1
    /\ refs[t] # None
    /\ committed' = committed + 1
    /\ call' = [call EXCEPT ![t] = [Idle EXCEPT !.pc = "notifying", !.session = refs[t]]]
    /\ UNCHANGED <<policy, created, sess, registered, lockVars, userVars, refs,
                   requests, ops, uploaded, waiterVars, crashed, errors, histVars>>

(* nonsync_transact_notify: an active session is told at once, a waiting    *)
(* one when it has its token, the others never. *)
NotifySession(t) ==
    LET s == call[t].session  state == sess[s].state
    IN  /\ Go(t, "notifying")
        /\ sess' = [sess EXCEPT
             ![s].announced = IF state = "active" THEN committed ELSE @,
             ![s].deferredCommit = IF state = "waiting" THEN committed ELSE @]
        /\ unheard' = (unheard \/ state = "dying")
        /\ To(t, "idle")
        /\ UNCHANGED <<registered, lockVars, userVars, refs, requests, ops, called,
                       crashed, closedAt, overtaken>>

(* SyncManager::reconnect, under m_session_mutex: a waiting session asks for *)
(* its token again. *)
Reconnect(t) ==
    /\ Start(t, "reconnect")
    /\ sessionLock = None /\ registered # None
    /\ sess[registered].state = "waiting"
    /\ sessionLock' = t
    /\ call' = [call EXCEPT ![t] = [Idle EXCEPT !.pc = "reconnecting", !.session = registered]]
    /\ UNCHANGED <<created, sess, registered, userLock, userVars, refs, requests,
                   ops, waiterVars, closedAt, overtaken>>

-----------------------------------------------------------------------------
(* The binding's request for a token is answered, on some thread of its own *)

Higher(a, b) == IF a > b THEN a ELSE b

(* Mutant of Bind: the queue is left alone. *)
BindKeepingQueue(s) ==
    LET old == sess[s]
        bound == IF old.linked THEN old.announced ELSE committed
    IN  /\ sess' = [sess EXCEPT
             ![s].state = "active", ![s].linked = TRUE, ![s].deferredCommit = 0,
             ![s].announced = Higher(bound, old.deferredCommit)]
        /\ UNCHANGED <<ops, closedAt>>

(* A waiting session is bound, or bound again: the queued waiters become    *)
(* wait operations, and a deferred commit and a deferred close are done. *)
Bind(s) ==
    LET old == sess[s]
        bound == IF old.linked THEN old.announced ELSE committed
        announced == Higher(bound, old.deferredCommit)
        dies == old.deferredClose /\ policy = "AfterChangesUploaded"
    IN  /\ sess' = [sess EXCEPT
             ![s].state = IF dies THEN "dying" ELSE "active",
             ![s].linked = TRUE, ![s].queue = {}, ![s].deferredCommit = 0,
             ![s].announced = announced,
             ![s].deaths = IF dies THEN @ + 1 ELSE @]
        /\ ops' = ops \cup {WaitOp(s, w, 0, bound) : w \in old.queue}
                      \cup (IF dies THEN {WaitOp(s, None, old.deaths + 1, announced)}
                            ELSE {})
        /\ closedAt' = [closedAt EXCEPT ![s] = IF dies THEN committed ELSE @]

(* refresh_access_token: an active session goes on with the new token, one  *)
(* that is dying or inactive does nothing. *)
TokenArrives(r) ==
    /\ "token" \in Answers /\ r \in requests /\ ~crashed
    /\ \/ Alive(r.session) /\ sess[r.session].state = "waiting" /\ Bind(r.session)
       \/ /\ ~Alive(r.session) \/ sess[r.session].state # "waiting"
          /\ UNCHANGED <<sess, ops, closedAt>>
    /\ requests' = requests \ {r}
    /\ UNCHANGED <<policy, created, registered, lockVars, userVars, refs, call,
                   dataVars, waiterVars, crashed, boundVars, unheard, overtaken,
                   strays>>

(* The next try no longer keeps the session. *)
ServerUnreachable(r) ==
    /\ "unreachable" \in Answers /\ r \in requests /\ r.strong /\ ~crashed
    /\ requests' = (requests \ {r}) \cup {[r EXCEPT !.strong = FALSE]}
    /\ UNCHANGED <<policy, created, sess, registered, lockVars, userVars, refs,
                   call, ops, dataVars, waiterVars, crashed, boundVars, histVars>>

(* Without an error handler, or if the answer is not understood, the        *)
(* session is logged out if the binding still keeps it. *)
TokenRefused(t, r) ==
    /\ Refused(t, r)
    /\ requests' = requests \ {r}
    /\ call' = IF r.strong
               THEN [call EXCEPT ![t] =
                       [Idle EXCEPT !.pc = "suspending", !.session = r.session]]
               ELSE call
    /\ UNCHANGED <<created, sess, registered, lockVars, userVars, refs, ops,
                   waiterVars, closedAt, overtaken>>

-----------------------------------------------------------------------------
(* The client thread: the listener of a sync::Session, its errors, and the  *)
(* wait operations *)

ClientStep(pc) ==
    /\ At(Client, pc)
    /\ UNCHANGED <<policy, created, registered, sessionLock, userLock, userSession,
                   waiting, refs, dataVars, asked, crashed, calls, unheard>>

(* The listener has locked its weak pointer. *)
ListenerCalled ==
    /\ ClientStep("idle")
    /\ \E s \in Sessions, e \in Errors \cup {"connected", "disconnected"} :
         /\ Linked(s)
         /\ e \in Errors => errors < MaxErrors
         /\ e = "connected" <=> ~sess[s].connected /\ e \notin Errors
         /\ errors' = IF e \in Errors THEN errors + 1 ELSE errors
         /\ call' = [call EXCEPT ![Client] =
              [Idle EXCEPT !.pc = "listening", !.session = s, !.event = e]]
    /\ UNCHANGED <<sess, userState, requests, ops, called, histVars>>

(* The connection state is written without a mutex. *)
Listen ==
    LET s == call[Client].session  e == call[Client].event
    IN  /\ ClientStep("listening")
        /\ sess' = [sess EXCEPT ![s].connected = e = "connected"]
        /\ strays' = IF sess[s].linked THEN strays ELSE strays \cup {s}
        /\ call' = [call EXCEPT ![Client] =
             IF e \in Errors THEN [call[Client] EXCEPT !.pc = "erring"] ELSE Idle]
        /\ UNCHANGED <<userState, requests, ops, called, errors, closedAt, overtaken>>

(* handle_error: a dying session handles its errors; the mutex is released  *)
(* before any other does. *)
HandleError ==
    LET s == call[Client].session  e == call[Client].event
    IN  /\ ClientStep("erring")
        /\ \/ /\ sess[s].state = "dying" /\ e \in {"token_expired", "other"}
              /\ To(Client, "idle")
              /\ UNCHANGED <<sess, ops, closedAt, overtaken>>
           \/ /\ sess[s].state = "dying" /\ e \notin {"token_expired", "other"}
              /\ Inactivate(Client, s, "idle")
           \/ /\ sess[s].state # "dying"
              /\ call' = [call EXCEPT ![Client].pc = "responding"]
              /\ UNCHANGED <<sess, ops, closedAt, overtaken>>
        /\ UNCHANGED <<userState, requests, called, errors, strays>>

(* access_token_expired: an active session waits for another token. *)
TokenExpired(s) ==
    /\ \/ /\ sess[s].state = "active"
          /\ sess' = [sess EXCEPT ![s].state = "waiting", ![s].deferredClose = FALSE]
          /\ To(Client, "asking")
       \/ sess[s].state # "active" /\ UNCHANGED sess /\ To(Client, "idle")
    /\ UNCHANGED <<requests, ops, called, closedAt, overtaken>>

CancelPendingWaits(s, pc) ==
    /\ sess' = [sess EXCEPT ![s].queue = {}]
    /\ Tell(sess[s].queue)
    /\ To(Client, pc)
    /\ UNCHANGED <<requests, ops, closedAt, overtaken>>

(* The second part of handle_error.  An error that makes the session        *)
(* inactive does so in whatever state it is now. *)
RespondToError ==
    LET s == call[Client].session  e == call[Client].event
    IN  /\ ClientStep("responding")
        /\ \/ e = "token_expired" /\ TokenExpired(s)
           \/ e = "bad_authentication" /\ CancelPendingWaits(s, "invalidating")
           \/ e = "inactive" /\ Inactivate(Client, s, "idle")
              /\ UNCHANGED <<requests, called>>
           \/ e = "fatal" /\ CancelPendingWaits(s, "idle")
           \/ e = "other" /\ To(Client, "idle")
              /\ UNCHANGED <<sess, requests, ops, called, closedAt, overtaken>>
        /\ UNCHANGED <<userState, errors, strays>>

(* SyncUser::invalidate *)
InvalidateUser ==
    /\ ClientStep("invalidating")
    /\ userLock = None
    /\ userState' = "Error"
    /\ To(Client, "idle")
    /\ UNCHANGED <<sess, requests, ops, called, errors, histVars>>

Upload(s) ==
    /\ Linked(s) /\ sess[s].state \in {"active", "dying"} /\ ~crashed
    /\ uploaded < sess[s].announced
    /\ uploaded' = sess[s].announced
    /\ UNCHANGED <<policy, created, sess, registered, lockVars, userVars, refs,
                   call, requests, ops, committed, waiterVars, crashed, boundVars,
                   histVars>>

(* Mutant of IsDeathOf: the death before is taken for it. *)
IsDeathBefore(s, n) == sess[s].state = "dying" /\ sess[s].deaths = n - 1

(* Mutant of IsDeathOf: any death of the session counts. *)
IsAnyDeathOf(s, n) == sess[s].state = "dying"

(* Is the n-th death of s still the one it is dying? *)
IsDeathOf(s, n) == sess[s].state = "dying" /\ sess[s].deaths = n

(* The handler of a wait operation is called, whatever ended it: a waiter,  *)
(* or the handler that ends the death of a session. *)
CompleteWait ==
    /\ ClientStep("idle")
    /\ \E o \in ops :
         LET s == o.session
         IN  /\ o.aborted \/ ~Alive(s) \/ uploaded >= o.version
             /\ \/ /\ o.waiter # None
                   /\ Tell({o.waiter})
                   /\ ops' = ops \ {o}
                   /\ UNCHANGED <<sess, call>>
                \/ /\ o.waiter = None /\ Alive(s) /\ IsDeathOf(s, o.death)
                   /\ sess' = [sess EXCEPT ![s].state = "inactive", ![s].linked = FALSE,
                                           ![s].queue = Emptied(s)]
                   /\ ops' = Aborted(s, ops \ {o})
                   /\ call' = [call EXCEPT ![Client] =
                        [Idle EXCEPT !.pc = "unregistering", !.session = s,
                                     !.leaving = TRUE, !.aborting = sess[s].queue]]
                   /\ UNCHANGED called
                \/ /\ o.waiter = None /\ ~(Alive(s) /\ IsDeathOf(s, o.death))
                   /\ ops' = ops \ {o}
                   /\ UNCHANGED <<sess, call, called>>
    /\ UNCHANGED <<userState, requests, errors, histVars>>

-----------------------------------------------------------------------------

ThreadStep(t) ==
    \/ GetSession(t) \/ DropReference(t) \/ UserLogOut(t) \/ LogIn(t)
    \/ WaitForCompletion(t) \/ Commit(t) \/ Reconnect(t)
    \/ Lock(t, "suspend", "suspending") \/ Lock(t, "resume", "reviving")
    \/ Lock(t, "update_configuration", "reconfiguring")
    \/ \E r \in requests : TokenRefused(t, r)

InCall(p) ==
    \/ RegisterSession(p) \/ Revive(p) \/ TakeReference(p) \/ DidDropReference(p)
    \/ BindSessionHandler(p) \/ Unregister(p) \/ StopPeeking(p) \/ Leave(p)
    \/ LogOutSession(p) \/ FinishLogOut(p) \/ Suspend(p) \/ UpdateConfiguration(p)
    \/ NotifySession(p)

ClientSteps ==
    \/ ListenerCalled \/ Listen \/ HandleError \/ RespondToError \/ InvalidateUser
    \/ CompleteWait

Next ==
    \/ \E t \in Threads : ThreadStep(t)
    \/ \E p \in Procs : InCall(p)
    \/ ClientSteps
    \/ \E r \in requests : TokenArrives(r) \/ ServerUnreachable(r)
    \/ \E s \in Sessions : Upload(s)

Spec == Init /\ [][Next]_vars

(* Threads go on with their calls, the client's event loop runs, and the    *)
(* servers answer. *)
Fairness ==
    /\ \A p \in Procs : WF_vars(InCall(p))
    /\ WF_vars(Listen \/ HandleError \/ RespondToError \/ InvalidateUser)
    /\ SF_vars(CompleteWait)
    /\ WF_vars(\E r \in requests : TokenArrives(r))
    /\ WF_vars(\E s \in Sessions : Upload(s))

FairSpec == Spec /\ Fairness

-----------------------------------------------------------------------------
(* Properties *)

(* Every variable keeps its type, and a mutex is held by a process that is  *)
(* in a call. *)
TypeOK ==
    /\ policy \in StopPolicies /\ created \subseteq Sessions
    /\ sess \in [Sessions ->
         [state : {"inactive", "waiting", "active", "dying"}, linked : BOOLEAN,
          connected : BOOLEAN, deferredClose : BOOLEAN,
          deferredCommit : 0 .. committed, deaths : 0 .. MaxCalls,
          queue : SUBSET Waiters, announced : 0 .. committed]]
    /\ {registered, userSession, waiting} \subseteq created \cup {None}
    /\ {sessionLock, userLock} \subseteq Procs \cup {None}
    /\ \A p \in {sessionLock, userLock} \ {None} : call[p].pc # "idle"
    /\ userState \in {"Active", "LoggedOut", "Error"}
    /\ refs \in [Procs -> created \cup {None}]
    /\ \A p \in Procs : {call[p].session, call[p].peek} \subseteq created \cup {None}
    /\ requests \subseteq [session : created, strong : BOOLEAN]
    /\ ops \subseteq [session : created, waiter : asked \cup {None},
                      death : 0 .. MaxCalls, version : 0 .. committed,
                      aborted : BOOLEAN]
    /\ committed \in 0 .. MaxCalls /\ uploaded \in 0 .. committed
    /\ called \in [Waiters -> Nat] /\ asked \subseteq Waiters
    /\ crashed \in BOOLEAN /\ calls \in 0 .. MaxCalls /\ errors \in 0 .. MaxErrors

(* unregister_session waits for the mutex it holds itself. *)
Waits(p) == sessionLock = p /\ call[p].pc = "unregistering"

(* A session that is active or dying has a sync::Session, which its calls   *)
(* use without looking, and an inactive one has none; nobody is left in the *)
(* queue of a session that no longer looks at it; and a session without a   *)
(* sync::Session does not say that it is connected, but for a listener that *)
(* writes after the end of its sync::Session, or a process that waits for   *)
(* the mutex it holds before it comes to that. *)
ActiveIsLinked ==
    \A s \in Sessions :
      /\ sess[s].state \in {"active", "dying"} => sess[s].linked /\ sess[s].queue = {}
      /\ sess[s].state = "inactive" => ~sess[s].linked
      /\ sess[s].connected =>
           \/ sess[s].linked \/ s \in strays
           \/ \E p \in Procs : call[p].leaving /\ (call[p].session = s \/ Waits(p))

(* How many will call, or have called, waiter w *)
Holders(w) ==
    called[w] + Cardinality({s \in Sessions : w \in sess[s].queue})
      + Cardinality({o \in ops : o.waiter = w})
      + Cardinality({p \in Procs : w \in call[p].aborting})

(* "the completion handler will always be called at least once": a waiter   *)
(* is always in one place, never lost and never called twice, while its     *)
(* session goes through tokens, errors, closing and revival. *)
WaiterHasOnePlace == \A w \in asked : Holders(w) = 1

(* At most one sync::Session is bound for a file, as long as no session was *)
(* used again that a thread was about to unregister, or had unregistered    *)
(* when nobody referenced it, and no thread has unregistered another such   *)
(* session than the one it leaves. *)
OneBoundSession ==
    ~overtaken => \A r, s \in Sessions : Linked(r) /\ Linked(s) => r = s

(* A session whose death comes to its end *)
Ends(s) == CompleteWait /\ sess[s].state = "dying" /\ sess'[s].state = "inactive"

(* The session of the file that was closed under AfterChangesUploaded is    *)
(* not ended before the server has all that was committed when it was       *)
(* closed, not even by the late handler of an earlier death, unless it was, *)
(* or has yet to be, told of a commit while it is dying.  A session that is *)
(* no longer in the map is told of no commit. *)
DiesUploaded ==
    [][\A s \in Sessions :
         Ends(s) /\ s = registered /\ ~unheard /\ (\A p \in Procs : call[p].pc # "notifying")
           => uploaded >= closedAt[s]]_vars

(* "Once all Realms/Sessions go out of scope, wait for uploads to complete  *)
(* and stop": the same of every commit.  It fails: a session that is dying  *)
(* although it is referenced is told of no commit. *)
StopsUploaded ==
    [][\A s \in Sessions :
         Ends(s) /\ s = registered /\ (\A p \in Procs : call[p].pc # "notifying")
           => uploaded >= closedAt[s]]_vars

(* unregister_session has used the end of the map, or waits for itself. *)
Stuck == crashed \/ \E p \in Procs : Waits(p)

(* A session that is dying ends, or is revived, unless unregister_session   *)
(* fails. *)
DyingEnds ==
    \A s \in Sessions :
      sess[s].state = "dying" /\ Alive(s)
        ~> sess[s].state # "dying" \/ ~Alive(s) \/ Stuck

(* "The completion handler will always be called at least once, except in   *)
(* the case where a logged-out session is never logged back in": a waiter   *)
(* is called, or is in the queue of a session that is inactive, unless      *)
(* unregister_session fails. *)
WaiterIsCalled ==
    \A w \in Waiters :
      w \in asked ~> \/ called[w] = 1 \/ Stuck
                     \/ \E s \in Sessions : sess[s].state = "inactive" /\ w \in sess[s].queue
=============================================================================
