------------------------------- MODULE Sessions -------------------------------
(***************************************************************************)
(* Browser sessions (pepeaudio-auth over Valkey) and the requests of the   *)
(* HTTP API that rest on them (pepeaudio-api): OAuth login with one-time   *)
(* states, one current session per user, logout, API calls, and event      *)
(* streams that are re-authorized while they are open.                     *)
(*                                                                         *)
(* Every Valkey script is one step; between two commands of a request      *)
(* anything may happen.  Time is counted down: a key with no time left is  *)
(* gone.  Tokens are random and therefore never repeat: a session, a state *)
(* and its cookie are numbers.  Discord answers what it likes.             *)
(***************************************************************************)
EXTENDS Integers, FiniteSets

CONSTANTS
  Users, Nobody,
  Requests,     \* slots for concurrent HTTP requests
  Callbacks,    \* slots for concurrent OAuth callbacks
  MaxLogins,    \* bound on the login attempts
  MaxSessions,  \* bound on the sessions created
  Capacity,     \* MAX_PENDING_OAUTH_STATES
  StateTtl, IdleTtl, AbsoluteTtl,
  CheckEvery,   \* AUTHORIZATION_CHECK_INTERVAL
  Lifetime,     \* MAXIMUM_STREAM_LIFETIME
  GlobalLimit, UserLimit  \* MAX_SSE_CONNECTIONS, MAX_SSE_CONNECTIONS_PER_USER

VARIABLES
  states,    \* per OAuth state: begun or not, and the time its key has left
  callbacks, \* per callback task, where complete_callback stands
  sessions,  \* per session, its user, its state and the time its key has left
  pointer,   \* user-current-session: per user a session, 0 for none
  requests,  \* per request, where its handler or its stream stands
  admission, \* SseAdmission: the streams admitted, in all and per user
  shutdown   \* ApiShutdown

vars == <<states, callbacks, sessions, pointer, requests, admission, shutdown>>

States     == 1..MaxLogins
SessionIds == 1..MaxSessions

NoSession == [user |-> Nobody, state |-> 0, idle |-> 0, life |-> 0]
FreeSlot  == [pc |-> "free", kind |-> "call", session |-> 0, stale |-> FALSE,
              check |-> 0, life |-> 0, overdue |-> 0]
IdleTask  == [pc |-> "idle", state |-> 0, user |-> Nobody]

Least(a, b) == IF a < b THEN a ELSE b

Created    == {s \in SessionIds : sessions[s].user # Nobody}
Present(s) == sessions[s].idle > 0

\* The pointer's key lives as long as its session may at most.
PointsTo(s) == sessions[s].life > 0 /\ pointer[sessions[s].user] = s

\* What LOAD_AND_REFRESH_SESSION accepts.
Valid(s) == Present(s) /\ PointsTo(s)

Streaming == {r \in Requests : requests[r].pc \in {"opening", "open", "recheck"}}

TypeOK ==
  /\ states \in [States -> [begun : BOOLEAN, left : 0..StateTtl]]
  /\ callbacks \in [Callbacks -> [pc : {"idle", "exchange", "create"},
                                  state : States \cup {0}, user : Users \cup {Nobody}]]
  /\ sessions \in [SessionIds -> [user : Users \cup {Nobody}, state : States \cup {0},
                                  idle : 0..IdleTtl, life : 0..AbsoluteTtl]]
  /\ pointer \in [Users -> SessionIds \cup {0}]
  /\ requests \in [Requests ->
       [pc : {"free", "peek", "refresh", "confirm", "bind", "authorize", "granted", "opening",
              "open", "recheck", "leave", "unpoint", "destroy", "loggedout"},
        kind : {"call", "stream", "logout"}, session : SessionIds \cup {0}, stale : BOOLEAN,
        check : 0..CheckEvery, life : 0..Lifetime, overdue : Nat]]
  /\ admission.active \in 0..GlobalLimit
  /\ admission.users \in [Users -> 0..UserLimit]
  /\ shutdown \in BOOLEAN

-----------------------------------------------------------------------------
(* Login.                                                                  *)

Pending == {st \in States : states[st].left > 0}

\* begin_login, RESERVE_STATE: refused with CapacityExceeded when full.
Login(st) ==
  /\ ~states[st].begun /\ \A e \in 1..(st - 1) : states[e].begun
  /\ states' = [states EXCEPT ![st] =
       [begun |-> TRUE, left |-> IF Cardinality(Pending) < Capacity THEN StateTtl ELSE 0]]
  /\ UNCHANGED <<callbacks, sessions, pointer, requests, admission, shutdown>>

\* complete_callback up to CONSUME_STATE; consume_denied_callback ends there.
Consume(c, st) ==
  /\ callbacks[c].pc = "idle" /\ states[st].begun
  /\ states' = [states EXCEPT ![st].left = 0]
  /\ \E denied \in BOOLEAN :
       callbacks' = IF ~denied /\ st \in Pending
                    THEN [callbacks EXCEPT ![c] = [IdleTask EXCEPT !.pc = "exchange", !.state = st]]
                    ELSE callbacks
  /\ UNCHANGED <<sessions, pointer, requests, admission, shutdown>>

\* Discord exchanges the code for a user, or refuses it.
Exchange(c) ==
  /\ callbacks[c].pc = "exchange"
  /\ \/ \E u \in Users : callbacks' = [callbacks EXCEPT ![c].pc = "create", ![c].user = u]
     \/ callbacks' = [callbacks EXCEPT ![c] = IdleTask]
  /\ UNCHANGED <<states, sessions, pointer, requests, admission, shutdown>>

\* CREATE_SESSION: the user's previous session is deleted with its pointer.
Create(c, s) ==
  LET u == callbacks[c].user
      previous == pointer[u]
  IN /\ callbacks[c].pc = "create"
     /\ s \notin Created /\ 1..(s - 1) \subseteq Created
     /\ sessions' = [t \in SessionIds |->
          IF t = s THEN [user |-> u, state |-> callbacks[c].state,
                         idle |-> Least(IdleTtl, AbsoluteTtl), life |-> AbsoluteTtl]
          ELSE IF t = previous THEN [sessions[t] EXCEPT !.idle = 0] ELSE sessions[t]]
     /\ pointer' = [pointer EXCEPT ![u] = s]
     /\ callbacks' = [callbacks EXCEPT ![c] = IdleTask]
     /\ UNCHANGED <<states, requests, admission, shutdown>>

-----------------------------------------------------------------------------
(* A request with a session cookie: the Principal extractor loads the      *)
(* session, the handler authorizes it for the guild.                       *)

Goto(r, pc) == requests' = [requests EXCEPT ![r].pc = pc]

\* Leaves the slot; the SseLease is dropped with the stream.
Leave(r) ==
  LET u == sessions[requests[r].session].user
  IN /\ requests' = [requests EXCEPT ![r] = FreeSlot]
     /\ admission' = IF r \notin Streaming THEN admission
                     ELSE [active |-> admission.active - 1,
                           users |-> [admission.users EXCEPT ![u] = @ - 1]]

Begin(r, s, kind) ==
  /\ requests[r].pc = "free" /\ ~shutdown /\ s \in Created
  /\ requests' = [requests EXCEPT ![r] =
       [FreeSlot EXCEPT !.pc = "peek", !.kind = kind, !.session = s, !.stale = ~Valid(s)]]
  /\ UNCHANGED <<states, callbacks, sessions, pointer, admission, shutdown>>

\* peek_by_hash, first of load and then of load_bound.
Peek(r) ==
  /\ requests[r].pc \in {"peek", "bind"}
  /\ IF Present(requests[r].session)
     THEN /\ Goto(r, IF requests[r].pc = "peek" THEN "refresh" ELSE "authorize")
          /\ UNCHANGED admission
     ELSE Leave(r)
  /\ UNCHANGED <<states, callbacks, sessions, pointer, shutdown>>

Extended(s) == [sessions EXCEPT ![s].idle = Least(IdleTtl, sessions[s].life)]

\* A read-modify-write of the session that was peeked.
RefreshUnchecked(r, accept) ==
  /\ sessions' = Extended(requests[r].session)
  /\ accept

\* LOAD_AND_REFRESH_SESSION.
Refresh(r, accept) ==
  IF Valid(requests[r].session)
  THEN sessions' = Extended(requests[r].session) /\ accept
  ELSE Leave(r) /\ UNCHANGED sessions

Load(r) ==
  /\ requests[r].pc = "refresh"
  /\ Refresh(r, Goto(r, "confirm") /\ UNCHANGED admission)
  /\ UNCHANGED <<states, callbacks, pointer, shutdown>>

\* load reads the pointer again after the script; logout then checks CSRF.
Confirm(r) ==
  /\ requests[r].pc = "confirm"
  /\ IF ~PointsTo(requests[r].session) THEN Leave(r)
     ELSE IF requests[r].kind = "logout"
          THEN Leave(r) \/ (Goto(r, "leave") /\ UNCHANGED admission)
          ELSE Goto(r, "bind") /\ UNCHANGED admission
  /\ UNCHANGED <<states, callbacks, sessions, pointer, shutdown>>

\* authorize: load_bound, guild membership and the bot's presence.
Authorize(r) ==
  /\ requests[r].pc = "authorize"
  /\ \/ Refresh(r, Goto(r, "granted") /\ UNCHANGED admission)
     \/ Leave(r) /\ UNCHANGED sessions
  /\ UNCHANGED <<states, callbacks, pointer, shutdown>>

Serve(r) ==
  /\ requests[r].pc = "granted" /\ requests[r].kind = "call"
  /\ Leave(r)
  /\ UNCHANGED <<states, callbacks, sessions, pointer, shutdown>>

\* SseAdmission::acquire.
Admit(r) ==
  LET u == sessions[requests[r].session].user
  IN /\ requests[r].pc = "granted" /\ requests[r].kind = "stream"
     /\ IF admission.active < GlobalLimit /\ admission.users[u] < UserLimit
        THEN /\ Goto(r, "opening")
             /\ admission' = [active |-> admission.active + 1,
                              users |-> [admission.users EXCEPT ![u] = @ + 1]]
        ELSE Leave(r)
     /\ UNCHANGED <<states, callbacks, sessions, pointer, shutdown>>

\* subscribe and snapshot; either may fail, and the lease goes with the error.
Open(r) ==
  /\ requests[r].pc = "opening"
  /\ \/ /\ requests' = [requests EXCEPT ![r].pc = "open", ![r].check = CheckEvery,
                                        ![r].life = Lifetime]
        /\ UNCHANGED admission
     \/ Leave(r)
  /\ UNCHANGED <<states, callbacks, sessions, pointer, shutdown>>

CheckDue(r) ==
  /\ requests[r].pc = "open" /\ requests[r].check = 0
  /\ Goto(r, "recheck")
  /\ UNCHANGED <<states, callbacks, sessions, pointer, admission, shutdown>>

\* authorization_guarded_stream: any refusal or failure ends the stream.
Recheck(r) ==
  /\ requests[r].pc = "recheck"
  /\ \/ Refresh(r, /\ requests' = [requests EXCEPT ![r].pc = "open", ![r].check = CheckEvery]
                   /\ UNCHANGED admission)
     \/ Leave(r) /\ UNCHANGED sessions
  /\ UNCHANGED <<states, callbacks, pointer, shutdown>>

\* The deadline, the shutdown signal, or the browser goes away.
Close(r) ==
  /\ requests[r].pc \in {"opening", "open", "recheck"}
  /\ Leave(r)
  /\ UNCHANGED <<states, callbacks, sessions, pointer, shutdown>>

-----------------------------------------------------------------------------
(* Logout: destroy peeks, reads the pointer and runs DESTROY_SESSION.      *)

Unload(r) ==
  /\ requests[r].pc = "leave"
  /\ Goto(r, IF Present(requests[r].session) THEN "unpoint" ELSE "loggedout")
  /\ UNCHANGED <<states, callbacks, sessions, pointer, admission, shutdown>>

ReadPointer(r) ==
  /\ requests[r].pc = "unpoint"
  /\ Goto(r, IF PointsTo(requests[r].session) THEN "destroy" ELSE "loggedout")
  /\ UNCHANGED <<states, callbacks, sessions, pointer, admission, shutdown>>

\* The session, and the pointer if it is still this session's.
Destroy(r) ==
  LET s == requests[r].session
  IN /\ requests[r].pc = "destroy"
     /\ sessions' = [sessions EXCEPT ![s].idle = 0]
     /\ pointer' = IF PointsTo(s) THEN [pointer EXCEPT ![sessions[s].user] = 0] ELSE pointer
     /\ Goto(r, "loggedout")
     /\ UNCHANGED <<states, callbacks, admission, shutdown>>

LoggedOut(r) ==
  /\ requests[r].pc = "loggedout"
  /\ Leave(r)
  /\ UNCHANGED <<states, callbacks, sessions, pointer, shutdown>>

-----------------------------------------------------------------------------
Shutdown ==
  /\ ~shutdown /\ shutdown' = TRUE
  /\ UNCHANGED <<states, callbacks, sessions, pointer, requests, admission>>

\* A timer of a stream that is due fires before the next minute passes.
TimersDue == \E r \in Requests : \/ requests[r].pc = "recheck"
                                 \/ requests[r].pc = "open" /\ 0 \in {requests[r].check, requests[r].life}

Down(n) == IF n = 0 THEN 0 ELSE n - 1

Tick ==
  /\ ~TimersDue
  /\ states' = [st \in States |-> [states[st] EXCEPT !.left = Down(@)]]
  /\ sessions' = [s \in SessionIds |-> [sessions[s] EXCEPT !.idle = Down(@), !.life = Down(@)]]
  /\ requests' = [r \in Requests |->
       IF requests[r].pc # "open" THEN requests[r]
       ELSE [requests[r] EXCEPT !.check = Down(@), !.life = Down(@),
                                !.overdue = IF Valid(requests[r].session) THEN 0 ELSE @ + 1]]
  /\ UNCHANGED <<callbacks, pointer, admission, shutdown>>

Init ==
  /\ states = [st \in States |-> [begun |-> FALSE, left |-> 0]]
  /\ callbacks = [c \in Callbacks |-> IdleTask]
  /\ sessions = [s \in SessionIds |-> NoSession]
  /\ pointer = [u \in Users |-> 0]
  /\ requests = [r \in Requests |-> FreeSlot]
  /\ admission = [active |-> 0, users |-> [u \in Users |-> 0]]
  /\ shutdown = FALSE

Request(r) == \/ Peek(r) \/ Load(r) \/ Confirm(r) \/ Authorize(r) \/ Serve(r) \/ Admit(r)
              \/ Open(r) \/ CheckDue(r) \/ Recheck(r)
              \/ Unload(r) \/ ReadPointer(r) \/ Destroy(r) \/ LoggedOut(r)

Next ==
  \/ \E st \in States : Login(st) \/ \E c \in Callbacks : Consume(c, st)
  \/ \E c \in Callbacks : Exchange(c) \/ \E s \in SessionIds : Create(c, s)
  \/ \E r \in Requests : \/ Request(r) \/ Close(r)
                         \/ \E s \in SessionIds, k \in {"call", "stream", "logout"} : Begin(r, s, k)
  \/ Shutdown \/ Tick

Spec == Init /\ [][Next]_vars

-----------------------------------------------------------------------------
\* Revocation holds from the next request on: a request that begins after its
\* session was replaced, logged out or left idle too long is not authorized,
\* whatever its other commands meet; a logout that was answered has revoked its
\* session; a stream outlives its session by one check at most
\* (SessionGuildAuthorizer's promise for requests and open streams).
RevokedIsRefused ==
  \A r \in Requests :
    /\ requests[r].pc \in {"granted", "opening", "open"} => ~requests[r].stale
    /\ requests[r].pc = "loggedout" => ~Valid(requests[r].session)
    /\ requests[r].overdue <= CheckEvery

\* A session ends only by its own logout, a login of its user, or the clock:
\* the logout of a session that was replaced meanwhile leaves the new one alone.
LogoutEndsOwnSession ==
  [][\A u \in Users : pointer[u] # 0 /\ pointer'[u] = 0 =>
       \E r \in Requests : requests[r].pc = "destroy" /\ requests[r].session = pointer[u]]_vars

\* One login is one session: however often and concurrently a callback with the
\* same state arrives, at most one of them gets a session.
StateUsedOnce ==
  \A s, t \in Created : sessions[s].state = sessions[t].state => s = t

\* The admission counters are the streams that are open or being opened.
LeasesCounted ==
  /\ admission.active = Cardinality(Streaming)
  /\ \A u \in Users : admission.users[u] =
       Cardinality({r \in Streaming : sessions[requests[r].session].user = u})

=============================================================================
