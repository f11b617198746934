--------------------------- MODULE ClientRegistry ---------------------------
(***************************************************************************)
(* CNostrClient's own state: whether it is initialized, its dispatcher,    *)
(* the map from relay URLs to sessions, and the sessions' sockets and      *)
(* receive threads, from ConnectRelay to DisconnectRelay or FinalRelease.  *)
(*                                                                         *)
(* stateLock_ guards the map, and nothing else: a call looks its session   *)
(* up under the lock and then works on it without.  A session is numbered  *)
(* by the connection it was made for.  What the receive thread does with   *)
(* messages, and how a socket is taken down, are the modules               *)
(* RelaySubscriptions, RelayRequests and RelayLink.                        *)
(***************************************************************************)
EXTENDS Naturals, FiniteSets

CONSTANTS
  Users,      \* threads that call the client: the application's, the dispatcher's
  Urls,       \* normalized relay URLs
  Careful,    \* a relay is disconnected only when no other call is using it
  MaxSessions \* bound: sockets connected

ASSUME RegistryAssumption ==
  /\ IsFiniteSet(Users) /\ Urls # {}
  /\ Careful \in BOOLEAN /\ MaxSessions \in Nat

VARIABLES
  client,        \* "new", "ready" (initialized_), "disposing" (disposed_), "released"
  dispatchers,   \* number of dispatcher threads that run
  registry,      \* relaySessions_: the session of a URL, 0 when there is none
  sessions,      \* number of sockets that were connected
  socket,        \* for each session: "none", "open", "closed" or "released"
  stopRequested, \* for each session: its stopRequested
  thread,        \* for each session: "none", "running", "ended" or "joined"
  state,         \* for each session: its state
  releasing,     \* sessions FinalRelease has yet to stop
  call,          \* for each user, where its call is
  url,           \* the relay it is about
  mine           \* the session it works on, 0 before there is one

sessionVars == <<sessions, socket, stopRequested, thread, state>>
userVars == <<call, url, mine>>
vars == <<client, dispatchers, registry, sessionVars, releasing, userVars>>
-----------------------------------------------------------------------------
Sessions == 1..MaxSessions
Calls == {"idle", "initialize", "connect", "insert", "abort", "start", "spawn",
          "stop", "join", "reset", "release", "check", "send"}

Init ==
  /\ client = "new" /\ dispatchers = 0
  /\ registry = [r \in Urls |-> 0]
  /\ sessions = 0
  /\ socket = [n \in Sessions |-> "none"]
  /\ stopRequested = [n \in Sessions |-> FALSE]
  /\ thread = [n \in Sessions |-> "none"]
  /\ state = [n \in Sessions |-> "Disconnected"]
  /\ releasing = {}
  /\ call = [u \in Users |-> "idle"]
  /\ url = [u \in Users |-> CHOOSE r \in Urls : TRUE]
  /\ mine = [u \in Users |-> 0]

Goto(u, place) == call' = [call EXCEPT ![u] = place]
Return(u) == Goto(u, "idle") /\ mine' = [mine EXCEPT ![u] = 0]
-----------------------------------------------------------------------------
(***************************************************************************)
(* Initialize starts a dispatcher before it looks at initialized_, and     *)
(* stops it again when it comes too late.                                  *)
(***************************************************************************)
BeginInitialize(u) ==
  /\ client \in {"new", "ready"} /\ call[u] = "idle"
  /\ dispatchers' = dispatchers + 1
  /\ Goto(u, "initialize")
  /\ UNCHANGED <<client, registry, sessionVars, releasing, url, mine>>

MutantWithoutLate == dispatchers
WithoutLate == dispatchers - 1

Initialize(u) ==
  /\ call[u] = "initialize"
  /\ IF client = "new" THEN client' = "ready" /\ UNCHANGED dispatchers
                       ELSE dispatchers' = WithoutLate /\ UNCHANGED client
  /\ Return(u)
  /\ UNCHANGED <<registry, sessionVars, releasing, url>>
-----------------------------------------------------------------------------
(***************************************************************************)
(* ConnectRelay: the map is looked at before the relay is fetched and      *)
(* connected to, and again when the session is put into it.                *)
(***************************************************************************)
BeginConnect(u, r) ==
  /\ client = "ready" /\ call[u] = "idle" /\ registry[r] = 0
  /\ url' = [url EXCEPT ![u] = r]
  /\ Goto(u, "connect")
  /\ UNCHANGED <<client, dispatchers, registry, sessionVars, releasing, mine>>

Connect(u) ==
  /\ call[u] = "connect"
  /\ \/ /\ sessions < MaxSessions
        /\ sessions' = sessions + 1
        /\ socket' = [socket EXCEPT ![sessions'] = "open"]
        /\ state' = [state EXCEPT ![sessions'] = "Connected"]
        /\ mine' = [mine EXCEPT ![u] = sessions']
        /\ Goto(u, "insert")
     \/ Return(u) /\ UNCHANGED <<sessions, socket, state>>
  /\ UNCHANGED <<client, dispatchers, registry, stopRequested, thread, releasing, url>>

MutantMayInsert(r) == TRUE
MayInsert(r) == registry[r] = 0

Insert(u) ==
  /\ call[u] = "insert"
  /\ IF MayInsert(url[u])
       THEN registry' = [registry EXCEPT ![url[u]] = mine[u]] /\ Goto(u, "start")
       ELSE Goto(u, "abort") /\ UNCHANGED registry
  /\ UNCHANGED <<client, dispatchers, sessionVars, releasing, url, mine>>

\* Another connection was first: the socket is aborted and, with the session,
\* destroyed.
AbortConnect(u) ==
  /\ call[u] = "abort"
  /\ socket' = [socket EXCEPT ![mine[u]] = "released"]
  /\ Return(u)
  /\ UNCHANGED <<client, dispatchers, registry, sessions, stopRequested, thread, state,
                 releasing, url>>

\* StartReceiveLoop, after the lock was left.
ClearStop(u) ==
  /\ call[u] = "start"
  /\ stopRequested' = [stopRequested EXCEPT ![mine[u]] = FALSE]
  /\ Goto(u, "spawn")
  /\ UNCHANGED <<client, dispatchers, registry, sessions, socket, thread, state, releasing,
                 url, mine>>

SpawnThread(u) ==
  /\ call[u] = "spawn"
  /\ thread' = [thread EXCEPT ![mine[u]] = "running"]
  /\ Return(u)
  /\ UNCHANGED <<client, dispatchers, registry, sessions, socket, stopRequested, state,
                 releasing, url>>

\* RunReceiveLoop ends when it is told to, when there is no socket, or when
\* Receive fails, which faults a session that is not being stopped.
ReceiveLoopEnds(n) ==
  /\ thread[n] = "running"
  /\ thread' = [thread EXCEPT ![n] = "ended"]
  /\ stopRequested' = [stopRequested EXCEPT ![n] = TRUE]
  /\ state' = [state EXCEPT ![n] =
                 IF stopRequested[n] \/ socket[n] = "released" THEN @ ELSE "Faulted"]
  /\ UNCHANGED <<client, dispatchers, registry, sessions, socket, releasing, userVars>>
-----------------------------------------------------------------------------
(***************************************************************************)
(* DisconnectRelay takes the session out of the map and stops it.          *)
(***************************************************************************)
Using(n) == \E v \in Users : call[v] # "idle" /\ mine[v] = n

Without(r) == [registry EXCEPT ![r] = 0]

BeginDisconnect(u, r) ==
  /\ client = "ready" /\ call[u] = "idle" /\ registry[r] # 0
  /\ Careful => ~Using(registry[r])
  /\ registry' = Without(r)
  /\ url' = [url EXCEPT ![u] = r]
  /\ mine' = [mine EXCEPT ![u] = registry[r]]
  /\ Goto(u, "stop")
  /\ UNCHANGED <<client, dispatchers, sessionVars, releasing>>

\* StopReceiveLoop: ask the thread to stop, close its socket ...
RequestStop(u) ==
  /\ call[u] = "stop"
  /\ stopRequested' = [stopRequested EXCEPT ![mine[u]] = TRUE]
  /\ socket' = [socket EXCEPT ![mine[u]] = "closed"]
  /\ Goto(u, "join")
  /\ UNCHANGED <<client, dispatchers, registry, sessions, thread, state, releasing, url, mine>>

\* ... and join it, if there is one; ...
Joined(n) == thread[n] \in {"none", "ended"}

JoinThread(u) ==
  /\ call[u] = "join" /\ Joined(mine[u])
  /\ thread' = [thread EXCEPT ![mine[u]] = IF @ = "none" THEN @ ELSE "joined"]
  /\ state' = [state EXCEPT ![mine[u]] = "Disconnected"]
  /\ Goto(u, "reset")
  /\ UNCHANGED <<client, dispatchers, registry, sessions, socket, stopRequested, releasing,
                 url, mine>>

\* ... then the socket is destroyed.  FinalRelease goes on with the next session.
ResetSocket(u) ==
  /\ call[u] = "reset"
  /\ socket' = [socket EXCEPT ![mine[u]] = "released"]
  /\ IF client = "disposing" THEN Goto(u, "release") /\ mine' = [mine EXCEPT ![u] = 0]
                             ELSE Return(u)
  /\ UNCHANGED <<client, dispatchers, registry, sessions, stopRequested, thread, state,
                 releasing, url>>
-----------------------------------------------------------------------------
(***************************************************************************)
(* PublishEvent, RespondAuth, OpenSubscription, UpdateFilters and Close    *)
(* find their session, look whether it has a socket, and later send.       *)
(***************************************************************************)
BeginUse(u, r) ==
  /\ client = "ready" /\ call[u] = "idle" /\ registry[r] # 0
  /\ mine' = [mine EXCEPT ![u] = registry[r]]
  /\ url' = [url EXCEPT ![u] = r]
  /\ Goto(u, "check")
  /\ UNCHANGED <<client, dispatchers, registry, sessionVars, releasing>>

CheckSocket(u) ==
  /\ call[u] = "check"
  /\ IF socket[mine[u]] = "released" THEN Return(u) ELSE Goto(u, "send") /\ UNCHANGED mine
  /\ UNCHANGED <<client, dispatchers, registry, sessionVars, releasing, url>>

Send(u) ==
  /\ call[u] = "send"
  /\ Return(u)
  /\ UNCHANGED <<client, dispatchers, registry, sessionVars, releasing, url>>
-----------------------------------------------------------------------------
(***************************************************************************)
(* FinalRelease: the last reference is gone, so no other call is under     *)
(* way (and the checks of disposed_ in the other calls never fire).  All   *)
(* sessions are stopped, then the dispatcher.                              *)
(***************************************************************************)
BeginFinalRelease(u) ==
  /\ client \in {"new", "ready"} /\ \A v \in Users : call[v] = "idle"
  /\ client' = "disposing"
  /\ releasing' = {registry[r] : r \in Urls} \ {0}
  /\ registry' = [r \in Urls |-> 0]
  /\ Goto(u, "release")
  /\ UNCHANGED <<dispatchers, sessionVars, url, mine>>

ReleaseSession(u) ==
  /\ call[u] = "release"
  /\ \E n \in releasing :
       /\ releasing' = releasing \ {n}
       /\ mine' = [mine EXCEPT ![u] = n]
  /\ Goto(u, "stop")
  /\ UNCHANGED <<client, dispatchers, registry, sessionVars, url>>

MutantSessionsReleased == TRUE
SessionsReleased == releasing = {}

\* Only a dispatcher that Initialize has left is shut down.
MutantAfterShutdown == dispatchers - 1
AfterShutdown == IF dispatchers = 0 THEN 0 ELSE dispatchers - 1

ShutdownDispatcher(u) ==
  /\ call[u] = "release" /\ SessionsReleased
  /\ client' = "released"
  /\ dispatchers' = AfterShutdown
  /\ Return(u)
  /\ UNCHANGED <<registry, sessionVars, releasing, url>>
-----------------------------------------------------------------------------
Begin(u) ==
  \/ BeginInitialize(u) \/ BeginFinalRelease(u)
  \/ \E r \in Urls : BeginConnect(u, r) \/ BeginDisconnect(u, r) \/ BeginUse(u, r)

Continue(u) ==
  \/ Initialize(u)
  \/ Connect(u) \/ Insert(u) \/ AbortConnect(u) \/ ClearStop(u) \/ SpawnThread(u)
  \/ RequestStop(u) \/ JoinThread(u) \/ ResetSocket(u)
  \/ CheckSocket(u) \/ Send(u)
  \/ ReleaseSession(u) \/ ShutdownDispatcher(u)

Released == client = "released" /\ UNCHANGED vars

Next ==
  \/ \E u \in Users : Begin(u) \/ Continue(u)
  \/ \E n \in Sessions : ReceiveLoopEnds(n)
  \/ Released

Spec == Init /\ [][Next]_vars
-----------------------------------------------------------------------------
TypeOK ==
  /\ client \in {"new", "ready", "disposing", "released"}
  /\ dispatchers \in Nat /\ sessions \in 0..MaxSessions
  /\ registry \in [Urls -> 0..MaxSessions]
  /\ socket \in [Sessions -> {"none", "open", "closed", "released"}]
  /\ stopRequested \in [Sessions -> BOOLEAN]
  /\ thread \in [Sessions -> {"none", "running", "ended", "joined"}]
  /\ state \in [Sessions -> {"Disconnected", "Connected", "Faulted"}]
  /\ releasing \subseteq Sessions
  /\ call \in [Users -> Calls] /\ url \in [Users -> Urls]
  /\ mine \in [Users -> 0..MaxSessions]

\* Nothing will touch the session any more.
Forgotten(n) ==
  n <= sessions /\ ~Using(n) /\ n \notin releasing /\ \A r \in Urls : registry[r] # n

(***************************************************************************)
(* A session that is neither registered nor in the hands of a call has     *)
(* been taken down: its thread was joined (the destructor of a thread that *)
(* was not terminates the process) and its socket is gone.                 *)
(***************************************************************************)
ForgottenIsDown ==
  \A n \in Sessions : Forgotten(n) => thread[n] \in {"none", "joined"} /\ socket[n] = "released"

(***************************************************************************)
(* A receive thread receives on its session's socket and posts to the      *)
(* dispatcher through a plain pointer: while it runs, both exist.  A call  *)
(* that has found its session connected still has a socket when it sends.  *)
(***************************************************************************)
ThreadsAreServed ==
  /\ \A n \in Sessions : thread[n] = "running" => socket[n] # "released" /\ dispatchers > 0
  /\ \A u \in Users : call[u] = "send" => socket[mine[u]] # "released"

(***************************************************************************)
(* However many threads call Initialize, one dispatcher stays when they    *)
(* have returned, and it is gone when the client is.                       *)
(***************************************************************************)
OneDispatcher ==
  (\A u \in Users : call[u] = "idle") => dispatchers = IF client = "ready" THEN 1 ELSE 0

\* When FinalRelease has returned, every receive thread has stopped.
ReleaseStopsThreads == client = "released" => \A n \in Sessions : thread[n] # "running"
=============================================================================
