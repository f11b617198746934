------------------------ MODULE ClientRegistry_proofs ------------------------
(***************************************************************************)
(* Proofs about ClientRegistry, for any number of threads that call the    *)
(* client, of relays and of connections.                                   *)
(***************************************************************************)
EXTENDS ClientRegistry, FiniteSetTheorems, TLAPS

(***************************************************************************)
(* The life of the client, and the dispatchers Initialize has started and  *)
(* not yet kept or stopped.                                                *)
(***************************************************************************)
Lifecycle ==
  /\ client = "new" =>
       sessions = 0 /\ (\A u \in Users : call[u] \in {"idle", "initialize"})
  /\ client = "disposing" =>
       \E u \in Users : /\ call[u] \in {"release", "stop", "join", "reset"}
                        /\ \A v \in Users \ {u} : call[v] = "idle"
  /\ client = "released" => \A u \in Users : call[u] = "idle"
  /\ client \in {"disposing", "released"} => \A r \in Urls : registry[r] = 0
  /\ client # "disposing" => releasing = {} /\ \A u \in Users : call[u] # "release"

Initializing == {u \in Users : call[u] = "initialize"}

DispatchersCounted ==
  /\ client = "new" => dispatchers = Cardinality(Initializing)
  /\ client = "ready" => dispatchers = Cardinality(Initializing) + 1
  /\ client = "disposing" => dispatchers \in {0, 1} /\ (sessions > 0 => dispatchers = 1)
  /\ client = "released" => dispatchers = 0

CInv == TypeOK /\ Lifecycle /\ DispatchersCounted

(***************************************************************************)
(* Who has a session, when a relay is disconnected with care: calls that   *)
(* work on a registered session share it, the others have theirs alone.    *)
(***************************************************************************)
Attached == {"start", "spawn", "check", "send"}
Private  == {"insert", "abort", "stop", "join", "reset"}

CallsHoldSessions ==
  \A u \in Users :
    /\ mine[u] # 0 <=> call[u] \in Attached \union Private
    /\ mine[u] <= sessions
    /\ call[u] \in Attached => registry[url[u]] = mine[u]
    /\ call[u] \in Private =>
         /\ mine[u] \notin releasing /\ (\A r \in Urls : registry[r] # mine[u])
         /\ \A v \in Users \ {u} : mine[v] # mine[u]

RegisteredOnce ==
  /\ \A r \in Urls : registry[r] <= sessions
  /\ \A r, s \in Urls : registry[r] # 0 /\ registry[r] = registry[s] => r = s
  /\ \A n \in releasing : n <= sessions

(***************************************************************************)
(* What has become of a session's socket and thread by then.               *)
(***************************************************************************)
SocketsInStep ==
  /\ \A r \in Urls : registry[r] # 0 => socket[registry[r]] = "open"
  /\ \A n \in releasing : socket[n] = "open"
  /\ \A u \in Users :
       /\ call[u] \in {"insert", "abort", "stop"} => socket[mine[u]] = "open"
       /\ call[u] \in {"join", "reset"} => socket[mine[u]] = "closed"

ThreadsInStep ==
  /\ \A n \in Sessions : n > sessions => thread[n] = "none"
  /\ \A u \in Users :
       /\ call[u] \in {"insert", "abort"} => thread[mine[u]] = "none"
       /\ call[u] = "reset" => thread[mine[u]] \in {"none", "joined"}

SInv ==
  /\ CInv /\ CallsHoldSessions /\ RegisteredOnce /\ SocketsInStep /\ ThreadsInStep
  /\ ForgottenIsDown
-----------------------------------------------------------------------------
USE RegistryAssumption

LEMMA CountedInNat ==
  ASSUME CInv
  PROVE  /\ IsFiniteSet(Initializing) /\ Cardinality(Initializing) \in Nat
         /\ Initializing = {} <=> Cardinality(Initializing) = 0
<1>1. IsFiniteSet(Initializing)
  BY FS_Subset DEF Initializing
<1> QED
  BY <1>1, FS_CardinalityType, FS_EmptySet

\* TypeOK in three parts, which the steps are easier to prove for.
ClientTypes ==
  /\ client \in {"new", "ready", "disposing", "released"}
  /\ dispatchers \in Nat /\ registry \in [Urls -> 0..MaxSessions] /\ releasing \subseteq Sessions
SessionTypes ==
  /\ sessions \in 0..MaxSessions
  /\ socket \in [Sessions -> {"none", "open", "closed", "released"}]
  /\ stopRequested \in [Sessions -> BOOLEAN]
  /\ thread \in [Sessions -> {"none", "running", "ended", "joined"}]
  /\ state \in [Sessions -> {"Disconnected", "Connected", "Faulted"}]
UserTypes ==
  call \in [Users -> Calls] /\ url \in [Users -> Urls] /\ mine \in [Users -> 0..MaxSessions]

LEMMA TypeParts == TypeOK <=> ClientTypes /\ SessionTypes /\ UserTypes
BY Zenon DEF TypeOK, ClientTypes, SessionTypes, UserTypes

LEMMA ClientTypesStep == CInv /\ [Next]_vars => ClientTypes'
<1> SUFFICES ASSUME CInv, [Next]_vars PROVE ClientTypes'
  OBVIOUS
<1> USE DEF ClientTypes
<1>0. ClientTypes /\ mine \in [Users -> 0..MaxSessions]
  BY TypeParts DEF CInv, UserTypes
<1>1. ASSUME NEW u \in Users, BeginInitialize(u) PROVE ClientTypes'
  BY <1>0, <1>1 DEF BeginInitialize
<1>2. ASSUME NEW u \in Users, Initialize(u) PROVE ClientTypes'
  <2>1. u \in Initializing /\ client \in {"new", "ready"}
    BY <1>0, <1>2 DEF Initialize, Initializing, CInv, Lifecycle
  <2>2. dispatchers - 1 \in Nat
    BY <1>0, <2>1, CountedInNat DEF CInv, DispatchersCounted
  <2> QED BY <1>0, <1>2, <2>2 DEF Initialize, WithoutLate
<1>3. ASSUME NEW u \in Users, NEW r \in Urls, BeginDisconnect(u, r) PROVE ClientTypes'
  BY <1>0, <1>3 DEF BeginDisconnect, Without
<1>4. ASSUME NEW u \in Users, Insert(u) PROVE ClientTypes'
  BY <1>0, <1>4 DEF Insert
<1>5. ASSUME NEW u \in Users, BeginFinalRelease(u) PROVE ClientTypes'
  BY <1>0, <1>5 DEF BeginFinalRelease, Sessions
<1>6. ASSUME NEW u \in Users, ReleaseSession(u) \/ ShutdownDispatcher(u) PROVE ClientTypes'
  BY <1>0, <1>6 DEF ReleaseSession, ShutdownDispatcher, AfterShutdown
<1>7. ASSUME NEW u \in Users,
             \/ \E r \in Urls : BeginConnect(u, r) \/ BeginUse(u, r)
             \/ Connect(u) \/ AbortConnect(u) \/ ClearStop(u) \/ SpawnThread(u)
             \/ RequestStop(u) \/ JoinThread(u) \/ ResetSocket(u) \/ CheckSocket(u) \/ Send(u)
      PROVE  ClientTypes'
  BY <1>0, <1>7 DEF BeginConnect, BeginUse, Connect, AbortConnect, ClearStop, SpawnThread,
     RequestStop, JoinThread, ResetSocket, CheckSocket, Send
<1>8. CASE (\E n \in Sessions : ReceiveLoopEnds(n)) \/ UNCHANGED vars
  BY <1>0, <1>8 DEF ReceiveLoopEnds, vars
<1> QED
  BY <1>1, <1>2, <1>3, <1>4, <1>5, <1>6, <1>7, <1>8 DEF Next, Begin, Continue, Released

LEMMA SessionTypesStep == TypeOK /\ [Next]_vars => SessionTypes'
<1> SUFFICES ASSUME TypeOK, [Next]_vars PROVE SessionTypes'
  OBVIOUS
<1> USE DEF SessionTypes, sessionVars
<1>0. SessionTypes
  BY TypeParts
<1>1. ASSUME NEW u \in Users, Connect(u) PROVE SessionTypes'
  <2>1. socket' \in [Sessions -> {"none", "open", "closed", "released"}] /\ sessions' \in 0..MaxSessions
    BY <1>0, <1>1 DEF Connect
  <2>2. state' \in [Sessions -> {"Disconnected", "Connected", "Faulted"}]
    BY <1>0, <1>1 DEF Connect
  <2> QED BY <1>0, <1>1, <2>1, <2>2 DEF Connect
<1>2. ASSUME NEW u \in Users, AbortConnect(u) \/ ClearStop(u) \/ SpawnThread(u) PROVE SessionTypes'
  BY <1>0, <1>2 DEF AbortConnect, ClearStop, SpawnThread
<1>3. ASSUME NEW u \in Users, RequestStop(u) PROVE SessionTypes'
  BY <1>0, <1>3 DEF RequestStop
<1>4. ASSUME NEW u \in Users, JoinThread(u) PROVE SessionTypes'
  BY <1>0, <1>4 DEF JoinThread
<1>5. ASSUME NEW u \in Users, ResetSocket(u) PROVE SessionTypes'
  BY <1>0, <1>5 DEF ResetSocket
<1>6. ASSUME NEW n \in Sessions, ReceiveLoopEnds(n) PROVE SessionTypes'
  BY <1>0, <1>6 DEF ReceiveLoopEnds
<1>7. ASSUME UNCHANGED sessionVars PROVE SessionTypes'
  BY <1>0, <1>7
<1>8. ASSUME NEW u \in Users,
             \/ Begin(u) \/ Initialize(u) \/ Insert(u) \/ CheckSocket(u) \/ Send(u)
             \/ ReleaseSession(u) \/ ShutdownDispatcher(u)
      PROVE  SessionTypes'
  BY <1>7, <1>8 DEF Begin, BeginInitialize, BeginFinalRelease, BeginConnect, BeginDisconnect,
     BeginUse, Initialize, Insert, CheckSocket, Send, ReleaseSession, ShutdownDispatcher
<1>9. CASE UNCHANGED vars
  BY <1>7, <1>9 DEF vars
<1> QED
  BY <1>1, <1>2, <1>3, <1>4, <1>5, <1>6, <1>8, <1>9 DEF Next, Continue, Released

LEMMA UserTypesStep == TypeOK /\ [Next]_vars => UserTypes'
<1> SUFFICES ASSUME TypeOK, [Next]_vars PROVE UserTypes'
  OBVIOUS
<1> USE DEF UserTypes, Goto, Return, userVars
<1>0. UserTypes /\ ClientTypes /\ sessions \in 0..MaxSessions
  BY TypeParts DEF SessionTypes
<1>2. ASSUME NEW u \in Users, NEW r \in Urls,
             BeginConnect(u, r) \/ BeginDisconnect(u, r) \/ BeginUse(u, r)
      PROVE  UserTypes'
  BY <1>0, <1>2 DEF BeginConnect, BeginDisconnect, BeginUse, ClientTypes, Calls
<1>3. ASSUME NEW u \in Users, Connect(u) PROVE UserTypes'
  BY <1>0, <1>3 DEF Connect, Calls
<1>4. ASSUME NEW u \in Users, BeginInitialize(u) \/ Initialize(u) \/ BeginFinalRelease(u)
      PROVE  UserTypes'
  BY <1>0, <1>4 DEF BeginInitialize, Initialize, BeginFinalRelease, Calls
<1>5. ASSUME NEW u \in Users, Insert(u) \/ AbortConnect(u) \/ ClearStop(u) \/ SpawnThread(u)
      PROVE  UserTypes'
  BY <1>0, <1>5 DEF Insert, AbortConnect, ClearStop, SpawnThread, Calls
<1>6. ASSUME NEW u \in Users, RequestStop(u) \/ JoinThread(u) \/ ResetSocket(u) PROVE UserTypes'
  BY <1>0, <1>6 DEF RequestStop, JoinThread, ResetSocket, Calls
<1>7. ASSUME NEW u \in Users, CheckSocket(u) \/ Send(u) PROVE UserTypes'
  BY <1>0, <1>7 DEF CheckSocket, Send, Calls
<1>8. ASSUME NEW u \in Users, ReleaseSession(u) \/ ShutdownDispatcher(u) PROVE UserTypes'
  BY <1>0, <1>8 DEF ReleaseSession, ShutdownDispatcher, ClientTypes, Sessions, Calls
<1>9. CASE (\E n \in Sessions : ReceiveLoopEnds(n)) \/ UNCHANGED vars
  BY <1>0, <1>9 DEF ReceiveLoopEnds, vars
<1> QED
  BY <1>2, <1>3, <1>4, <1>5, <1>6, <1>7, <1>8, <1>9 DEF Next, Begin, Continue, Released

LEMMA TypeStep == CInv /\ [Next]_vars => TypeOK'
<1>1. ASSUME CInv, [Next]_vars PROVE (ClientTypes /\ SessionTypes /\ UserTypes)'
  BY <1>1, ClientTypesStep, SessionTypesStep, UserTypesStep DEF CInv
<1>2. (TypeOK <=> ClientTypes /\ SessionTypes /\ UserTypes)'
  BY Zenon DEF TypeOK, ClientTypes, SessionTypes, UserTypes
<1> QED BY <1>1, <1>2

LEMMA LifecycleStep == CInv /\ [Next]_vars => Lifecycle'
<1> SUFFICES ASSUME CInv, [Next]_vars PROVE Lifecycle'
  OBVIOUS
<1> USE DEF Lifecycle, Goto, Return, sessionVars, userVars
<1>0. TypeOK /\ Lifecycle
  BY DEF CInv
<1>1. ASSUME NEW u \in Users, BeginInitialize(u) \/ Initialize(u) PROVE Lifecycle'
  BY <1>0, <1>1 DEF BeginInitialize, Initialize, TypeOK
<1>2. ASSUME NEW u \in Users, NEW r \in Urls,
             BeginConnect(u, r) \/ BeginDisconnect(u, r) \/ BeginUse(u, r)
      PROVE  Lifecycle'
  BY <1>0, <1>2 DEF BeginConnect, BeginDisconnect, BeginUse, TypeOK
<1>3. ASSUME NEW u \in Users,
             \/ Connect(u) \/ Insert(u) \/ AbortConnect(u) \/ ClearStop(u) \/ SpawnThread(u)
             \/ CheckSocket(u) \/ Send(u)
      PROVE  Lifecycle'
  <2>1. client = "ready" /\ client' = client /\ releasing' = releasing
    <3>1. /\ call[u] \in {"connect", "insert", "abort", "start", "spawn", "check", "send"}
          /\ client' = client /\ releasing' = releasing
      BY <1>3 DEF Connect, Insert, AbortConnect, ClearStop, SpawnThread, CheckSocket, Send
    <3> QED BY <1>0, <3>1 DEF TypeOK
  <2>2. \E place \in Calls \ {"release"} : call' = [call EXCEPT ![u] = place]
    <3>1. CASE Connect(u) \/ CheckSocket(u) \/ Send(u)
      BY <3>1 DEF Connect, CheckSocket, Send, Calls
    <3>2. CASE Insert(u) \/ AbortConnect(u)
      BY <3>2 DEF Insert, AbortConnect, Calls
    <3>3. CASE ClearStop(u) \/ SpawnThread(u)
      BY <3>3 DEF ClearStop, SpawnThread, Calls
    <3> QED BY <1>3, <3>1, <3>2, <3>3
  <2>3. \A v \in Users : call'[v] # "release"
    BY <1>0, <2>1, <2>2 DEF TypeOK
  <2> QED BY <1>0, <2>1, <2>3
<1>4. ASSUME NEW u \in Users, RequestStop(u) \/ JoinThread(u) \/ ResetSocket(u) PROVE Lifecycle'
  BY <1>0, <1>4 DEF RequestStop, JoinThread, ResetSocket, TypeOK
<1>5. ASSUME NEW u \in Users, BeginFinalRelease(u) \/ ReleaseSession(u) \/ ShutdownDispatcher(u)
      PROVE  Lifecycle'
  BY <1>0, <1>5 DEF BeginFinalRelease, ReleaseSession, ShutdownDispatcher, SessionsReleased, TypeOK
<1>6. CASE (\E n \in Sessions : ReceiveLoopEnds(n)) \/ UNCHANGED vars
  BY <1>0, <1>6 DEF ReceiveLoopEnds, vars
<1> QED
  BY <1>1, <1>2, <1>3, <1>4, <1>5, <1>6 DEF Next, Begin, Continue, Released

LEMMA CountStep == CInv /\ [Next]_vars => DispatchersCounted'
<1> SUFFICES ASSUME CInv, [Next]_vars PROVE DispatchersCounted'
  OBVIOUS
<1> USE DEF DispatchersCounted, Goto, Return, sessionVars, userVars
<1>0. TypeOK /\ Lifecycle /\ DispatchersCounted
  BY DEF CInv
<1>1. IsFiniteSet(Initializing) /\ Cardinality(Initializing) \in Nat
  BY CountedInNat
<1>2. ASSUME NEW u \in Users, BeginInitialize(u) PROVE DispatchersCounted'
  <2>1. Initializing' = Initializing \union {u} /\ u \notin Initializing
    BY <1>0, <1>2 DEF BeginInitialize, Initializing, TypeOK
  <2>2. Cardinality(Initializing') = Cardinality(Initializing) + 1
    BY <1>1, <2>1, FS_AddElement
  <2> QED BY <1>0, <1>1, <1>2, <2>2 DEF BeginInitialize, TypeOK
<1>3. ASSUME NEW u \in Users, Initialize(u) PROVE DispatchersCounted'
  <2>1. Initializing' = Initializing \ {u} /\ u \in Initializing
    BY <1>0, <1>3 DEF Initialize, Initializing, TypeOK
  <2>2. Cardinality(Initializing') = Cardinality(Initializing) - 1
    BY <1>1, <2>1, FS_RemoveElement
  <2>3. client \in {"new", "ready"}
    BY <1>0, <1>3 DEF Initialize, Lifecycle, TypeOK
  <2> QED BY <1>0, <1>1, <1>3, <2>2, <2>3 DEF Initialize, WithoutLate, TypeOK
<1>4. ASSUME NEW u \in Users, BeginFinalRelease(u) PROVE DispatchersCounted'
  <2>1. Initializing = {}
    BY <1>4 DEF BeginFinalRelease, Initializing
  <2>2. Cardinality(Initializing) = 0
    BY <2>1, FS_EmptySet
  <2> QED BY <1>0, <1>4, <2>2 DEF BeginFinalRelease, Lifecycle
<1>5. ASSUME NEW u \in Users, ShutdownDispatcher(u) PROVE DispatchersCounted'
  <2>1. client = "disposing"
    BY <1>0, <1>5 DEF ShutdownDispatcher, Lifecycle
  <2> QED BY <1>0, <1>5, <2>1 DEF ShutdownDispatcher, AfterShutdown
<1>6. ASSUME UNCHANGED <<client, dispatchers>>, Initializing' = Initializing,
             sessions' = sessions \/ client # "disposing"
      PROVE  DispatchersCounted'
  BY <1>0, <1>6
<1>7. ASSUME NEW u \in Users, NEW r \in Urls,
             BeginConnect(u, r) \/ BeginDisconnect(u, r) \/ BeginUse(u, r)
      PROVE  DispatchersCounted'
  <2>1. Initializing' = Initializing
    BY <1>0, <1>7 DEF BeginConnect, BeginDisconnect, BeginUse, Initializing, TypeOK
  <2> QED BY <1>6, <1>7, <2>1 DEF BeginConnect, BeginDisconnect, BeginUse
<1>8. ASSUME NEW u \in Users, Connect(u) PROVE DispatchersCounted'
  <2>1. Initializing' = Initializing /\ client # "disposing"
    BY <1>0, <1>8 DEF Connect, Initializing, Lifecycle, TypeOK
  <2> QED BY <1>6, <1>8, <2>1 DEF Connect
<1>9. ASSUME NEW u \in Users,
             \/ Insert(u) \/ AbortConnect(u) \/ ClearStop(u) \/ SpawnThread(u)
             \/ RequestStop(u) \/ JoinThread(u) \/ ResetSocket(u) \/ CheckSocket(u) \/ Send(u)
             \/ ReleaseSession(u)
      PROVE  DispatchersCounted'
  <2>1. Initializing' = Initializing
    BY <1>0, <1>9 DEF Insert, AbortConnect, ClearStop, SpawnThread, RequestStop, JoinThread,
       ResetSocket, CheckSocket, Send, ReleaseSession, Initializing, TypeOK
  <2>2. UNCHANGED <<client, dispatchers, sessions>>
    BY <1>9 DEF Insert, AbortConnect, ClearStop, SpawnThread, RequestStop, JoinThread,
       ResetSocket, CheckSocket, Send, ReleaseSession
  <2> QED BY <1>6, <2>1, <2>2
<1>10. CASE (\E n \in Sessions : ReceiveLoopEnds(n)) \/ UNCHANGED vars
  BY <1>6, <1>10 DEF ReceiveLoopEnds, vars, Initializing
<1> QED
  BY <1>2, <1>3, <1>4, <1>5, <1>7, <1>8, <1>9, <1>10 DEF Next, Begin, Continue, Released

LEMMA CountInvariant == Spec => []CInv
<1>1. Init => TypeOK
  BY DEF Init, TypeOK, Sessions, Calls
<1>2. Init => Lifecycle /\ DispatchersCounted
  <2> SUFFICES ASSUME Init PROVE Lifecycle /\ DispatchersCounted
    OBVIOUS
  <2>1. Initializing = {}
    BY DEF Init, Initializing
  <2> QED BY <2>1, FS_EmptySet DEF Init, Lifecycle, DispatchersCounted
<1>3. CInv /\ [Next]_vars => CInv'
  BY TypeStep, LifecycleStep, CountStep DEF CInv
<1> QED
  BY <1>1, <1>2, <1>3, PTL DEF Spec, CInv

\* The variables of ClientRegistry keep their types.  The number of dispatchers
\* stays a natural number because only an Initialize that started one, and came
\* too late, takes one away.
THEOREM TypeCorrect == Spec => []TypeOK
<1>1. CInv => TypeOK
  BY DEF CInv
<1> QED
  BY <1>1, CountInvariant, PTL

(***************************************************************************)
(* However many threads call Initialize at once, and whatever the other    *)
(* calls do meanwhile, one dispatcher thread stays when they have          *)
(* returned, and none when the client has been released.                   *)
(***************************************************************************)
THEOREM OneDispatcherHolds == Spec => []OneDispatcher
<1>1. CInv => OneDispatcher
  <2> SUFFICES ASSUME CInv, \A u \in Users : call[u] = "idle"
               PROVE  dispatchers = IF client = "ready" THEN 1 ELSE 0
    BY DEF OneDispatcher
  <2>1. Initializing = {}
    BY DEF Initializing
  <2>2. Cardinality(Initializing) = 0
    BY <2>1, FS_EmptySet
  <2> QED BY <2>2 DEF CInv, TypeOK, Lifecycle, DispatchersCounted
<1> QED
  BY <1>1, CountInvariant, PTL
-----------------------------------------------------------------------------
LEMMA HoldStep ==
  ASSUME Careful = TRUE
  PROVE  SInv /\ [Next]_vars => CallsHoldSessions'
<1> SUFFICES ASSUME SInv, [Next]_vars PROVE CallsHoldSessions'
  OBVIOUS
<1> USE DEF CallsHoldSessions, Goto, Return, Attached, Private, sessionVars, userVars
<1>0. /\ CallsHoldSessions /\ RegisteredOnce /\ Lifecycle
      /\ client \in {"new", "ready", "disposing", "released"}
      /\ sessions \in Nat /\ registry \in [Urls -> Nat] /\ releasing \subseteq Sessions
      /\ call \in [Users -> Calls] /\ url \in [Users -> Urls] /\ mine \in [Users -> Nat]
  BY DEF SInv, CInv, TypeOK, Sessions
<1>1. ASSUME NEW u \in Users, BeginInitialize(u) \/ Initialize(u) PROVE CallsHoldSessions'
  BY <1>0, <1>1 DEF BeginInitialize, Initialize
<1>2. ASSUME NEW u \in Users, NEW r \in Urls, BeginConnect(u, r) PROVE CallsHoldSessions'
  BY <1>0, <1>2 DEF BeginConnect
<1>3. ASSUME NEW u \in Users, Connect(u) PROVE CallsHoldSessions'
  BY <1>0, <1>3 DEF Connect, RegisteredOnce
<1>4. ASSUME NEW u \in Users, Insert(u) PROVE CallsHoldSessions'
  BY <1>0, <1>4 DEF Insert, MayInsert
<1>5. ASSUME NEW u \in Users, AbortConnect(u) \/ ClearStop(u) \/ SpawnThread(u)
      PROVE  CallsHoldSessions'
  BY <1>0, <1>5 DEF AbortConnect, ClearStop, SpawnThread
<1>6. ASSUME NEW u \in Users, NEW r \in Urls, BeginDisconnect(u, r) PROVE CallsHoldSessions'
  BY <1>0, <1>6 DEF BeginDisconnect, Without, Using, RegisteredOnce, Lifecycle
<1>7. ASSUME NEW u \in Users, RequestStop(u) \/ JoinThread(u) \/ ResetSocket(u)
      PROVE  CallsHoldSessions'
  BY <1>0, <1>7 DEF RequestStop, JoinThread, ResetSocket
<1>8. ASSUME NEW u \in Users, NEW r \in Urls, BeginUse(u, r) PROVE CallsHoldSessions'
  BY <1>0, <1>8 DEF BeginUse, RegisteredOnce
<1>9. ASSUME NEW u \in Users, CheckSocket(u) \/ Send(u) PROVE CallsHoldSessions'
  BY <1>0, <1>9 DEF CheckSocket, Send
<1>10. ASSUME NEW u \in Users, BeginFinalRelease(u) PROVE CallsHoldSessions'
  BY <1>0, <1>10 DEF BeginFinalRelease
<1>11. ASSUME NEW u \in Users, ReleaseSession(u) PROVE CallsHoldSessions'
  <2>1. PICK n \in releasing : releasing' = releasing \ {n} /\ mine' = [mine EXCEPT ![u] = n]
    BY <1>11 DEF ReleaseSession
  <2>2. n \in Nat \ {0} /\ n <= sessions /\ \A v \in Users \ {u} : call[v] = "idle" /\ mine[v] = 0
    BY <1>0, <1>11 DEF ReleaseSession, Lifecycle, RegisteredOnce, Sessions
  <2>3. \A r \in Urls : registry[r] = 0
    BY <1>0, <1>11 DEF ReleaseSession, Lifecycle
  <2> QED BY <1>0, <1>11, <2>1, <2>2, <2>3 DEF ReleaseSession
<1>12. ASSUME NEW u \in Users, ShutdownDispatcher(u) PROVE CallsHoldSessions'
  BY <1>0, <1>12 DEF ShutdownDispatcher
<1>13. CASE (\E n \in Sessions : ReceiveLoopEnds(n)) \/ UNCHANGED vars
  BY <1>0, <1>13 DEF ReceiveLoopEnds, vars
<1> QED
  BY <1>1, <1>2, <1>3, <1>4, <1>5, <1>6, <1>7, <1>8, <1>9, <1>10, <1>11, <1>12, <1>13
     DEF Next, Begin, Continue, Released

LEMMA OnceStep == SInv /\ [Next]_vars => RegisteredOnce'
<1> SUFFICES ASSUME SInv, [Next]_vars PROVE RegisteredOnce'
  OBVIOUS
<1> USE DEF RegisteredOnce
<1>0. /\ CallsHoldSessions /\ RegisteredOnce /\ sessions \in Nat
      /\ registry \in [Urls -> Nat] /\ url \in [Users -> Urls] /\ mine \in [Users -> Nat]
  BY DEF SInv, CInv, TypeOK
<1>1. ASSUME NEW u \in Users, Insert(u) PROVE RegisteredOnce'
  BY <1>0, <1>1 DEF Insert, CallsHoldSessions, Private, sessionVars
<1>2. ASSUME NEW u \in Users, Connect(u) PROVE RegisteredOnce'
  BY <1>0, <1>2 DEF Connect, SInv, CInv, TypeOK, Sessions
<1>3. ASSUME NEW u \in Users, NEW r \in Urls, BeginDisconnect(u, r) PROVE RegisteredOnce'
  BY <1>0, <1>3 DEF BeginDisconnect, Without, sessionVars
<1>4. ASSUME NEW u \in Users, BeginFinalRelease(u) PROVE RegisteredOnce'
  BY <1>0, <1>4 DEF BeginFinalRelease, sessionVars
<1>5. ASSUME NEW u \in Users, ReleaseSession(u) PROVE RegisteredOnce'
  BY <1>0, <1>5 DEF ReleaseSession, sessionVars
<1>6. ASSUME UNCHANGED <<registry, sessions, releasing>> PROVE RegisteredOnce'
  BY <1>0, <1>6
<1>7. ASSUME NEW u \in Users,
             \/ BeginInitialize(u) \/ Initialize(u)
             \/ \E r \in Urls : BeginConnect(u, r) \/ BeginUse(u, r)
             \/ AbortConnect(u) \/ ClearStop(u) \/ SpawnThread(u) \/ RequestStop(u)
             \/ JoinThread(u) \/ ResetSocket(u) \/ CheckSocket(u) \/ Send(u)
             \/ ShutdownDispatcher(u)
      PROVE  RegisteredOnce'
  BY <1>6, <1>7 DEF BeginInitialize, Initialize, BeginConnect, BeginUse, AbortConnect, ClearStop,
     SpawnThread, RequestStop, JoinThread, ResetSocket, CheckSocket, Send, ShutdownDispatcher,
     sessionVars
<1>8. CASE (\E n \in Sessions : ReceiveLoopEnds(n)) \/ UNCHANGED vars
  BY <1>6, <1>8 DEF ReceiveLoopEnds, vars, sessionVars
<1> QED
  BY <1>1, <1>2, <1>3, <1>4, <1>5, <1>7, <1>8 DEF Next, Begin, Continue, Released

LEMMA SocketsStep ==
  ASSUME Careful = TRUE
  PROVE  SInv /\ [Next]_vars => SocketsInStep'
<1> SUFFICES ASSUME SInv, [Next]_vars PROVE SocketsInStep'
  OBVIOUS
<1> USE DEF SocketsInStep, Goto, Return, sessionVars, userVars
<1>0. /\ CallsHoldSessions /\ RegisteredOnce /\ Lifecycle /\ SocketsInStep
      /\ SessionTypes /\ ClientTypes /\ UserTypes
  BY TypeParts DEF SInv, CInv
<1>1. ASSUME NEW u \in Users,
             \/ BeginInitialize(u) \/ Initialize(u)
             \/ \E r \in Urls : BeginConnect(u, r) \/ BeginUse(u, r)
      PROVE  SocketsInStep'
  BY <1>0, <1>1 DEF BeginInitialize, Initialize, BeginConnect, BeginUse, UserTypes
<1>2. ASSUME NEW u \in Users, CheckSocket(u) \/ Send(u) \/ ClearStop(u) \/ SpawnThread(u)
      PROVE  SocketsInStep'
  BY <1>0, <1>2 DEF CheckSocket, Send, ClearStop, SpawnThread, UserTypes
<1>3. ASSUME NEW u \in Users, Connect(u) PROVE SocketsInStep'
  <2>1. CASE Return(u) /\ UNCHANGED sessionVars
    BY <1>0, <1>3, <2>1 DEF Connect, UserTypes
  <2>2. CASE sessions' = sessions + 1
    <3>1. /\ sessions' \in Sessions /\ registry' = registry /\ releasing' = releasing
          /\ socket' = [socket EXCEPT ![sessions'] = "open"]
          /\ mine' = [mine EXCEPT ![u] = sessions'] /\ call' = [call EXCEPT ![u] = "insert"]
      BY <1>0, <1>3, <2>2 DEF Connect, Sessions, SessionTypes
    <3>2. \A n \in 1..sessions : socket'[n] = socket[n]
      BY <1>0, <3>1, <2>2 DEF SessionTypes, Sessions
    <3>3. /\ \A r \in Urls : registry[r] # 0 => registry[r] \in 1..sessions
          /\ releasing \subseteq 1..sessions
          /\ \A v \in Users : call[v] \in Private => mine[v] \in 1..sessions
      BY <1>0 DEF RegisteredOnce, CallsHoldSessions, ClientTypes, UserTypes, SessionTypes, Sessions
    <3>4. socket'[sessions'] = "open"
      BY <1>0, <3>1 DEF SessionTypes
    <3> QED BY <1>0, <3>1, <3>2, <3>3, <3>4 DEF UserTypes, Private
  <2> QED BY <1>3, <2>1, <2>2 DEF Connect
<1>4. ASSUME NEW u \in Users, Insert(u) PROVE SocketsInStep'
  BY <1>0, <1>4 DEF Insert, UserTypes, ClientTypes
<1>5. ASSUME NEW u \in Users, AbortConnect(u) PROVE SocketsInStep'
  BY <1>0, <1>5 DEF AbortConnect, CallsHoldSessions, Private, UserTypes, SessionTypes
<1>6. ASSUME NEW u \in Users, NEW r \in Urls, BeginDisconnect(u, r) PROVE SocketsInStep'
  BY <1>0, <1>6 DEF BeginDisconnect, Without, UserTypes, ClientTypes
<1>7. ASSUME NEW u \in Users, RequestStop(u) PROVE SocketsInStep'
  BY <1>0, <1>7 DEF RequestStop, CallsHoldSessions, Private, UserTypes, SessionTypes, Sessions
<1>8. ASSUME NEW u \in Users, JoinThread(u) PROVE SocketsInStep'
  BY <1>0, <1>8 DEF JoinThread, UserTypes
<1>9. ASSUME NEW u \in Users, ResetSocket(u) PROVE SocketsInStep'
  BY <1>0, <1>9 DEF ResetSocket, CallsHoldSessions, Private, UserTypes, SessionTypes
<1>10. ASSUME NEW u \in Users, BeginFinalRelease(u) PROVE SocketsInStep'
  BY <1>0, <1>10 DEF BeginFinalRelease, UserTypes
<1>11. ASSUME NEW u \in Users, ReleaseSession(u) \/ ShutdownDispatcher(u) PROVE SocketsInStep'
  BY <1>0, <1>11 DEF ReleaseSession, ShutdownDispatcher, UserTypes
<1>12. CASE (\E n \in Sessions : ReceiveLoopEnds(n)) \/ UNCHANGED vars
  BY <1>0, <1>12 DEF ReceiveLoopEnds, vars
<1> QED
  BY <1>1, <1>2, <1>3, <1>4, <1>5, <1>6, <1>7, <1>8, <1>9, <1>10, <1>11, <1>12
     DEF Next, Begin, Continue, Released

LEMMA ThreadsStep == SInv /\ [Next]_vars => ThreadsInStep'
<1> SUFFICES ASSUME SInv, [Next]_vars PROVE ThreadsInStep'
  OBVIOUS
<1> USE DEF ThreadsInStep, Goto, Return, sessionVars, userVars
<1>0. /\ CallsHoldSessions /\ ThreadsInStep
      /\ SessionTypes /\ UserTypes
  BY TypeParts DEF SInv, CInv
<1>1. ASSUME NEW u \in Users,
             \/ BeginInitialize(u) \/ Initialize(u) \/ BeginFinalRelease(u)
             \/ \E r \in Urls : BeginConnect(u, r) \/ BeginDisconnect(u, r) \/ BeginUse(u, r)
      PROVE  ThreadsInStep'
  BY <1>0, <1>1 DEF BeginInitialize, Initialize, BeginFinalRelease, BeginConnect,
     BeginDisconnect, BeginUse, UserTypes
<1>2. ASSUME NEW u \in Users, CheckSocket(u) \/ Send(u) \/ ClearStop(u) \/ AbortConnect(u)
      PROVE  ThreadsInStep'
  BY <1>0, <1>2 DEF CheckSocket, Send, ClearStop, AbortConnect, UserTypes
<1>3. ASSUME NEW u \in Users, Connect(u) PROVE ThreadsInStep'
  <2>1. CASE Return(u) /\ UNCHANGED sessionVars
    BY <1>0, <1>3, <2>1 DEF Connect, UserTypes
  <2>2. CASE sessions' = sessions + 1
    <3>1. /\ sessions' \in Sessions /\ thread' = thread
          /\ mine' = [mine EXCEPT ![u] = sessions'] /\ call' = [call EXCEPT ![u] = "insert"]
      BY <1>0, <1>3, <2>2 DEF Connect, Sessions, SessionTypes
    <3>2. thread[sessions'] = "none"
      BY <1>0, <2>2, <3>1 DEF SessionTypes, Sessions
    <3> QED BY <1>0, <2>2, <3>1, <3>2 DEF SessionTypes, UserTypes, Sessions
  <2> QED BY <1>3, <2>1, <2>2 DEF Connect
<1>4. ASSUME NEW u \in Users, Insert(u) PROVE ThreadsInStep'
  BY <1>0, <1>4 DEF Insert, UserTypes
<1>5. ASSUME NEW u \in Users, SpawnThread(u) PROVE ThreadsInStep'
  BY <1>0, <1>5 DEF SpawnThread, CallsHoldSessions, Attached, Private, UserTypes, SessionTypes,
     Sessions
<1>6. ASSUME NEW u \in Users, JoinThread(u) PROVE ThreadsInStep'
  BY <1>0, <1>6 DEF JoinThread, Joined, CallsHoldSessions, Private, UserTypes, SessionTypes, Sessions
<1>7. ASSUME NEW u \in Users, RequestStop(u) \/ ResetSocket(u) PROVE ThreadsInStep'
  BY <1>0, <1>7 DEF RequestStop, ResetSocket, UserTypes
<1>8. ASSUME NEW u \in Users, ReleaseSession(u) \/ ShutdownDispatcher(u) PROVE ThreadsInStep'
  BY <1>0, <1>8 DEF ReleaseSession, ShutdownDispatcher, UserTypes
<1>9. ASSUME NEW n \in Sessions, ReceiveLoopEnds(n) PROVE ThreadsInStep'
  BY <1>0, <1>9 DEF ReceiveLoopEnds, SessionTypes, UserTypes
<1>10. CASE UNCHANGED vars
  BY <1>0, <1>10 DEF vars
<1> QED
  BY <1>1, <1>2, <1>3, <1>4, <1>5, <1>6, <1>7, <1>8, <1>9, <1>10
     DEF Next, Begin, Continue, Released

LEMMA ForgottenStep ==
  ASSUME Careful = TRUE
  PROVE  SInv /\ [Next]_vars => ForgottenIsDown'
<1> SUFFICES ASSUME SInv, [Next]_vars, NEW n \in Sessions, Forgotten(n)'
             PROVE  thread'[n] \in {"none", "joined"} /\ socket'[n] = "released"
  BY DEF ForgottenIsDown, Sessions
<1> DEFINE Down == thread'[n] \in {"none", "joined"} /\ socket'[n] = "released"
<1> USE DEF Forgotten, Using, Goto, Return, sessionVars, userVars
<1>0. /\ CallsHoldSessions /\ RegisteredOnce /\ Lifecycle /\ SocketsInStep /\ ThreadsInStep
      /\ ForgottenIsDown /\ SessionTypes /\ ClientTypes /\ UserTypes /\ n \in Nat \ {0}
  BY TypeParts DEF SInv, CInv, Sessions
<1>1. ASSUME Forgotten(n), UNCHANGED <<socket, thread>> PROVE Down
  BY <1>0, <1>1 DEF ForgottenIsDown
<1>2. ASSUME NEW u \in Users,
             \/ BeginInitialize(u) \/ Initialize(u) \/ BeginFinalRelease(u) \/ Insert(u)
             \/ \E r \in Urls : BeginConnect(u, r)
      PROVE  Down
  <2>1. Forgotten(n)
    <3>1. CASE BeginInitialize(u) \/ Initialize(u) \/ \E r \in Urls : BeginConnect(u, r)
      BY <1>0, <3>1 DEF BeginInitialize, Initialize, BeginConnect, UserTypes, CallsHoldSessions,
         Attached, Private
    <3>2. CASE BeginFinalRelease(u)
      BY <1>0, <3>2 DEF BeginFinalRelease, Lifecycle, UserTypes
    <3>3. CASE Insert(u)
      BY <1>0, <3>3 DEF Insert, MayInsert, UserTypes, ClientTypes
    <3> QED BY <1>2, <3>1, <3>2, <3>3
  <2> QED BY <1>1, <1>2, <2>1 DEF BeginInitialize, Initialize, BeginFinalRelease, Insert,
       BeginConnect
<1>3. ASSUME NEW u \in Users, Connect(u) PROVE Down
  <2>1. CASE Return(u) /\ UNCHANGED sessionVars
    <3>1. Forgotten(n)
      BY <1>0, <1>3, <2>1 DEF Connect, UserTypes, CallsHoldSessions, Attached, Private
    <3> QED BY <1>1, <2>1, <3>1
  <2>2. CASE sessions' = sessions + 1
    <3>1. /\ socket' = [socket EXCEPT ![sessions'] = "open"] /\ thread' = thread
          /\ mine' = [mine EXCEPT ![u] = sessions'] /\ call' = [call EXCEPT ![u] = "insert"]
          /\ registry' = registry /\ releasing' = releasing
      BY <1>3, <2>2 DEF Connect, SessionTypes
    <3>2. n # sessions'
      BY <1>0, <3>1 DEF UserTypes
    <3>3. n <= sessions
      BY <1>0, <2>2, <3>2 DEF SessionTypes
    <3>4. Forgotten(n)
      BY <1>0, <1>3, <3>1, <3>3 DEF Connect, UserTypes, CallsHoldSessions, Attached, Private
    <3>5. socket'[n] = socket[n] /\ thread'[n] = thread[n]
      BY <1>0, <3>1, <3>2 DEF SessionTypes
    <3> QED BY <1>0, <3>4, <3>5 DEF ForgottenIsDown
  <2> QED BY <1>3, <2>1, <2>2 DEF Connect
<1>4. ASSUME NEW u \in Users, AbortConnect(u) \/ ResetSocket(u) PROVE Down
  <2>0. call[u] \in {"abort", "reset"} /\ thread' = thread /\ mine[u] \in Sessions
    BY <1>0, <1>4 DEF AbortConnect, ResetSocket, CallsHoldSessions, Private, UserTypes, Sessions
  <2>1. socket' = [socket EXCEPT ![mine[u]] = "released"]
    BY <1>4 DEF AbortConnect, ResetSocket
  <2>2. CASE n = mine[u]
    BY <1>0, <2>0, <2>1, <2>2 DEF ThreadsInStep, SessionTypes
  <2>3. CASE n # mine[u]
    <3>1. Forgotten(n)
      BY <1>0, <1>4, <2>3 DEF AbortConnect, ResetSocket, UserTypes
    <3>2. socket'[n] = socket[n]
      BY <1>0, <2>1, <2>3 DEF SessionTypes
    <3> QED BY <1>0, <2>0, <3>1, <3>2 DEF ForgottenIsDown
  <2> QED BY <2>2, <2>3
<1>5. ASSUME NEW u \in Users, ClearStop(u) \/ SpawnThread(u) \/ CheckSocket(u) \/ Send(u) PROVE Down
  <2>1. registry[url[u]] = mine[u] /\ registry' = registry /\ releasing' = releasing
    BY <1>0, <1>5 DEF ClearStop, SpawnThread, CheckSocket, Send, CallsHoldSessions, Attached
  <2>2. n # mine[u]
    BY <1>0, <2>1 DEF UserTypes
  <2>3. Forgotten(n)
    BY <1>0, <1>5, <2>1, <2>2 DEF ClearStop, SpawnThread, CheckSocket, Send, UserTypes
  <2>4. socket'[n] = socket[n] /\ thread'[n] = thread[n]
    BY <1>0, <1>5, <2>2 DEF ClearStop, SpawnThread, CheckSocket, Send, SessionTypes
  <2> QED BY <1>0, <2>3, <2>4 DEF ForgottenIsDown
<1>6. ASSUME NEW u \in Users, NEW r \in Urls, BeginDisconnect(u, r) \/ BeginUse(u, r) PROVE Down
  <2>1. /\ call[u] = "idle" /\ mine'[u] = registry[r] /\ call'[u] # "idle"
        /\ \A s \in Urls : registry'[s] = registry[s] \/ s = r
        /\ releasing' = releasing /\ sessions' = sessions /\ UNCHANGED <<socket, thread>>
        /\ \A v \in Users \ {u} : call'[v] = call[v] /\ mine'[v] = mine[v]
    BY <1>0, <1>6 DEF BeginDisconnect, BeginUse, Without, ClientTypes, UserTypes
  <2>2. Forgotten(n)
    BY <1>0, <2>1
  <2> QED BY <1>1, <2>1, <2>2
<1>7. ASSUME NEW u \in Users, RequestStop(u) \/ JoinThread(u) PROVE Down
  <2>1. n # mine[u]
    BY <1>0, <1>7 DEF RequestStop, JoinThread, UserTypes
  <2>2. Forgotten(n)
    BY <1>0, <1>7, <2>1 DEF RequestStop, JoinThread, UserTypes
  <2>3. socket'[n] = socket[n] /\ thread'[n] = thread[n]
    BY <1>0, <1>7, <2>1 DEF RequestStop, JoinThread, SessionTypes
  <2> QED BY <1>0, <2>2, <2>3 DEF ForgottenIsDown
<1>8. ASSUME NEW u \in Users, ReleaseSession(u) \/ ShutdownDispatcher(u) PROVE Down
  <2>1. Forgotten(n)
    BY <1>0, <1>8 DEF ReleaseSession, ShutdownDispatcher, UserTypes, CallsHoldSessions, Attached,
       Private
  <2> QED BY <1>1, <1>8, <2>1 DEF ReleaseSession, ShutdownDispatcher
<1>9. ASSUME NEW m \in Sessions, ReceiveLoopEnds(m) PROVE Down
  <2>1. Forgotten(n) /\ UNCHANGED socket
    BY <1>9 DEF ReceiveLoopEnds
  <2>2. thread[m] = "running" /\ thread' = [thread EXCEPT ![m] = "ended"]
    BY <1>9 DEF ReceiveLoopEnds
  <2> QED BY <1>0, <2>1, <2>2 DEF ForgottenIsDown, SessionTypes
<1>10. CASE UNCHANGED vars
  BY <1>1, <1>10 DEF vars
<1> QED
  BY <1>2, <1>3, <1>4, <1>5, <1>6, <1>7, <1>8, <1>9, <1>10 DEF Next, Begin, Continue, Released

LEMMA SessionInvariant ==
  ASSUME Careful = TRUE
  PROVE  Spec => []SInv
<1>1. Init => CallsHoldSessions /\ RegisteredOnce /\ SocketsInStep /\ ThreadsInStep
                /\ ForgottenIsDown
  BY DEF Init, CallsHoldSessions, Attached, Private, RegisteredOnce, SocketsInStep,
     ThreadsInStep, ForgottenIsDown, Forgotten, Sessions
<1>2. SInv /\ [Next]_vars /\ CInv' => SInv'
  BY HoldStep, OnceStep, SocketsStep, ThreadsStep, ForgottenStep DEF SInv
<1> QED
  BY <1>1, <1>2, CountInvariant, PTL DEF Spec, SInv

(***************************************************************************)
(* When a relay is disconnected only while no other call uses it, every    *)
(* session that the client has let go of, by an aborted connection, by     *)
(* DisconnectRelay or by FinalRelease, was taken down first: its receive   *)
(* thread was joined or never started, and its socket was destroyed.       *)
(***************************************************************************)
THEOREM ForgottenIsDownHolds ==
  ASSUME Careful = TRUE
  PROVE  Spec => []ForgottenIsDown
<1>1. SInv => ForgottenIsDown
  BY DEF SInv
<1> QED
  BY <1>1, SessionInvariant, PTL

(***************************************************************************)
(* Under the same care no receive thread runs without its socket and a     *)
(* dispatcher to post to, and no call sends on a socket that is gone.      *)
(***************************************************************************)
THEOREM ThreadsAreServedHolds ==
  ASSUME Careful = TRUE
  PROVE  Spec => []ThreadsAreServed
<1>1. SInv => ThreadsAreServed
  <2> SUFFICES ASSUME SInv PROVE ThreadsAreServed
    OBVIOUS
  <2>0. /\ CallsHoldSessions /\ RegisteredOnce /\ Lifecycle /\ SocketsInStep /\ ThreadsInStep
        /\ ForgottenIsDown /\ DispatchersCounted /\ SessionTypes /\ ClientTypes /\ UserTypes
    BY TypeParts DEF SInv, CInv
  <2>1. ASSUME NEW n \in Sessions, thread[n] = "running"
        PROVE  socket[n] # "released" /\ dispatchers > 0
    <3>1. n <= sessions /\ sessions > 0
      BY <2>0, <2>1 DEF ThreadsInStep, SessionTypes, Sessions
    <3>2. ~Forgotten(n)
      BY <2>0, <2>1 DEF ForgottenIsDown
    <3>3. Using(n) \/ n \in releasing \/ \E r \in Urls : registry[r] = n
      BY <3>1, <3>2 DEF Forgotten
    <3>4. n # 0
      BY DEF Sessions
    <3>5. socket[n] # "released"
      BY <2>0, <2>1, <3>3, <3>4 DEF Using, SocketsInStep, CallsHoldSessions, Attached, Private,
         UserTypes
    <3>6. client \in {"ready", "disposing"}
      BY <2>0, <3>1, <3>3, <3>4 DEF Using, Lifecycle, ClientTypes
    <3>7. dispatchers > 0
      BY <2>0, <3>1, <3>6, CountedInNat DEF DispatchersCounted, SInv
    <3> QED BY <3>5, <3>7
  <2>2. ASSUME NEW u \in Users, call[u] = "send" PROVE socket[mine[u]] # "released"
    BY <2>0, <2>2 DEF CallsHoldSessions, Attached, SocketsInStep, UserTypes
  <2> QED BY <2>1, <2>2 DEF ThreadsAreServed
<1> QED
  BY <1>1, SessionInvariant, PTL

(***************************************************************************)
(* And when FinalRelease has returned, every receive thread has stopped:   *)
(* what the run with careless callers refutes.                             *)
(***************************************************************************)
THEOREM ReleaseStopsThreadsHolds ==
  ASSUME Careful = TRUE
  PROVE  Spec => []ReleaseStopsThreads
<1>1. CInv /\ ThreadsAreServed => ReleaseStopsThreads
  BY DEF CInv, DispatchersCounted, ThreadsAreServed, ReleaseStopsThreads
<1> QED
  BY <1>1, CountInvariant, ThreadsAreServedHolds, PTL
=============================================================================
