---------------------- MODULE SubscriptionStream_proofs ----------------------
(***************************************************************************)
(* RelaySubscriptions implements SubscriptionStream, for any number of     *)
(* subscriptions and threads, any queue limit and overflow strategy, and   *)
(* whatever fails.                                                         *)
(*                                                                         *)
(* A step of the code that changes what the abstract specification sees is *)
(* one of its steps: a message that is taken Arrives, one that is queued   *)
(* or posted is Accepted (or Overflows, or is Refused), a callback begins  *)
(* and ends, and the session is Abandoned.  All others are stutters.  The  *)
(* invariant says why each of them is allowed there.                       *)
(***************************************************************************)
EXTENDS MCRelaySubscriptions, RelaySubscriptions_proofs, FiniteSetTheorems

(***************************************************************************)
(* Sequences: the elements of an Append and of a Tail, and of a sequence   *)
(* of growing numbers.                                                     *)
(***************************************************************************)
Sorted(queue) == \A i, j \in DOMAIN queue : i < j => queue[i] < queue[j]

LEMMA EmptyRange == Range(<<>>) = {}
  BY DEF Range

LEMMA AppendRange ==
  ASSUME NEW S, NEW q \in Seq(S), NEW e \in S
  PROVE  Range(Append(q, e)) = Range(q) \union {e}
<1>1. /\ DOMAIN Append(q, e) = 1..(Len(q) + 1) /\ DOMAIN q = 1..Len(q) /\ Len(q) \in Nat
      /\ \A i \in DOMAIN q : Append(q, e)[i] = q[i]
      /\ Append(q, e)[Len(q) + 1] = e
  OBVIOUS
<1>2. ASSUME NEW i \in DOMAIN Append(q, e) PROVE i \in DOMAIN q \/ i = Len(q) + 1
  BY <1>1
<1>3. DOMAIN q \subseteq DOMAIN Append(q, e) /\ Len(q) + 1 \in DOMAIN Append(q, e)
  BY <1>1
<1> QED BY <1>1, <1>2, <1>3 DEF Range

LEMMA TailRange ==
  ASSUME NEW S, NEW q \in Seq(S), q # <<>>
  PROVE  Range(q) = {Head(q)} \union Range(Tail(q))
<1>1. /\ DOMAIN q = 1..Len(q) /\ Len(q) \in Nat \ {0} /\ DOMAIN Tail(q) = 1..(Len(q) - 1)
      /\ \A i \in DOMAIN Tail(q) : Tail(q)[i] = q[i + 1]
      /\ Head(q) = q[1]
  OBVIOUS
<1>2. ASSUME NEW i \in DOMAIN q, i # 1 PROVE i - 1 \in DOMAIN Tail(q) /\ Tail(q)[i - 1] = q[i]
  BY <1>1, <1>2
<1>3. ASSUME NEW i \in DOMAIN Tail(q) PROVE i + 1 \in DOMAIN q /\ Tail(q)[i] = q[i + 1]
  BY <1>1
<1>4. Range(q) \subseteq {Head(q)} \union Range(Tail(q))
  BY <1>1, <1>2 DEF Range
<1>5. {Head(q)} \union Range(Tail(q)) \subseteq Range(q)
  BY <1>1, <1>3 DEF Range
<1> QED BY <1>4, <1>5

LEMMA AppendSorted ==
  ASSUME NEW q \in Seq(Nat), NEW e \in Nat, Sorted(q), \A n \in Range(q) : n < e
  PROVE  Sorted(Append(q, e))
<1>1. /\ DOMAIN Append(q, e) = 1..(Len(q) + 1) /\ DOMAIN q = 1..Len(q) /\ Len(q) \in Nat
      /\ \A i \in DOMAIN q : Append(q, e)[i] = q[i]
      /\ Append(q, e)[Len(q) + 1] = e
  OBVIOUS
<1>2. SUFFICES ASSUME NEW i \in DOMAIN Append(q, e), NEW j \in DOMAIN Append(q, e), i < j
               PROVE  Append(q, e)[i] < Append(q, e)[j]
  BY DEF Sorted
<1>3. i \in DOMAIN q
  BY <1>1, <1>2
<1>4. CASE j \in DOMAIN q
  BY <1>1, <1>2, <1>3, <1>4 DEF Sorted
<1>5. CASE j = Len(q) + 1
  <2>1. q[i] < e
    BY <1>3 DEF Range
  <2> QED BY <1>1, <1>3, <1>5, <2>1
<1> QED BY <1>1, <1>4, <1>5

LEMMA TailSorted ==
  ASSUME NEW q \in Seq(Nat), q # <<>>, Sorted(q)
  PROVE  Sorted(Tail(q)) /\ \A n \in Range(Tail(q)) : Head(q) < n
<1>1. /\ DOMAIN q = 1..Len(q) /\ Len(q) \in Nat \ {0} /\ DOMAIN Tail(q) = 1..(Len(q) - 1)
      /\ \A i \in DOMAIN Tail(q) : Tail(q)[i] = q[i + 1]
      /\ Head(q) = q[1]
  OBVIOUS
<1>2. ASSUME NEW i \in DOMAIN Tail(q) PROVE i + 1 \in DOMAIN q /\ 1 \in DOMAIN q /\ 1 < i + 1
  BY <1>1
<1>3. ASSUME NEW i \in DOMAIN Tail(q), NEW j \in DOMAIN Tail(q), i < j PROVE Tail(q)[i] < Tail(q)[j]
  <2>1. i + 1 < j + 1
    BY <1>1, <1>3
  <2> QED BY <1>1, <1>2, <2>1 DEF Sorted
<1>4. \A n \in Range(Tail(q)) : Head(q) < n
  BY <1>1, <1>2 DEF Sorted, Range
<1> QED BY <1>3, <1>4 DEF Sorted

\* A queue of growing numbers has as many different events as it is long.
LEMMA SortedCardinality ==
  ASSUME NEW q \in Seq(Nat), Sorted(q)
  PROVE  Cardinality({[kind |-> "EVENT", id |-> q[i]] : i \in DOMAIN q}) = Len(q)
<1> DEFINE events == {[kind |-> "EVENT", id |-> q[i]] : i \in DOMAIN q}
           f == [i \in 1..Len(q) |-> [kind |-> "EVENT", id |-> q[i]]]
<1>1. DOMAIN q = 1..Len(q) /\ Len(q) \in Nat
  OBVIOUS
<1>2. f \in [1..Len(q) -> events] /\ \A m \in events : \E i \in 1..Len(q) : f[i] = m
  BY <1>1
<1>3. ASSUME NEW i \in 1..Len(q), NEW j \in 1..Len(q), f[i] = f[j] PROVE i = j
  <2>1. q[i] = q[j]
    BY <1>3
  <2>2. q[i] \in Nat /\ q[j] \in Nat /\ i \in Nat /\ j \in Nat
    BY <1>1
  <2> QED BY <1>1, <2>1, <2>2 DEF Sorted
<1>4. ExistsBijection(1..Len(q), events)
  <2> HIDE DEF f, events
  <2>1. f \in Bijection(1..Len(q), events)
    BY <1>2, <1>3, Zenon DEF Bijection, Injection, Surjection, IsInjective
  <2> QED BY <2>1 DEF ExistsBijection
<1> QED BY <1>1, <1>4, FS_CountingElements
-----------------------------------------------------------------------------
\* Where the receive thread is, and what it is handling there.
ThreadsFit ==
  /\ stage = "idle" => targets = {}
  /\ stage # "idle" => session # "gone"
  /\ stage # "idle" /\ handling.kind # "NOTICE" => targets = {handling.sub}
  /\ stage \in {"enqueue", "schedule", "unschedule"} => handling.kind = "EVENT"
  /\ stage \in {"close", "unrequest"} => handling.kind \in {"CLOSED", "EVENT"}
  /\ stage \in {"close", "unrequest", "post"} /\ handling.kind = "EVENT" =>
       overflowClosed[handling.sub]
  /\ stage = "activate" => handling.kind = "EOSE"
  /\ dispatcher = "pop" => task.kind = "drain"

\* Messages reach the receive thread in the order in which they were sent.
InboxInOrder ==
  /\ handling.id <= emitted /\ emitted <= MaxMessages
  /\ \A i \in DOMAIN inbox : handling.id < inbox[i].id /\ inbox[i].id <= emitted
  /\ \A i, j \in DOMAIN inbox : i < j => inbox[i].id < inbox[j].id

\* The message that is handled is newer than all that its subscription has.
IsPosted(t, s) == t.kind # "drain" /\ t.sub = s
Awaited(s) == s \in targets /\ stage \notin {"schedule", "unschedule"}

AreOlder(s, ids) == \A n \in ids : n <= handling.id /\ (Awaited(s) => n < handling.id)

PostedIds(s) == {t.id : t \in {t \in Range(tasks) : IsPosted(t, s)}}
ToldIds(s)   == {callbacks[s][i].id : i \in DOMAIN callbacks[s]}

HandlesNewest(s) ==
  /\ AreOlder(s, Range(eventQueue[s])) /\ AreOlder(s, PostedIds(s)) /\ AreOlder(s, ToldIds(s))
  /\ dispatcher = "invoke" /\ task.sub = s => AreOlder(s, {task.id})

\* Events wait in order, and so do callbacks.
WaitInOrder(s) ==
  /\ Sorted(eventQueue[s])
  /\ \A i, j \in DOMAIN tasks :
       IsPosted(tasks[i], s) /\ IsPosted(tasks[j], s) /\ i < j => tasks[i].id < tasks[j].id

\* A drain comes before a callback for which an older event still waits.
IsDrain(t, s) == t.kind = "drain" /\ t.sub = s

DrainComesFirst(s) ==
  session # "gone" =>
    \A i \in DOMAIN tasks :
      IsPosted(tasks[i], s) /\ (\E n \in Range(eventQueue[s]) : n < tasks[i].id) =>
        Draining(s) \/ \E j \in DOMAIN tasks : j < i /\ IsDrain(tasks[j], s)

\* CLOSED is known: posted, told, or about to be posted.
ClosedPosted(s) ==
  \/ \E t \in Range(tasks) : t.kind = "CLOSED" /\ t.sub = s
  \/ dispatcher = "invoke" /\ task.kind = "CLOSED" /\ task.sub = s
  \/ \E i \in DOMAIN callbacks[s] : callbacks[s][i].kind = "CLOSED"

ClosedHandled(s) ==
  stage \in {"close", "unrequest", "post"} /\ handling.sub = s /\ handling.kind = "CLOSED"

Asking(u, s) == subject[u] = s /\ call[u] \in {"request", "erase"}

NotAsked(s) ==
  s \notin registered \/ (\E u \in Users : Asking(u, s)) =>
    /\ relay[s] = "none" /\ NoneWaits(s) /\ ~ClosedPosted(s)
    /\ stage # "idle" /\ handling.sub = s => handling.kind = "NOTICE"

OneAsking(s) ==
  \A u \in Users : Asking(u, s) => s \in registered /\ \A v \in Users : Asking(v, s) => u = v

ClosedEnds(s) ==
  /\ (ClosedWaits(s) => relay[s] = "none") /\ NoneBehind(s)
  /\ ClosedPosted(s) \/ ClosedHandled(s) =>
       relay[s] = "none" /\ NoneWaits(s) /\ ~(stage = "enqueue" /\ handling.sub = s)

EndInv(s) == MayUpdate \/ overflowClosed[s] \/ (NotAsked(s) /\ OneAsking(s) /\ ClosedEnds(s))
NoUpdate == MayUpdate \/ \A u \in Users : call[u] \notin {"update", "repend"}

StreamInv(s) == /\ DrainInv(s) /\ HandlesNewest(s) /\ WaitInOrder(s) /\ DrainComesFirst(s)
                /\ EndInv(s)
RInv == /\ TypeOK /\ ThreadsFit /\ InboxInOrder /\ NoUpdate
        /\ \A s \in Subs : StreamInv(s)
-----------------------------------------------------------------------------
LEMMA ThreadsFitStep == ASSUME TypeOK, ThreadsFit, [Next]_vars PROVE ThreadsFit'
<1> USE DEF ThreadsFit
<1>0. ASSUME UNCHANGED <<stage, session, handling, targets, overflowClosed, dispatcher, task>> PROVE ThreadsFit'
  BY <1>0
<1>1. ASSUME HandleIncomingMessage PROVE ThreadsFit'
  <2>1. UNCHANGED <<dispatcher, task, session, overflowClosed>> /\ session = "live" /\ stage = "idle"
    BY <1>1 DEF HandleIncomingMessage, dispatcherVars, entryVars
  <2>2. CASE Collected(Head(inbox)) = {}
    BY <1>0, <1>1, <2>1, <2>2 DEF HandleIncomingMessage, receiverVars
  <2>3. CASE Collected(Head(inbox)) # {}
    <3>1. Head(inbox) \in Message
      BY <1>1 DEF HandleIncomingMessage, TypeOK, RelayTypes
    <3>2. Head(inbox).kind \in MessageKinds
      BY <3>1 DEF Message
    <3>3. handling' = Head(inbox) /\ stage' = FirstStage(handling') /\ targets' = Collected(handling')
          /\ targets' # {}
      BY <1>1, <2>3 DEF HandleIncomingMessage
    <3>4. /\ stage' \notin {"idle", "schedule", "unschedule", "unrequest"}
          /\ stage' = "enqueue" => handling'.kind = "EVENT"
          /\ stage' = "activate" => handling'.kind = "EOSE"
          /\ stage' = "close" => handling'.kind = "CLOSED"
          /\ stage' = "post" => handling'.kind = "NOTICE"
      BY <3>2, <3>3 DEF FirstStage, MessageKinds
    <3>5. handling'.kind # "NOTICE" => targets' = {handling'.sub}
      BY <3>3 DEF Collected
    <3> QED BY <2>1, <3>4, <3>5
  <2> QED BY <2>2, <2>3
<1>2. ASSUME NEW s \in Subs, EnqueueEvent(s) PROVE ThreadsFit'
  <2>1. /\ UNCHANGED <<handling, dispatcher, task, session>> /\ stage = "enqueue" /\ handling.sub = s
        /\ \/ stage' = "idle" /\ targets' = {}
           \/ stage' = "schedule" /\ targets' = targets
           \/ /\ stage' = "close" /\ targets' = targets
              /\ overflowClosed' = [overflowClosed EXCEPT ![s] = TRUE]
    BY <1>2 DEF EnqueueEvent, dispatcherVars, MarkOverflow
  <2>2. overflowClosed \in [Subs -> BOOLEAN]
    BY DEF TypeOK, EntryTypes
  <2> QED BY <2>1, <2>2
<1>3. ASSUME NEW s \in Subs, ScheduleDrain(s) \/ UnscheduleDrain(s) PROVE ThreadsFit'
  <2>1. /\ UNCHANGED <<handling, dispatcher, task, session>> /\ stage \in {"schedule", "unschedule"}
        /\ \/ stage' = "idle" /\ targets' = {}
           \/ stage' = "unschedule" /\ targets' = targets
    BY <1>3 DEF ScheduleDrain, UnscheduleDrain, dispatcherVars
  <2> QED BY <2>1
<1>4. ASSUME NEW s \in Subs, DispatchEndOfStoredEvents(s) \/ DispatchClosed(s) \/ ForgetCloseRequest(s)
      PROVE  ThreadsFit'
  <2>1. /\ UNCHANGED <<handling, targets, dispatcher, task, session, overflowClosed>>
        /\ \/ stage = "activate" /\ stage' = "post"
           \/ stage = "close" /\ stage' = "unrequest"
           \/ stage = "unrequest" /\ stage' = "post"
    BY <1>4 DEF DispatchEndOfStoredEvents, DispatchClosed, ForgetCloseRequest, dispatcherVars
  <2> QED BY <2>1
<1>5. ASSUME NEW s \in Subs, PostCallback(s) PROVE ThreadsFit'
  <2>1. /\ UNCHANGED <<handling, dispatcher, task, session, overflowClosed>> /\ stage = "post"
        /\ s \in targets /\ targets' = targets \ {s}
        /\ stage' = IF targets' = {} THEN "idle" ELSE "post"
    BY <1>5 DEF PostCallback, entryVars
  <2>2. handling.kind # "NOTICE" => targets' = {}
    BY <2>1
  <2> QED BY <2>1, <2>2
<1>6. ASSUME TakeTask PROVE ThreadsFit'
  <2>1. /\ UNCHANGED <<stage, session, handling, targets, overflowClosed>>
        /\ dispatcher' = "pop" => task'.kind = "drain"
    BY <1>6 DEF TakeTask, receiverVars, entryVars
  <2> QED BY <2>1
<1>7. ASSUME NEW s \in Subs, PopEvent(s) PROVE ThreadsFit'
  <2>1. UNCHANGED <<stage, session, handling, targets, overflowClosed>> /\ dispatcher' # "pop"
    BY <1>7 DEF PopEvent, receiverVars
  <2> QED BY <2>1
<1>8. ASSUME NEW s \in Subs, Invoke(s) PROVE ThreadsFit'
  <2>1. /\ UNCHANGED <<stage, session, handling, targets, overflowClosed, task>>
        /\ dispatcher' = "pop" => task.kind = "drain"
    BY <1>8 DEF Invoke, receiverVars, entryVars
  <2> QED BY <2>1
<1>9. ASSUME NEW u \in Users, NEW s \in Subs, BeginOpen(u, s) \/ BeginUpdate(u, s) \/ BeginClose(u, s)
      PROVE  ThreadsFit'
  BY <1>0, <1>9 DEF BeginOpen, BeginUpdate, BeginClose, receiverVars, dispatcherVars, entryVars
<1>10. ASSUME NEW u \in Users, Continue(u) PROVE ThreadsFit'
  BY <1>0, <1>10 DEF Continue, SendRequest, SendClose, EraseEntry, SetPending, RestoreStatus,
     receiverVars, dispatcherVars, entryVars
<1>11. ASSUME NEW s \in Subs, NEW kind \in MessageKinds, RelaySends(s, kind) PROVE ThreadsFit'
  BY <1>0, <1>11 DEF RelaySends, receiverVars, dispatcherVars, entryVars
<1>12. ASSUME StopReceiveLoop \/ ReleaseSession PROVE ThreadsFit'
  <2>1. /\ UNCHANGED <<stage, handling, targets, overflowClosed, dispatcher, task>>
        /\ session' = "gone" => stage = "idle"
    BY <1>12 DEF StopReceiveLoop, ReleaseSession, receiverVars, dispatcherVars, entryVars
  <2> QED BY <2>1
<1>13. CASE UNCHANGED vars
  BY <1>0, <1>13 DEF vars, receiverVars, dispatcherVars, entryVars
<1> QED
  BY <1>1, <1>2, <1>3, <1>4, <1>5, <1>6, <1>7, <1>8, <1>9, <1>10, <1>11, <1>12, <1>13
     DEF Next, ReceiveThread, DispatcherThread, Handle, OpenSubscription, UpdateFilters,
         CloseSubscription, Done

LEMMA InboxInOrderStep == ASSUME TypeOK, InboxInOrder, [Next]_vars PROVE InboxInOrder'
<1> USE DEF InboxInOrder
<1>0. ASSUME UNCHANGED <<handling, emitted, inbox>> PROVE InboxInOrder'
  BY <1>0
<1>a. inbox \in Seq(Message) /\ emitted \in Nat /\ handling.id \in Nat
      /\ \A i \in DOMAIN inbox : inbox[i].id \in Nat
  <2>1. inbox \in Seq(Message) /\ emitted \in Nat /\ handling \in Message
    BY DEF TypeOK, RelayTypes, ReceiverTypes
  <2>2. \A i \in DOMAIN inbox : inbox[i] \in Message
    BY <2>1
  <2>3. \A m \in Message : m.id \in Nat
    BY DEF Message
  <2> QED BY <2>1, <2>2, <2>3
<1>1. ASSUME NEW s \in Subs, NEW kind \in MessageKinds, RelaySends(s, kind) PROVE InboxInOrder'
  <2> DEFINE m == [kind |-> kind, sub |-> s, id |-> emitted + 1]
  <2>1. /\ handling' = handling /\ emitted' = emitted + 1 /\ emitted < MaxMessages
        /\ inbox' = Append(inbox, m)
    BY <1>1 DEF RelaySends, receiverVars
  <2>2. /\ DOMAIN inbox' = 1..(Len(inbox) + 1) /\ DOMAIN inbox = 1..Len(inbox) /\ Len(inbox) \in Nat
        /\ \A i \in DOMAIN inbox : inbox'[i] = inbox[i]
        /\ inbox'[Len(inbox) + 1].id = emitted + 1
    BY <1>a, <2>1
  <2>3. \A i \in DOMAIN inbox' : i \in DOMAIN inbox \/ i = Len(inbox) + 1
    BY <2>2
  <2>4. \A i \in DOMAIN inbox' : handling.id < inbox'[i].id /\ inbox'[i].id <= emitted + 1
    BY <1>a, <2>2, <2>3
  <2>5. ASSUME NEW i \in DOMAIN inbox', NEW j \in DOMAIN inbox', i < j PROVE inbox'[i].id < inbox'[j].id
    <3>1. i \in DOMAIN inbox
      BY <2>2, <2>5
    <3> QED BY <1>a, <2>2, <2>3, <2>5, <3>1
  <2>6. handling'.id <= emitted' /\ emitted' <= MaxMessages
    BY <1>a, <2>1, SubscriptionsAssumption DEF SubscriptionsAssumption
  <2> QED BY <2>1, <2>4, <2>5, <2>6
<1>2. ASSUME HandleIncomingMessage PROVE InboxInOrder'
  <2>1. emitted' = emitted /\ inbox # <<>> /\ inbox' = Tail(inbox) /\ handling' \in {handling, Head(inbox)}
    BY <1>2 DEF HandleIncomingMessage, receiverVars
  <2>2. /\ DOMAIN inbox = 1..Len(inbox) /\ Len(inbox) \in Nat \ {0} /\ DOMAIN inbox' = 1..(Len(inbox) - 1)
        /\ \A i \in DOMAIN inbox' : inbox'[i] = inbox[i + 1]
        /\ Head(inbox) = inbox[1] /\ 1 \in DOMAIN inbox
    BY <1>a, <2>1
  <2>3. \A i \in DOMAIN inbox' : i + 1 \in DOMAIN inbox /\ 1 < i + 1
    BY <2>2
  <2>4. \A i, j \in DOMAIN inbox' : i < j => i + 1 < j + 1
    BY <2>2
  <2>5. \A i, j \in DOMAIN inbox' : i < j => inbox'[i].id < inbox'[j].id
    BY <2>2, <2>3, <2>4
  <2>6. \A i \in DOMAIN inbox' : handling'.id < inbox'[i].id /\ inbox'[i].id <= emitted
    BY <1>a, <2>1, <2>2, <2>3
  <2>7. handling'.id <= emitted
    BY <1>a, <2>1, <2>2
  <2> QED BY <2>1, <2>5, <2>6, <2>7
<1>3. ASSUME NEW s \in Subs, Handle(s) PROVE InboxInOrder'
  BY <1>0, <1>3 DEF Handle, EnqueueEvent, ScheduleDrain, UnscheduleDrain, DispatchEndOfStoredEvents,
     DispatchClosed, ForgetCloseRequest, PostCallback, relayVars
<1>4. ASSUME NEW s \in Subs, PopEvent(s) \/ Invoke(s) PROVE InboxInOrder'
  BY <1>0, <1>4 DEF PopEvent, Invoke, receiverVars, relayVars
<1>5. ASSUME NEW u \in Users, NEW s \in Subs, BeginOpen(u, s) \/ BeginUpdate(u, s) \/ BeginClose(u, s)
      PROVE  InboxInOrder'
  BY <1>0, <1>5 DEF BeginOpen, BeginUpdate, BeginClose, receiverVars, relayVars
<1>6. ASSUME NEW u \in Users, Continue(u) PROVE InboxInOrder'
  BY <1>0, <1>6 DEF Continue, SendRequest, SendClose, EraseEntry, SetPending, RestoreStatus,
     receiverVars, relayVars
<1>7. CASE TakeTask \/ StopReceiveLoop \/ ReleaseSession \/ UNCHANGED vars
  BY <1>0, <1>7 DEF TakeTask, StopReceiveLoop, ReleaseSession, vars, receiverVars, relayVars
<1> QED
  BY <1>1, <1>2, <1>3, <1>4, <1>5, <1>6, <1>7
     DEF Next, ReceiveThread, DispatcherThread, OpenSubscription, UpdateFilters, CloseSubscription, Done

LEMMA NoUpdateStep == ASSUME TypeOK, NoUpdate, [Next]_vars PROVE NoUpdate'
<1> USE DEF NoUpdate
<1> SUFFICES ASSUME ~MayUpdate PROVE NoUpdate'
  OBVIOUS
<1>0. ASSUME call' = call PROVE NoUpdate'
  BY <1>0
<1>1. ASSUME NEW u \in Users, NEW s \in Subs, BeginOpen(u, s) \/ BeginUpdate(u, s) \/ BeginClose(u, s)
      PROVE  NoUpdate'
  <2>1. \E at \in {"request", "close"} : call' = [call EXCEPT ![u] = at]
    BY <1>1 DEF BeginOpen, BeginUpdate, BeginClose, Begin
  <2> QED BY <2>1 DEF TypeOK, UserTypes
<1>2. ASSUME NEW u \in Users, Continue(u) PROVE NoUpdate'
  <2>1. \E at \in {"idle", "erase", "restore"} : call' = [call EXCEPT ![u] = at]
    BY <1>2 DEF Continue, SendRequest, SendClose, EraseEntry, SetPending, RestoreStatus, Return
  <2> QED BY <2>1 DEF TypeOK, UserTypes
<1>3. ASSUME NEW s \in Subs, Handle(s) PROVE NoUpdate'
  BY <1>0, <1>3 DEF Handle, EnqueueEvent, ScheduleDrain, UnscheduleDrain, DispatchEndOfStoredEvents,
     DispatchClosed, ForgetCloseRequest, PostCallback, userVars
<1>4. ASSUME NEW s \in Subs, NEW kind \in MessageKinds, RelaySends(s, kind) \/ PopEvent(s) \/ Invoke(s)
      PROVE  NoUpdate'
  BY <1>0, <1>4 DEF RelaySends, PopEvent, Invoke, userVars
<1>5. CASE HandleIncomingMessage \/ TakeTask \/ StopReceiveLoop \/ ReleaseSession \/ UNCHANGED vars
  BY <1>0, <1>5 DEF HandleIncomingMessage, TakeTask, StopReceiveLoop, ReleaseSession, vars, userVars
<1>6. MessageKinds # {}
  BY DEF MessageKinds
<1> QED
  BY <1>1, <1>2, <1>3, <1>4, <1>5, <1>6
     DEF Next, ReceiveThread, DispatcherThread, OpenSubscription, UpdateFilters, CloseSubscription, Done
-----------------------------------------------------------------------------
(***************************************************************************)
(* What one step does to the tasks, the queue and the callbacks.           *)
(***************************************************************************)
LEMMA TasksAppend ==
  ASSUME TypeOK, NEW new \in Task, tasks' = Append(tasks, new)
  PROVE  Range(tasks)' = Range(tasks) \union {new}
<1>1. tasks \in Seq(Task)
  BY DEF TypeOK, DispatcherTypes
<1>2. Range(Append(tasks, new)) = Range(tasks) \union {new}
  BY <1>1, AppendRange
<1> QED BY <1>2

LEMMA TasksTail ==
  ASSUME TypeOK, TakeTask
  PROVE  /\ Range(tasks) = {task'} \union Range(tasks)' /\ task' = Head(tasks)
         /\ task' \in Task
<1>1. tasks \in Seq(Task) /\ tasks # <<>> /\ tasks' = Tail(tasks) /\ task' = Head(tasks)
  BY DEF TypeOK, DispatcherTypes, TakeTask
<1>2. Range(tasks) = {Head(tasks)} \union Range(Tail(tasks))
  BY <1>1, TailRange
<1> QED BY <1>1, <1>2

LEMMA ToldIsMessage ==
  ASSUME TypeOK, NEW s \in Subs PROVE [kind |-> CallbackKind, sub |-> s, id |-> task.id] \in Message
<1>1. task \in Task
  BY DEF TypeOK, DispatcherTypes
<1>2. task.id \in Nat /\ task.kind \in {"drain", "EOSE", "CLOSED", "NOTICE"}
  BY <1>1 DEF Task
<1>3. CallbackKind \in MessageKinds
  BY <1>2 DEF CallbackKind, MessageKinds
<1> QED BY <1>2, <1>3 DEF Message

LEMMA TaskPosted ==
  ASSUME TypeOK, NEW s \in Subs, NEW t \in Subs, PostCallback(t)
  PROVE  LET new == [kind |-> PostedKind, sub |-> t, id |-> handling.id]
         IN  /\ new \in Task /\ tasks' = Append(tasks, new)
             /\ Range(tasks)' = Range(tasks) \union {new}
             /\ IsPosted(new, s) <=> s = t
<1> DEFINE new == [kind |-> PostedKind, sub |-> t, id |-> handling.id]
<1>1. handling \in Message
  BY DEF TypeOK, ReceiverTypes
<1>2. handling.id \in Nat /\ handling.kind \in MessageKinds
  BY <1>1 DEF Message
<1>3. PostedKind \in {"EOSE", "CLOSED", "NOTICE"}
  BY <1>2 DEF PostedKind, MessageKinds
<1>4. new \in Task
  BY <1>2, <1>3 DEF Task
<1>5. tasks' = Append(tasks, new)
  BY DEF PostCallback, Posted
<1>6. Range(tasks)' = Range(tasks) \union {new}
  BY <1>4, <1>5, TasksAppend
<1> QED BY <1>3, <1>4, <1>5, <1>6 DEF IsPosted

LEMMA DrainPostedByReceiver ==
  ASSUME TypeOK, NEW s \in Subs, NEW t \in Subs, ScheduleDrain(t)
  PROVE  LET new == [kind |-> "drain", sub |-> t, id |-> handling.id]
         IN  /\ new \in Task /\ tasks' = Append(tasks, new)
             /\ Range(tasks)' = Range(tasks) \union {new}
             /\ ~IsPosted(new, s)
<1> DEFINE new == [kind |-> "drain", sub |-> t, id |-> handling.id]
<1>1. new \in Task
  BY DEF Task, TypeOK, ReceiverTypes, Message
<1>2. tasks' = Append(tasks, new)
  BY DEF ScheduleDrain, Posted
<1>3. Range(tasks)' = Range(tasks) \union {new}
  BY <1>1, <1>2, TasksAppend
<1> QED BY <1>1, <1>2, <1>3 DEF IsPosted

\* EnqueueEvent leaves the queue, empties it, or adds the event that came.
LEMMA QueueStep ==
  ASSUME TypeOK, NEW s \in Subs, NEW t \in Subs, EnqueueEvent(t)
  PROVE  /\ s # t => eventQueue'[s] = eventQueue[s]
         /\ \/ /\ eventQueue'[t] = eventQueue[t] /\ eventQueue' = eventQueue /\ stage' = "idle"
               /\ targets' = {} /\ overflowClosed' = overflowClosed /\ overflowClosed[t]
            \/ /\ eventQueue'[t] = <<>> /\ stage' = "close" /\ targets' = targets /\ Throws
               /\ IsFull(eventQueue[t]) /\ ~overflowClosed[t]
               /\ overflowClosed' = [overflowClosed EXCEPT ![t] = TRUE]
            \/ /\ eventQueue'[t] = Append(MakeRoom(eventQueue[t]), handling.id)
               /\ ~overflowClosed[t] /\ overflowClosed' = overflowClosed
               /\ ~(Throws /\ IsFull(eventQueue[t]))
               /\ (stage' = "schedule" /\ targets' = targets) \/ (stage' = "idle" /\ targets' = {})
<1>1. eventQueue \in [Subs -> Seq(Nat)]
  BY DEF TypeOK, EntryTypes
<1>2. \/ /\ eventQueue' = eventQueue /\ stage' = "idle" /\ targets' = {}
         /\ overflowClosed' = overflowClosed /\ overflowClosed[t]
      \/ /\ eventQueue' = [eventQueue EXCEPT ![t] = <<>>] /\ stage' = "close" /\ targets' = targets
         /\ Throws /\ IsFull(eventQueue[t]) /\ ~overflowClosed[t]
         /\ overflowClosed' = [overflowClosed EXCEPT ![t] = TRUE]
      \/ /\ eventQueue' = [eventQueue EXCEPT ![t] = Append(MakeRoom(@), handling.id)]
         /\ ~overflowClosed[t] /\ overflowClosed' = overflowClosed
         /\ ~(Throws /\ IsFull(eventQueue[t]))
         /\ (stage' = "schedule" /\ targets' = targets) \/ (stage' = "idle" /\ targets' = {})
  BY DEF EnqueueEvent, entryVars, MarkOverflow
<1> QED BY <1>1, <1>2

LEMMA MakeRoomKeeps ==
  ASSUME NEW q \in Seq(Nat), Sorted(q)
  PROVE  /\ MakeRoom(q) \in Seq(Nat) /\ Range(MakeRoom(q)) \subseteq Range(q) /\ Sorted(MakeRoom(q))
         /\ IsFull(q) => q # <<>> /\ MakeRoom(q) = Tail(q)
         /\ ~IsFull(q) => MakeRoom(q) = q
<1>1. IsFull(q) => q # <<>>
  BY SubscriptionsAssumption DEF IsFull, SubscriptionsAssumption
<1>2. IsFull(q) => Tail(q) \in Seq(Nat) /\ Range(Tail(q)) \subseteq Range(q) /\ Sorted(Tail(q))
  BY <1>1, TailRange, TailSorted
<1> QED BY <1>1, <1>2 DEF MakeRoom

LEMMA HandlesNewestStep ==
  ASSUME TypeOK, ThreadsFit, InboxInOrder, [Next]_vars,
         NEW s \in Subs, HandlesNewest(s), WaitInOrder(s)
  PROVE  HandlesNewest(s)'
<1> DEFINE IsNew(ids) == \A n \in ids : n <= handling'.id /\ (Awaited(s)' => n < handling'.id)
           Same == handling' = handling /\ (Awaited(s)' => Awaited(s))
<1>a. ASSUME IsNew(Range(eventQueue'[s])), IsNew(PostedIds(s)'), IsNew(ToldIds(s)'),
             dispatcher' = "invoke" /\ task'.sub = s => IsNew({task'.id})
      PROVE  HandlesNewest(s)'
  BY <1>a DEF HandlesNewest, AreOlder
<1>b. ASSUME Same PROVE \A ids, some : AreOlder(s, ids) /\ some \subseteq ids => IsNew(some)
  BY <1>b DEF AreOlder
<1>c. ASSUME Same, ~Awaited(s)' PROVE IsNew({handling.id})
  <2>1. handling.id \in Nat
    BY DEF TypeOK, ReceiverTypes, Message
  <2> QED BY <1>c, <2>1
<1>d. \A ids, jds : IsNew(ids) /\ IsNew(jds) => IsNew(ids \union jds)
  OBVIOUS
<1>e. /\ AreOlder(s, Range(eventQueue[s])) /\ AreOlder(s, PostedIds(s)) /\ AreOlder(s, ToldIds(s))
      /\ dispatcher = "invoke" /\ task.sub = s => AreOlder(s, {task.id})
  BY DEF HandlesNewest
<1> HIDE DEF IsNew
<1>0. ASSUME Same, UNCHANGED <<eventQueue, tasks, callbacks, dispatcher, task>> PROVE HandlesNewest(s)'
  <2>1. PostedIds(s)' = PostedIds(s) /\ ToldIds(s)' = ToldIds(s)
    BY <1>0 DEF PostedIds, ToldIds
  <2> QED BY <1>0, <1>a, <1>b, <1>e, <2>1
<1>1. ASSUME HandleIncomingMessage PROVE HandlesNewest(s)'
  <2>1. UNCHANGED <<eventQueue, tasks, callbacks, dispatcher, task>> /\ inbox # <<>> /\ stage = "idle"
    BY <1>1 DEF HandleIncomingMessage, entryVars, dispatcherVars, history
  <2>2. CASE UNCHANGED receiverVars
    <3>1. Same
      BY <2>2 DEF receiverVars, Awaited
    <3> QED BY <1>0, <2>1, <3>1
  <2>3. CASE handling' = Head(inbox)
    <3>1. handling.id \in Nat /\ Head(inbox).id \in Nat
      <4>1. handling \in Message /\ Head(inbox) \in Message
        BY <2>1 DEF TypeOK, ReceiverTypes, RelayTypes
      <4> QED BY <4>1 DEF Message
    <3>2. handling.id < Head(inbox).id
      <4>1. Head(inbox) = inbox[1] /\ 1 \in DOMAIN inbox
        BY <2>1 DEF TypeOK, RelayTypes
      <4> QED BY <4>1 DEF InboxInOrder
    <3>3. \A i \in DOMAIN eventQueue[s] : eventQueue[s][i] \in Nat
      BY DEF TypeOK, EntryTypes
    <3>4. \A t \in Range(tasks) : t.id \in Nat
      <4>1. tasks \in Seq(Task)
        BY DEF TypeOK, DispatcherTypes
      <4>2. \A t \in Range(tasks) : t \in Task
        BY <4>1 DEF Range
      <4> QED BY <4>2 DEF Task
    <3>5. \A i \in DOMAIN callbacks[s] : callbacks[s][i].id \in Nat
      <4>1. callbacks[s] \in Seq(Message)
        BY DEF TypeOK, HistoryTypes
      <4>2. \A i \in DOMAIN callbacks[s] : callbacks[s][i] \in Message
        BY <4>1
      <4> QED BY <4>2 DEF Message
    <3>6. task.id \in Nat
      <4>1. task \in Task
        BY DEF TypeOK, DispatcherTypes
      <4> QED BY <4>1 DEF Task
    <3>7. /\ Range(eventQueue[s]) \subseteq Nat /\ PostedIds(s) \subseteq Nat
          /\ ToldIds(s) \subseteq Nat /\ {task.id} \subseteq Nat
      BY <3>3, <3>4, <3>5, <3>6 DEF Range, PostedIds, ToldIds
    <3>8. \A ids \in SUBSET Nat : AreOlder(s, ids) => IsNew(ids)
      BY <2>3, <3>1, <3>2 DEF AreOlder, IsNew
    <3>9. PostedIds(s)' = PostedIds(s) /\ ToldIds(s)' = ToldIds(s)
      BY <2>1 DEF PostedIds, ToldIds
    <3> QED BY <1>a, <1>e, <2>1, <3>7, <3>8, <3>9
  <2> QED BY <1>1, <2>2, <2>3 DEF HandleIncomingMessage
<1>2. ASSUME NEW t \in Subs, EnqueueEvent(t) PROVE HandlesNewest(s)'
  <2>1. UNCHANGED <<tasks, callbacks, dispatcher, task, handling>> /\ stage = "enqueue"
    BY <1>2 DEF EnqueueEvent, dispatcherVars, history
  <2>2. PostedIds(s)' = PostedIds(s) /\ ToldIds(s)' = ToldIds(s)
    BY <2>1 DEF PostedIds, ToldIds
  <2>3. Same
    <3>1. targets' = {} \/ targets' = targets
      BY <1>2 DEF EnqueueEvent
    <3> QED BY <2>1, <3>1 DEF Awaited
  <2>4. CASE Range(eventQueue'[s]) \subseteq Range(eventQueue[s])
    BY <1>a, <1>b, <1>e, <2>1, <2>2, <2>3, <2>4
  <2>5. CASE t = s /\ eventQueue'[s] = Append(MakeRoom(eventQueue[s]), handling.id) /\ stage' # "close"
    <3>1. eventQueue[s] \in Seq(Nat) /\ Sorted(eventQueue[s]) /\ handling.id \in Nat
      BY DEF TypeOK, EntryTypes, WaitInOrder, ReceiverTypes, Message
    <3>2. MakeRoom(eventQueue[s]) \in Seq(Nat) /\ Range(MakeRoom(eventQueue[s])) \subseteq Range(eventQueue[s])
      BY <3>1, MakeRoomKeeps
    <3>3. Range(eventQueue'[s]) = Range(MakeRoom(eventQueue[s])) \union {handling.id}
      BY <2>5, <3>1, <3>2, AppendRange
    <3>4. ~Awaited(s)'
      BY <1>2, <2>5, QueueStep DEF Awaited
    <3>5. IsNew(Range(eventQueue'[s]))
      <4>1. IsNew(Range(MakeRoom(eventQueue[s])))
        BY <1>b, <1>e, <2>3, <3>2
      <4>2. IsNew({handling.id})
        BY <1>c, <2>3, <3>4
      <4> QED BY <1>d, <3>3, <4>1, <4>2
    <3> QED BY <1>a, <1>b, <1>e, <2>1, <2>2, <2>3, <3>5
  <2>6. CASE eventQueue'[s] = <<>>
    BY <2>4, <2>6, EmptyRange
  <2> QED BY <1>2, <2>4, <2>5, <2>6, QueueStep
<1>3. ASSUME NEW t \in Subs, ScheduleDrain(t) PROVE HandlesNewest(s)'
  <2>1. UNCHANGED <<eventQueue, callbacks, dispatcher, task, handling>> /\ ~Awaited(s)'
    BY <1>3 DEF ScheduleDrain, entryVars, history, Awaited
  <2>2. PostedIds(s)' = PostedIds(s)
    BY <1>3, DrainPostedByReceiver DEF PostedIds
  <2>3. ToldIds(s)' = ToldIds(s)
    BY <2>1 DEF ToldIds
  <2> QED BY <1>a, <1>b, <1>e, <2>1, <2>2, <2>3
<1>4. ASSUME NEW t \in Subs, PostCallback(t) PROVE HandlesNewest(s)'
  <2>1. /\ UNCHANGED <<eventQueue, callbacks, dispatcher, task, handling>> /\ Same
        /\ s = t => ~Awaited(s)'
    BY <1>4 DEF PostCallback, entryVars, history, Awaited
  <2>2. PostedIds(s)' \subseteq PostedIds(s) \union (IF s = t THEN {handling.id} ELSE {})
    <3> DEFINE new == [kind |-> PostedKind, sub |-> t, id |-> handling.id]
    <3>1. Range(tasks)' = Range(tasks) \union {new} /\ (IsPosted(new, s) <=> s = t) /\ new.id = handling.id
      BY <1>4, TaskPosted
    <3> HIDE DEF new
    <3> QED BY <3>1 DEF PostedIds
  <2>3. ToldIds(s)' = ToldIds(s)
    BY <2>1 DEF ToldIds
  <2>4. IsNew(PostedIds(s)')
    <3>1. CASE s = t
      <4>1. IsNew(PostedIds(s) \union {handling.id})
        BY <1>b, <1>c, <1>d, <1>e, <2>1, <3>1
      <4> QED BY <2>2, <3>1, <4>1 DEF IsNew
    <3>2. CASE s # t
      BY <1>b, <1>e, <2>1, <2>2, <3>2
    <3> QED BY <3>1, <3>2
  <2> QED BY <1>a, <1>b, <1>e, <2>1, <2>3, <2>4
<1>5. ASSUME NEW t \in Subs,
             UnscheduleDrain(t) \/ DispatchEndOfStoredEvents(t) \/ DispatchClosed(t) \/ ForgetCloseRequest(t)
      PROVE  HandlesNewest(s)'
  <2>1. UNCHANGED <<eventQueue, tasks, callbacks, dispatcher, task>>
    BY <1>5 DEF UnscheduleDrain, DispatchEndOfStoredEvents, DispatchClosed, ForgetCloseRequest,
       dispatcherVars, history
  <2>2. Same
    BY <1>5 DEF UnscheduleDrain, DispatchEndOfStoredEvents, DispatchClosed, ForgetCloseRequest, Awaited
  <2> QED BY <1>0, <2>1, <2>2
<1>6. ASSUME TakeTask PROVE HandlesNewest(s)'
  <2>1. UNCHANGED <<eventQueue, callbacks, stage, handling, targets>>
    BY <1>6 DEF TakeTask, entryVars, receiverVars, history
  <2>2. Same
    BY <2>1 DEF Awaited
  <2>3. PostedIds(s)' \subseteq PostedIds(s)
    BY <1>6, TasksTail DEF PostedIds
  <2>4. dispatcher' = "invoke" /\ task'.sub = s => {task'.id} \subseteq PostedIds(s)
    <3>1. dispatcher' = "invoke" => task'.kind # "drain"
      BY <1>6 DEF TakeTask
    <3> QED BY <1>6, <3>1, TasksTail DEF PostedIds, IsPosted
  <2>5. ToldIds(s)' = ToldIds(s)
    BY <2>1 DEF ToldIds
  <2> QED BY <1>a, <1>b, <1>e, <2>1, <2>2, <2>3, <2>4, <2>5
<1>7. ASSUME NEW t \in Subs, PopEvent(t) PROVE HandlesNewest(s)'
  <2>1. UNCHANGED <<tasks, callbacks, stage, handling, targets>> /\ task.sub = t /\ dispatcher # "invoke"
    BY <1>7 DEF PopEvent, receiverVars, history
  <2>2. Same
    BY <2>1 DEF Awaited
  <2>3. PostedIds(s)' = PostedIds(s) /\ ToldIds(s)' = ToldIds(s)
    BY <2>1 DEF PostedIds, ToldIds
  <2>4. CASE UNCHANGED <<eventQueue, task>> /\ dispatcher' = "idle"
    BY <1>a, <1>b, <1>e, <2>2, <2>3, <2>4
  <2>5. CASE /\ eventQueue[t] # <<>> /\ eventQueue' = [eventQueue EXCEPT ![t] = Tail(@)]
             /\ task' = [task EXCEPT !.id = Head(eventQueue[t])]
    <3>1. eventQueue[t] \in Seq(Nat)
      BY DEF TypeOK, EntryTypes
    <3>2. Range(eventQueue[t]) = {Head(eventQueue[t])} \union Range(Tail(eventQueue[t]))
      BY <2>5, <3>1, TailRange
    <3>3. eventQueue'[s] = IF s = t THEN Tail(eventQueue[t]) ELSE eventQueue[s]
      BY <2>5 DEF TypeOK, EntryTypes
    <3>4. task'.sub = t /\ task'.id = Head(eventQueue[t])
      BY <2>1, <2>5 DEF TypeOK, DispatcherTypes, Task
    <3> QED BY <1>a, <1>b, <1>e, <2>2, <2>3, <3>2, <3>3, <3>4
  <2> QED BY <1>7, <2>4, <2>5 DEF PopEvent, Popped
<1>8. ASSUME NEW t \in Subs, Invoke(t) PROVE HandlesNewest(s)'
  <2>1. /\ UNCHANGED <<eventQueue, tasks, stage, handling, targets>> /\ dispatcher' # "invoke"
        /\ dispatcher = "invoke" /\ task.sub = t
        /\ callbacks' = [callbacks EXCEPT ![t] = Append(@, [kind |-> CallbackKind, sub |-> t, id |-> task.id])]
    BY <1>8 DEF Invoke, entryVars, receiverVars
  <2>2. Same
    BY <2>1 DEF Awaited
  <2>3. PostedIds(s)' = PostedIds(s)
    BY <2>1 DEF PostedIds
  <2>4. CASE s = t
    <3> DEFINE m == [kind |-> CallbackKind, sub |-> t, id |-> task.id]
    <3>1. m \in Message
      BY ToldIsMessage
    <3>2. callbacks[s] \in Seq(Message) /\ callbacks'[s] = Append(callbacks[s], m)
      <4>1. callbacks \in [Subs -> Seq(Message)]
        BY DEF TypeOK, HistoryTypes
      <4> QED BY <2>1, <2>4, <4>1
    <3>3. Range(callbacks'[s]) = Range(callbacks[s]) \union {m}
      BY <3>1, <3>2, AppendRange
    <3>4. ToldIds(s) = {n.id : n \in Range(callbacks[s])} /\ ToldIds(s)' = {n.id : n \in Range(callbacks'[s])}
      BY DEF ToldIds, Range
    <3>5. ToldIds(s)' = ToldIds(s) \union {task.id}
      <4>1. m.id = task.id
        OBVIOUS
      <4> HIDE DEF m
      <4> QED BY <3>3, <3>4, <4>1
    <3>6. IsNew(ToldIds(s)')
      <4>1. IsNew(ToldIds(s))
        BY <1>b, <1>e, <2>2
      <4>2. IsNew({task.id})
        BY <1>b, <1>e, <2>1, <2>2, <2>4
      <4> QED BY <1>d, <3>5, <4>1, <4>2
    <3> QED BY <1>a, <1>b, <1>e, <2>1, <2>2, <2>3, <3>6
  <2>5. CASE s # t
    <3>1. ToldIds(s)' = ToldIds(s)
      BY <2>1, <2>5 DEF ToldIds, TypeOK, HistoryTypes
    <3> QED BY <1>a, <1>b, <1>e, <2>1, <2>2, <2>3, <3>1
  <2> QED BY <2>4, <2>5
<1>9. ASSUME UNCHANGED <<eventQueue, tasks, callbacks, dispatcher, task, stage, handling, targets>>
      PROVE  HandlesNewest(s)'
  BY <1>0, <1>9 DEF Awaited
<1>10. ASSUME NEW u \in Users, NEW t \in Subs, BeginOpen(u, t) \/ BeginUpdate(u, t) \/ BeginClose(u, t)
       PROVE  HandlesNewest(s)'
  BY <1>9, <1>10 DEF BeginOpen, BeginUpdate, BeginClose, entryVars, receiverVars, dispatcherVars, history
<1>11. ASSUME NEW u \in Users, Continue(u) PROVE HandlesNewest(s)'
  BY <1>9, <1>11 DEF Continue, SendRequest, SendClose, EraseEntry, SetPending, RestoreStatus,
     entryVars, receiverVars, dispatcherVars, history
<1>12. ASSUME NEW t \in Subs, NEW kind \in MessageKinds, RelaySends(t, kind) PROVE HandlesNewest(s)'
  BY <1>9, <1>12 DEF RelaySends, entryVars, receiverVars, dispatcherVars, history
<1>13. CASE StopReceiveLoop \/ ReleaseSession \/ UNCHANGED vars
  BY <1>9, <1>13 DEF StopReceiveLoop, ReleaseSession, vars, entryVars, receiverVars, dispatcherVars, history
<1> QED
  BY <1>1, <1>2, <1>3, <1>4, <1>5, <1>6, <1>7, <1>8, <1>10, <1>11, <1>12, <1>13
     DEF Next, ReceiveThread, DispatcherThread, Handle, OpenSubscription, UpdateFilters,
         CloseSubscription, Done

LEMMA AppendAt ==
  ASSUME TypeOK, NEW new \in Task, tasks' = Append(tasks, new)
  PROVE  /\ DOMAIN tasks' = DOMAIN tasks \union {Len(tasks) + 1} /\ DOMAIN tasks = 1..Len(tasks)
         /\ Len(tasks) \in Nat /\ tasks'[Len(tasks) + 1] = new
         /\ \A i \in DOMAIN tasks : tasks'[i] = tasks[i] /\ i < Len(tasks) + 1
<1>1. tasks \in Seq(Task)
  BY DEF TypeOK, DispatcherTypes
<1>2. /\ DOMAIN tasks' = 1..(Len(tasks) + 1) /\ DOMAIN tasks = 1..Len(tasks) /\ Len(tasks) \in Nat
      /\ \A i \in DOMAIN tasks : tasks'[i] = tasks[i]
      /\ tasks'[Len(tasks) + 1] = new
  BY <1>1
<1> QED BY <1>2

LEMMA TailAt ==
  ASSUME TypeOK, tasks # <<>>, tasks' = Tail(tasks)
  PROVE  /\ 1 \in DOMAIN tasks /\ Head(tasks) = tasks[1] /\ DOMAIN tasks \subseteq Nat
         /\ \A i \in DOMAIN tasks' : /\ i \in Nat /\ i + 1 \in DOMAIN tasks /\ 1 < i + 1
                                     /\ tasks'[i] = tasks[i + 1]
         /\ \A i \in DOMAIN tasks : i # 1 => i - 1 \in DOMAIN tasks' /\ tasks'[i - 1] = tasks[i]
<1>1. tasks \in Seq(Task)
  BY DEF TypeOK, DispatcherTypes
<1>2. /\ DOMAIN tasks = 1..Len(tasks) /\ Len(tasks) \in Nat \ {0}
      /\ DOMAIN tasks' = 1..(Len(tasks) - 1)
      /\ \A i \in DOMAIN tasks' : tasks'[i] = tasks[i + 1]
      /\ Head(tasks) = tasks[1]
  BY <1>1
<1> QED BY <1>2

LEMMA WaitInOrderStep ==
  ASSUME TypeOK, ThreadsFit, [Next]_vars, NEW s \in Subs, HandlesNewest(s), WaitInOrder(s)
  PROVE  WaitInOrder(s)'
<1> DEFINE InOrder == \A i, j \in DOMAIN tasks :
             IsPosted(tasks[i], s) /\ IsPosted(tasks[j], s) /\ i < j => tasks[i].id < tasks[j].id
<1>a. WaitInOrder(s) <=> Sorted(eventQueue[s]) /\ InOrder
  BY DEF WaitInOrder
<1>b. WaitInOrder(s)' <=> Sorted(eventQueue[s])' /\ InOrder'
  BY DEF WaitInOrder
<1>c. tasks' = tasks => InOrder'
  BY <1>a
<1>d. eventQueue'[s] = eventQueue[s] => Sorted(eventQueue[s])'
  BY <1>a DEF Sorted
<1>e. eventQueue[s] \in Seq(Nat) /\ handling.id \in Nat
  <2>1. eventQueue \in [Subs -> Seq(Nat)] /\ handling \in Message
    BY DEF TypeOK, EntryTypes, ReceiverTypes
  <2> QED BY <2>1 DEF Message
<1>0. ASSUME UNCHANGED <<eventQueue, tasks>> PROVE WaitInOrder(s)'
  BY <1>0, <1>b, <1>c, <1>d
<1>1. ASSUME NEW t \in Subs, EnqueueEvent(t) PROVE WaitInOrder(s)'
  <2>1. tasks' = tasks /\ stage = "enqueue" /\ handling.sub = t
    BY <1>1 DEF EnqueueEvent, dispatcherVars
  <2>2. CASE s = t /\ eventQueue'[s] = Append(MakeRoom(eventQueue[s]), handling.id)
    <3>1. Awaited(s)
      BY <2>1, <2>2 DEF Awaited, ThreadsFit
    <3>2. \A n \in Range(eventQueue[s]) : n < handling.id
      BY <3>1 DEF HandlesNewest, AreOlder
    <3>3. /\ MakeRoom(eventQueue[s]) \in Seq(Nat) /\ Sorted(MakeRoom(eventQueue[s]))
          /\ Range(MakeRoom(eventQueue[s])) \subseteq Range(eventQueue[s])
      BY <1>a, <1>e, MakeRoomKeeps
    <3>4. Sorted(eventQueue'[s])
      BY <1>e, <2>2, <3>2, <3>3, AppendSorted
    <3>5. Sorted(eventQueue[s])'
      BY <3>4 DEF Sorted
    <3> QED BY <1>b, <1>c, <2>1, <3>5
  <2>3. CASE eventQueue'[s] = eventQueue[s]
    BY <1>b, <1>c, <1>d, <2>1, <2>3
  <2>4. CASE eventQueue'[s] = <<>>
    <3>1. Sorted(eventQueue[s])'
      BY <2>4 DEF Sorted
    <3> QED BY <1>b, <1>c, <2>1, <3>1
  <2> QED BY <1>1, <2>2, <2>3, <2>4, QueueStep
<1>2. ASSUME NEW t \in Subs, ScheduleDrain(t) PROVE WaitInOrder(s)'
  <2> DEFINE new == [kind |-> "drain", sub |-> t, id |-> handling.id]
  <2>1. new \in Task /\ tasks' = Append(tasks, new) /\ ~IsPosted(new, s)
    BY <1>2, DrainPostedByReceiver
  <2> HIDE DEF new
  <2>2. /\ DOMAIN tasks' = DOMAIN tasks \union {Len(tasks) + 1} /\ tasks'[Len(tasks) + 1] = new
        /\ \A i \in DOMAIN tasks : tasks'[i] = tasks[i]
    BY <2>1, AppendAt
  <2>3. InOrder'
    BY <1>a, <2>1, <2>2
  <2>4. eventQueue' = eventQueue
    BY <1>2 DEF ScheduleDrain, entryVars
  <2> QED BY <1>b, <1>d, <2>3, <2>4
<1>3. ASSUME NEW t \in Subs, PostCallback(t) PROVE WaitInOrder(s)'
  <2> DEFINE new == [kind |-> PostedKind, sub |-> t, id |-> handling.id]
  <2>1. new \in Task /\ tasks' = Append(tasks, new) /\ (IsPosted(new, s) <=> s = t) /\ new.id = handling.id
    BY <1>3, TaskPosted
  <2> HIDE DEF new
  <2>2. /\ DOMAIN tasks' = DOMAIN tasks \union {Len(tasks) + 1} /\ tasks'[Len(tasks) + 1] = new
        /\ \A i \in DOMAIN tasks : tasks'[i] = tasks[i] /\ i < Len(tasks) + 1
        /\ DOMAIN tasks = 1..Len(tasks) /\ Len(tasks) \in Nat
    BY <2>1, AppendAt
  <2>3. ASSUME s = t, NEW i \in DOMAIN tasks, IsPosted(tasks[i], s) PROVE tasks[i].id < handling.id
    <3>1. tasks[i].id \in PostedIds(s)
      BY <2>3 DEF PostedIds, Range
    <3>2. Awaited(s)
      BY <1>3, <2>3 DEF PostCallback, Awaited
    <3> QED BY <3>1, <3>2 DEF HandlesNewest, AreOlder
  <2>4. ASSUME NEW i \in DOMAIN tasks', NEW j \in DOMAIN tasks',
               IsPosted(tasks'[i], s), IsPosted(tasks'[j], s), i < j
        PROVE  tasks'[i].id < tasks'[j].id
    <3>1. i \in DOMAIN tasks
      <4>1. ASSUME i = Len(tasks) + 1 PROVE FALSE
        <5>1. j \in DOMAIN tasks \/ j = Len(tasks) + 1
          BY <2>2
        <5> QED BY <2>2, <2>4, <4>1, <5>1
      <4> QED BY <2>2, <4>1
    <3>2. CASE j \in DOMAIN tasks
      BY <1>a, <2>2, <2>4, <3>1, <3>2
    <3>3. CASE j = Len(tasks) + 1
      BY <2>1, <2>2, <2>3, <2>4, <3>1, <3>3
    <3> QED BY <2>2, <3>2, <3>3
  <2>5. eventQueue' = eventQueue
    BY <1>3 DEF PostCallback, entryVars
  <2> QED BY <1>b, <1>d, <2>4, <2>5
<1>4. ASSUME TakeTask PROVE WaitInOrder(s)'
  <2>1. eventQueue' = eventQueue /\ tasks # <<>> /\ tasks' = Tail(tasks)
    BY <1>4 DEF TakeTask, entryVars
  <2>2. \A i \in DOMAIN tasks' : i \in Nat /\ i + 1 \in DOMAIN tasks /\ tasks'[i] = tasks[i + 1]
    BY <2>1, TailAt
  <2>3. \A i, j \in DOMAIN tasks' : i < j => i + 1 < j + 1
    BY <2>2
  <2>4. InOrder'
    BY <1>a, <2>2, <2>3
  <2> QED BY <1>b, <1>d, <2>1, <2>4
<1>5. ASSUME NEW t \in Subs, PopEvent(t) PROVE WaitInOrder(s)'
  <2>1. tasks' = tasks
    BY <1>5 DEF PopEvent
  <2>2. \/ eventQueue' = eventQueue
        \/ eventQueue[t] # <<>> /\ eventQueue' = [eventQueue EXCEPT ![t] = Tail(@)]
    BY <1>5 DEF PopEvent, Popped
  <2>3. eventQueue'[s] = eventQueue[s] \/ (eventQueue[s] # <<>> /\ eventQueue'[s] = Tail(eventQueue[s]))
    BY <2>2 DEF TypeOK, EntryTypes
  <2>4. CASE eventQueue[s] # <<>> /\ eventQueue'[s] = Tail(eventQueue[s])
    <3>1. Sorted(eventQueue'[s])
      BY <1>a, <1>e, <2>4, TailSorted
    <3>2. Sorted(eventQueue[s])'
      BY <3>1 DEF Sorted
    <3> QED BY <1>b, <1>c, <2>1, <3>2
  <2> QED BY <1>b, <1>c, <1>d, <2>1, <2>3, <2>4
<1>6. ASSUME NEW t \in Subs,
             \/ UnscheduleDrain(t) \/ DispatchEndOfStoredEvents(t) \/ DispatchClosed(t)
             \/ ForgetCloseRequest(t) \/ Invoke(t)
      PROVE  WaitInOrder(s)'
  BY <1>0, <1>6 DEF UnscheduleDrain, DispatchEndOfStoredEvents, DispatchClosed, ForgetCloseRequest,
     Invoke, entryVars, dispatcherVars
<1>7. ASSUME NEW u \in Users, NEW t \in Subs, BeginOpen(u, t) \/ BeginUpdate(u, t) \/ BeginClose(u, t)
      PROVE  WaitInOrder(s)'
  BY <1>0, <1>7 DEF BeginOpen, BeginUpdate, BeginClose, entryVars, dispatcherVars
<1>8. ASSUME NEW u \in Users, Continue(u) PROVE WaitInOrder(s)'
  BY <1>0, <1>8 DEF Continue, SendRequest, SendClose, EraseEntry, SetPending, RestoreStatus,
     entryVars, dispatcherVars
<1>9. ASSUME NEW t \in Subs, NEW kind \in MessageKinds, RelaySends(t, kind) PROVE WaitInOrder(s)'
  BY <1>0, <1>9 DEF RelaySends, entryVars, dispatcherVars
<1>10. CASE HandleIncomingMessage \/ StopReceiveLoop \/ ReleaseSession \/ UNCHANGED vars
  BY <1>0, <1>10 DEF HandleIncomingMessage, StopReceiveLoop, ReleaseSession, vars, entryVars, dispatcherVars
<1> QED
  BY <1>1, <1>2, <1>3, <1>4, <1>5, <1>6, <1>7, <1>8, <1>9, <1>10
     DEF Next, ReceiveThread, DispatcherThread, Handle, OpenSubscription, UpdateFilters,
         CloseSubscription, Done

LEMMA DrainComesFirstStep ==
  ASSUME TypeOK, ThreadsFit, [Next]_vars, NEW s \in Subs, DrainInv(s), HandlesNewest(s),
         DrainComesFirst(s)
  PROVE  DrainComesFirst(s)'
<1> DEFINE OlderEvent(i) == \E n \in Range(eventQueue[s]) : n < tasks[i].id
           DrainBefore(i) == \E j \in DOMAIN tasks : j < i /\ IsDrain(tasks[j], s)
           Met(i) == IsPosted(tasks[i], s) /\ OlderEvent(i) => Draining(s) \/ DrainBefore(i)
<1>a. session # "gone" => \A i \in DOMAIN tasks : Met(i)
  BY DEF DrainComesFirst
<1>b. (session' # "gone" => \A i \in DOMAIN tasks' : Met(i)') => DrainComesFirst(s)'
  BY DEF DrainComesFirst
<1> SUFFICES ASSUME session' # "gone" PROVE \A i \in DOMAIN tasks' : Met(i)'
  BY <1>b
<1>c. session # "gone"
  <2>1. ASSUME session = "gone" PROVE session' = "gone"
    <3>1. ASSUME NEW u \in Users, NEW t \in Subs,
                 BeginOpen(u, t) \/ BeginUpdate(u, t) \/ BeginClose(u, t) \/ Continue(u)
          PROVE  session' = session
      BY <3>1 DEF BeginOpen, BeginUpdate, BeginClose, Continue, SendRequest, SendClose, EraseEntry,
         SetPending, RestoreStatus
    <3>2. ASSUME NEW t \in Subs, NEW kind \in MessageKinds, RelaySends(t, kind) \/ PopEvent(t) \/ Invoke(t)
          PROVE  session' = session
      BY <3>2 DEF RelaySends, PopEvent, Invoke
    <3>3. ASSUME NEW t \in Subs, Handle(t) PROVE session' = session
      BY <3>3 DEF Handle, EnqueueEvent, ScheduleDrain, UnscheduleDrain, DispatchEndOfStoredEvents,
         DispatchClosed, ForgetCloseRequest, PostCallback
    <3>4. CASE HandleIncomingMessage \/ TakeTask \/ StopReceiveLoop \/ ReleaseSession \/ UNCHANGED vars
      BY <2>1, <3>4 DEF HandleIncomingMessage, TakeTask, StopReceiveLoop, ReleaseSession, vars
    <3>5. MessageKinds # {}
      BY DEF MessageKinds
    <3> QED
      BY <2>1, <3>1, <3>2, <3>3, <3>4, <3>5
         DEF Next, ReceiveThread, DispatcherThread, OpenSubscription, UpdateFilters, CloseSubscription, Done
  <2> QED BY <2>1
<1>d. \A i \in DOMAIN tasks : Met(i)
  BY <1>a, <1>c
<1>0. ASSUME UNCHANGED <<tasks, dispatcher, task>>, Range(eventQueue'[s]) \subseteq Range(eventQueue[s])
      PROVE  \A i \in DOMAIN tasks' : Met(i)'
  BY <1>0, <1>d DEF Draining
<1>1. ASSUME NEW t \in Subs, EnqueueEvent(t) PROVE \A i \in DOMAIN tasks' : Met(i)'
  <2>1. UNCHANGED <<tasks, dispatcher, task>>
    BY <1>1 DEF EnqueueEvent, dispatcherVars
  <2>2. CASE s = t /\ eventQueue'[s] = Append(MakeRoom(eventQueue[s]), handling.id)
    <3>1. eventQueue[s] \in Seq(Nat) /\ handling.id \in Nat
      <4>1. eventQueue \in [Subs -> Seq(Nat)] /\ handling \in Message
        BY DEF TypeOK, EntryTypes, ReceiverTypes
      <4> QED BY <4>1 DEF Message
    <3>2. MakeRoom(eventQueue[s]) \in Seq(Nat) /\ Range(MakeRoom(eventQueue[s])) \subseteq Range(eventQueue[s])
      <4>1. IsFull(eventQueue[s]) => eventQueue[s] # <<>>
        BY <3>1, SubscriptionsAssumption DEF IsFull, SubscriptionsAssumption
      <4> QED BY <3>1, <4>1, TailRange DEF MakeRoom
    <3>3. Range(eventQueue'[s]) = Range(MakeRoom(eventQueue[s])) \union {handling.id}
      BY <2>2, <3>1, <3>2, AppendRange, SMTT(30)
    <3>4. ASSUME NEW i \in DOMAIN tasks', IsPosted(tasks'[i], s), OlderEvent(i)' PROVE OlderEvent(i)
      <4>1. tasks[i].id \in PostedIds(s)
        BY <2>1, <3>4 DEF PostedIds, Range
      <4>2. tasks[i].id <= handling.id
        BY <4>1 DEF HandlesNewest, AreOlder
      <4>3. tasks[i].id \in Nat
        <5>1. tasks \in Seq(Task) /\ i \in DOMAIN tasks
          BY <2>1 DEF TypeOK, DispatcherTypes
        <5>2. tasks[i] \in Task
          BY <5>1
        <5> QED BY <5>2 DEF Task
      <4>4. ~(handling.id < tasks[i].id)
        BY <3>1, <4>2, <4>3
      <4> QED BY <2>1, <3>2, <3>3, <3>4, <4>4
    <3> QED BY <1>d, <2>1, <3>4 DEF Draining
  <2>3. CASE Range(eventQueue'[s]) \subseteq Range(eventQueue[s])
    BY <1>0, <2>1, <2>3
  <2> QED BY <1>1, <2>2, <2>3, QueueStep, EmptyRange
<1>2. ASSUME NEW t \in Subs, ScheduleDrain(t) PROVE \A i \in DOMAIN tasks' : Met(i)'
  <2> DEFINE new == [kind |-> "drain", sub |-> t, id |-> handling.id]
  <2>1. new \in Task /\ tasks' = Append(tasks, new) /\ ~IsPosted(new, s)
    BY <1>2, DrainPostedByReceiver
  <2> HIDE DEF new
  <2>2. /\ DOMAIN tasks' = DOMAIN tasks \union {Len(tasks) + 1} /\ tasks'[Len(tasks) + 1] = new
        /\ \A i \in DOMAIN tasks : tasks'[i] = tasks[i]
    BY <2>1, AppendAt
  <2>3. UNCHANGED <<eventQueue, dispatcher, task>>
    BY <1>2 DEF ScheduleDrain, entryVars
  <2> QED BY <1>d, <2>1, <2>2, <2>3 DEF Draining
<1>3. ASSUME NEW t \in Subs, PostCallback(t) PROVE \A i \in DOMAIN tasks' : Met(i)'
  <2> DEFINE new == [kind |-> PostedKind, sub |-> t, id |-> handling.id]
  <2>1. new \in Task /\ tasks' = Append(tasks, new)
    BY <1>3, TaskPosted
  <2> HIDE DEF new
  <2>2. /\ DOMAIN tasks' = DOMAIN tasks \union {Len(tasks) + 1} /\ tasks'[Len(tasks) + 1] = new
        /\ \A i \in DOMAIN tasks : tasks'[i] = tasks[i] /\ i < Len(tasks) + 1
    BY <2>1, AppendAt
  <2>3. UNCHANGED <<eventQueue, dispatcher, task>> /\ stage = "post"
    BY <1>3 DEF PostCallback, entryVars
  <2>4. eventQueue[s] # <<>> => Draining(s) \/ \E j \in DOMAIN tasks : IsDrain(tasks[j], s)
    <3>1. eventQueue[s] # <<>> => HasDrain(s)
      BY <1>c DEF DrainInv
    <3> QED BY <2>3, <3>1 DEF HasDrain, AboutToSchedule, DrainPosted, IsDrain
  <2>5. ASSUME NEW i \in DOMAIN tasks', i = Len(tasks) + 1 PROVE Met(i)'
    <3>1. CASE eventQueue[s] = <<>>
      BY <2>3, <3>1, EmptyRange
    <3>2. CASE Draining(s)
      BY <2>3, <3>2 DEF Draining
    <3>3. CASE \E j \in DOMAIN tasks : IsDrain(tasks[j], s)
      BY <2>2, <2>5, <3>3
    <3> QED BY <2>4, <3>1, <3>2, <3>3
  <2>6. ASSUME NEW i \in DOMAIN tasks', i \in DOMAIN tasks PROVE Met(i)'
    <3>1. Met(i)
      BY <1>d, <2>6
    <3> QED BY <2>2, <2>3, <2>6, <3>1 DEF Draining
  <2> HIDE DEF Met
  <2> QED BY <2>2, <2>5, <2>6
<1>4. ASSUME TakeTask PROVE \A i \in DOMAIN tasks' : Met(i)'
  <2>1. /\ eventQueue' = eventQueue /\ tasks # <<>> /\ tasks' = Tail(tasks) /\ ~Draining(s)
        /\ IsDrain(Head(tasks), s) => Draining(s)'
    BY <1>4, <1>c DEF TakeTask, entryVars, Draining, IsDrain
  <2>2. /\ 1 \in DOMAIN tasks /\ Head(tasks) = tasks[1] /\ DOMAIN tasks \subseteq Nat
        /\ \A i \in DOMAIN tasks' : i \in Nat /\ i + 1 \in DOMAIN tasks /\ tasks'[i] = tasks[i + 1]
        /\ \A i \in DOMAIN tasks : i # 1 => i - 1 \in DOMAIN tasks' /\ tasks'[i - 1] = tasks[i]
    BY <2>1, TailAt
  <2>3. SUFFICES ASSUME NEW i \in DOMAIN tasks', IsPosted(tasks'[i], s), OlderEvent(i)'
                 PROVE  Draining(s)' \/ DrainBefore(i)'
    OBVIOUS
  <2>4. IsPosted(tasks[i + 1], s) /\ OlderEvent(i + 1)
    BY <2>1, <2>2, <2>3
  <2>5. PICK j \in DOMAIN tasks : j < i + 1 /\ IsDrain(tasks[j], s)
    BY <1>d, <2>1, <2>2, <2>4
  <2>6. CASE j = 1
    BY <2>1, <2>2, <2>5, <2>6
  <2>7. CASE j # 1
    <3>1. j - 1 \in DOMAIN tasks' /\ tasks'[j - 1] = tasks[j]
      BY <2>2, <2>7
    <3>2. j - 1 < i
      BY <2>2, <2>5
    <3> QED BY <2>5, <3>1, <3>2
  <2> QED BY <2>6, <2>7
<1>5. ASSUME NEW t \in Subs, PopEvent(t) PROVE \A i \in DOMAIN tasks' : Met(i)'
  <2>1. tasks' = tasks /\ task.sub = t /\ dispatcher = "pop"
    BY <1>5 DEF PopEvent
  <2>2. CASE s # t
    <3>1. eventQueue'[s] = eventQueue[s] /\ ~Draining(s)
      BY <1>5, <2>1, <2>2 DEF PopEvent, TypeOK, EntryTypes, Draining
    <3> QED BY <1>d, <2>1, <3>1
  <2>3. CASE s = t /\ eventQueue[t] # <<>> /\ ~overflowClosed[t]
    <3>1. Draining(s)'
      <4>1. task.kind = "drain" /\ task \in Task
        BY <2>1 DEF ThreadsFit, TypeOK, DispatcherTypes
      <4>2. task'.kind = task.kind /\ task'.sub = task.sub /\ dispatcher' = "invoke"
        BY <1>5, <2>3, <4>1 DEF PopEvent, Task
      <4> QED BY <2>1, <2>3, <4>1, <4>2 DEF Draining
    <3> QED BY <3>1
  <2>4. CASE s = t /\ ~(eventQueue[t] # <<>> /\ ~overflowClosed[t])
    <3>1. eventQueue' = eventQueue /\ eventQueue[s] = <<>>
      BY <1>5, <2>4 DEF PopEvent, DrainInv
    <3> QED BY <3>1, EmptyRange
  <2> QED BY <2>2, <2>3, <2>4
<1>6. ASSUME NEW t \in Subs, Invoke(t) PROVE \A i \in DOMAIN tasks' : Met(i)'
  <2>1. UNCHANGED <<eventQueue, tasks>> /\ (Draining(s) <=> Draining(s)')
    BY <1>6 DEF Invoke, entryVars, Draining
  <2> QED BY <1>d, <2>1
<1>7. ASSUME UNCHANGED <<tasks, dispatcher, task, eventQueue>> PROVE \A i \in DOMAIN tasks' : Met(i)'
  BY <1>0, <1>7
<1>8. ASSUME NEW t \in Subs,
             \/ UnscheduleDrain(t) \/ DispatchEndOfStoredEvents(t) \/ DispatchClosed(t) \/ ForgetCloseRequest(t)
      PROVE  \A i \in DOMAIN tasks' : Met(i)'
  <2>1. UNCHANGED <<tasks, dispatcher, task, eventQueue>>
    BY <1>8 DEF UnscheduleDrain, DispatchEndOfStoredEvents, DispatchClosed, ForgetCloseRequest, dispatcherVars
  <2> QED BY <1>7, <2>1
<1>9. ASSUME NEW u \in Users, NEW t \in Subs, BeginOpen(u, t) \/ BeginUpdate(u, t) \/ BeginClose(u, t)
      PROVE  \A i \in DOMAIN tasks' : Met(i)'
  <2>1. UNCHANGED <<tasks, dispatcher, task, eventQueue>>
    BY <1>9 DEF BeginOpen, BeginUpdate, BeginClose, dispatcherVars, entryVars
  <2> QED BY <1>7, <2>1
<1>10. ASSUME NEW u \in Users, Continue(u) PROVE \A i \in DOMAIN tasks' : Met(i)'
  <2>1. UNCHANGED <<tasks, dispatcher, task, eventQueue>>
    BY <1>10 DEF Continue, SendRequest, SendClose, EraseEntry, SetPending, RestoreStatus,
       entryVars, dispatcherVars
  <2> QED BY <1>7, <2>1
<1>11. ASSUME NEW t \in Subs, NEW kind \in MessageKinds, RelaySends(t, kind)
       PROVE  \A i \in DOMAIN tasks' : Met(i)'
  <2>1. UNCHANGED <<tasks, dispatcher, task, eventQueue>>
    BY <1>11 DEF RelaySends, entryVars, dispatcherVars
  <2> QED BY <1>7, <2>1
<1>12. ASSUME HandleIncomingMessage \/ StopReceiveLoop \/ ReleaseSession \/ UNCHANGED vars
       PROVE  \A i \in DOMAIN tasks' : Met(i)'
  <2>1. UNCHANGED <<tasks, dispatcher, task, eventQueue>>
    BY <1>12 DEF HandleIncomingMessage, StopReceiveLoop, ReleaseSession, vars, entryVars, dispatcherVars
  <2> QED BY <1>7, <2>1
<1> QED
  <2> HIDE DEF Met
  <2> QED
    BY <1>1, <1>2, <1>3, <1>4, <1>5, <1>6, <1>8, <1>9, <1>10, <1>11, <1>12
       DEF Next, ReceiveThread, DispatcherThread, Handle, OpenSubscription, UpdateFilters,
           CloseSubscription, Done
\* CLOSED is posted by one step only, and from then on it stays posted or told.
LEMMA ClosedPostedStep ==
  ASSUME TypeOK, ThreadsFit, [Next]_vars, NEW s \in Subs, ClosedPosted(s)'
  PROVE  ClosedPosted(s) \/ (PostCallback(s) /\ PostedKind = "CLOSED")
<1> DEFINE InTasks == \E t \in Range(tasks) : t.kind = "CLOSED" /\ t.sub = s
           InCallback == dispatcher = "invoke" /\ task.kind = "CLOSED" /\ task.sub = s
           InHistory == \E i \in DOMAIN callbacks[s] : callbacks[s][i].kind = "CLOSED"
<1>a. ClosedPosted(s) <=> InTasks \/ InCallback \/ InHistory
  BY DEF ClosedPosted
<1>b. InTasks' \/ InCallback' \/ InHistory'
  BY DEF ClosedPosted
<1>0. ASSUME UNCHANGED <<tasks, dispatcher, task, callbacks>> PROVE ClosedPosted(s)
  BY <1>0, <1>a, <1>b
<1>1. ASSUME NEW t \in Subs, ScheduleDrain(t) PROVE ClosedPosted(s)
  <2> DEFINE new == [kind |-> "drain", sub |-> t, id |-> handling.id]
  <2>1. Range(tasks)' = Range(tasks) \union {new} /\ UNCHANGED <<dispatcher, task, callbacks>>
    BY <1>1, DrainPostedByReceiver DEF ScheduleDrain, history
  <2>2. new.kind # "CLOSED"
    OBVIOUS
  <2> HIDE DEF new
  <2>3. InTasks' => InTasks
    BY <2>1, <2>2
  <2> QED BY <1>a, <1>b, <2>1, <2>3
<1>2. ASSUME NEW t \in Subs, PostCallback(t)
      PROVE  ClosedPosted(s) \/ (PostCallback(s) /\ PostedKind = "CLOSED")
  <2> DEFINE new == [kind |-> PostedKind, sub |-> t, id |-> handling.id]
  <2>1. Range(tasks)' = Range(tasks) \union {new} /\ UNCHANGED <<dispatcher, task, callbacks>>
    BY <1>2, TaskPosted DEF PostCallback, history
  <2>2. new.kind = PostedKind /\ new.sub = t
    OBVIOUS
  <2> HIDE DEF new
  <2>3. InTasks' => InTasks \/ (PostedKind = "CLOSED" /\ t = s)
    BY <2>1, <2>2
  <2>4. InCallback' => InCallback
    BY <2>1
  <2>5. InHistory' => InHistory
    BY <2>1
  <2> QED BY <1>2, <1>a, <1>b, <2>3, <2>4, <2>5
<1>3. ASSUME TakeTask PROVE ClosedPosted(s)
  <2>1. callbacks' = callbacks
    BY <1>3 DEF TakeTask, history
  <2>2. Range(tasks) = {task'} \union Range(tasks)'
    BY <1>3, TasksTail
  <2>3. InTasks' \/ InCallback' => InTasks
    BY <2>2
  <2> QED BY <1>a, <1>b, <2>1, <2>3
<1>4. ASSUME NEW t \in Subs, PopEvent(t) PROVE ClosedPosted(s)
  <2>1. UNCHANGED <<tasks, callbacks>> /\ dispatcher = "pop"
    BY <1>4 DEF PopEvent, history
  <2>2. task \in Task /\ task.kind = "drain"
    BY <2>1 DEF TypeOK, DispatcherTypes, ThreadsFit
  <2>3. task'.kind = "drain"
    BY <1>4, <2>2 DEF PopEvent, Task
  <2> QED BY <1>a, <1>b, <2>1, <2>3
<1>5. ASSUME NEW t \in Subs, Invoke(t) PROVE ClosedPosted(s)
  <2> DEFINE m == [kind |-> CallbackKind, sub |-> t, id |-> task.id]
  <2>1. /\ UNCHANGED <<tasks, task>> /\ dispatcher' # "invoke" /\ dispatcher = "invoke" /\ task.sub = t
        /\ callbacks' = [callbacks EXCEPT ![t] = Append(@, m)]
    BY <1>5 DEF Invoke
  <2>2. InTasks' => InTasks
    BY <2>1
  <2>3. ~InCallback'
    BY <2>1
  <2>4. m.kind = "CLOSED" => task.kind = "CLOSED"
    BY DEF CallbackKind
  <2>5. m \in Message
    BY ToldIsMessage
  <2> HIDE DEF m
  <2>6. callbacks \in [Subs -> Seq(Message)]
    BY DEF TypeOK, HistoryTypes
  <2>7. CASE s # t
    <3>1. InHistory' => InHistory
      BY <2>1, <2>6, <2>7
    <3> QED BY <1>a, <1>b, <2>2, <2>3, <3>1
  <2>8. CASE s = t
    <3>1. callbacks'[s] = Append(callbacks[s], m) /\ callbacks[s] \in Seq(Message)
      BY <2>1, <2>6, <2>8
    <3>2. Range(callbacks'[s]) = Range(callbacks[s]) \union {m}
      BY <2>5, <3>1, AppendRange
    <3>3. InHistory <=> \E n \in Range(callbacks[s]) : n.kind = "CLOSED"
      BY DEF Range
    <3>4. InHistory' <=> \E n \in Range(callbacks'[s]) : n.kind = "CLOSED"
      BY DEF Range
    <3>5. InHistory' => InHistory \/ InCallback
      BY <2>1, <2>4, <2>8, <3>2, <3>3, <3>4
    <3> QED BY <1>a, <1>b, <2>2, <2>3, <3>5
  <2> QED BY <2>7, <2>8
<1>6. ASSUME NEW t \in Subs,
             \/ EnqueueEvent(t) \/ UnscheduleDrain(t) \/ DispatchEndOfStoredEvents(t)
             \/ DispatchClosed(t) \/ ForgetCloseRequest(t)
      PROVE  ClosedPosted(s)
  BY <1>0, <1>6 DEF EnqueueEvent, UnscheduleDrain, DispatchEndOfStoredEvents, DispatchClosed,
     ForgetCloseRequest, dispatcherVars, history
<1>7. ASSUME NEW u \in Users, NEW t \in Subs, BeginOpen(u, t) \/ BeginUpdate(u, t) \/ BeginClose(u, t)
      PROVE  ClosedPosted(s)
  BY <1>0, <1>7 DEF BeginOpen, BeginUpdate, BeginClose, dispatcherVars, history
<1>8. ASSUME NEW u \in Users, Continue(u) PROVE ClosedPosted(s)
  BY <1>0, <1>8 DEF Continue, SendRequest, SendClose, EraseEntry, SetPending, RestoreStatus,
     dispatcherVars, history
<1>9. ASSUME NEW t \in Subs, NEW kind \in MessageKinds, RelaySends(t, kind) PROVE ClosedPosted(s)
  BY <1>0, <1>9 DEF RelaySends, dispatcherVars, history
<1>10. ASSUME HandleIncomingMessage \/ StopReceiveLoop \/ ReleaseSession \/ UNCHANGED vars PROVE ClosedPosted(s)
  BY <1>0, <1>10 DEF HandleIncomingMessage, StopReceiveLoop, ReleaseSession, vars, dispatcherVars, history
<1> QED
  BY <1>1, <1>2, <1>3, <1>4, <1>5, <1>6, <1>7, <1>8, <1>9, <1>10
     DEF Next, ReceiveThread, DispatcherThread, Handle, OpenSubscription, UpdateFilters,
         CloseSubscription, Done

\* An overflow is for good.
LEMMA OverflowStays ==
  ASSUME TypeOK, [Next]_vars, NEW s \in Subs, overflowClosed[s] PROVE overflowClosed'[s]
<1>1. ASSUME NEW t \in Subs, EnqueueEvent(t)
      PROVE  overflowClosed' = overflowClosed \/ overflowClosed' = [overflowClosed EXCEPT ![t] = TRUE]
  BY <1>1 DEF EnqueueEvent, MarkOverflow, entryVars
<1>2. ASSUME NEW t \in Subs, Handle(t), ~EnqueueEvent(t) PROVE overflowClosed' = overflowClosed
  BY <1>2 DEF Handle, ScheduleDrain, UnscheduleDrain, DispatchEndOfStoredEvents, DispatchClosed,
     ForgetCloseRequest, PostCallback, entryVars
<1>3. ASSUME NEW u \in Users, NEW t \in Subs, BeginOpen(u, t) \/ BeginUpdate(u, t) \/ BeginClose(u, t)
      PROVE  overflowClosed' = overflowClosed
  BY <1>3 DEF BeginOpen, BeginUpdate, BeginClose, entryVars
<1>4. ASSUME NEW u \in Users, Continue(u) PROVE overflowClosed' = overflowClosed
  BY <1>4 DEF Continue, SendRequest, SendClose, EraseEntry, SetPending, RestoreStatus, entryVars
<1>5. ASSUME HandleIncomingMessage \/ TakeTask \/ StopReceiveLoop \/ ReleaseSession \/ UNCHANGED vars
      PROVE  overflowClosed' = overflowClosed
  BY <1>5 DEF HandleIncomingMessage, TakeTask, StopReceiveLoop, ReleaseSession, vars, entryVars
<1>6. ASSUME NEW t \in Subs, NEW kind \in MessageKinds, RelaySends(t, kind)
      PROVE  overflowClosed' = overflowClosed
  BY <1>6 DEF RelaySends, entryVars
<1>7. ASSUME NEW t \in Subs, PopEvent(t) \/ Invoke(t) PROVE overflowClosed' = overflowClosed
  BY <1>7 DEF PopEvent, Invoke, entryVars
<1> DEFINE Kept == overflowClosed' = overflowClosed \/ \E t \in Subs : overflowClosed' = [overflowClosed EXCEPT ![t] = TRUE]
<1>8. ASSUME NEW t \in Subs, Handle(t) PROVE Kept
  BY <1>1, <1>2, <1>8
<1>9. Kept
  <2>1. overflowClosed' = overflowClosed => Kept
    OBVIOUS
  <2> HIDE DEF Kept
  <2> QED
    BY <2>1, <1>3, <1>4, <1>5, <1>6, <1>7, <1>8
       DEF Next, ReceiveThread, DispatcherThread, OpenSubscription, UpdateFilters, CloseSubscription, Done
<1> QED BY <1>9 DEF TypeOK, EntryTypes

LEMMA EndInvStep ==
  ASSUME TypeOK, ThreadsFit, NoUpdate, [Next]_vars, NEW s \in Subs, EndInv(s)
  PROVE  EndInv(s)'
<1> DEFINE Enqueues == stage = "enqueue" /\ handling.sub = s
           Handles == stage # "idle" /\ handling.sub = s /\ handling.kind # "NOTICE"
<1> SUFFICES ASSUME ~MayUpdate, ~overflowClosed'[s] PROVE EndInv(s)'
  BY DEF EndInv
<1>a. ~overflowClosed[s]
  BY OverflowStays
<1>b. NotAsked(s) /\ OneAsking(s) /\ ClosedEnds(s)
  BY <1>a DEF EndInv
<1>c. NotAsked(s)' /\ OneAsking(s)' /\ ClosedEnds(s)' => EndInv(s)'
  BY DEF EndInv
<1>d. ASSUME inbox' = inbox
      PROVE  (NoneWaits(s)' <=> NoneWaits(s)) /\ (ClosedWaits(s)' <=> ClosedWaits(s))
             /\ (NoneBehind(s)' <=> NoneBehind(s))
  BY <1>d DEF NoneWaits, ClosedWaits, NoneBehind
<1>e. \A u \in Users : call[u] \notin {"update", "repend"}
  BY DEF NoUpdate
<1>f. ASSUME UNCHANGED <<stage, handling>>
      PROVE  /\ ClosedHandled(s)' <=> ClosedHandled(s)
             /\ Enqueues' <=> Enqueues
             /\ Handles' <=> Handles
  BY <1>f DEF ClosedHandled
<1>g. (ClosedHandled(s) => Handles) /\ (ClosedHandled(s)' => Handles')
  BY DEF ClosedHandled
<1>0. ASSUME UNCHANGED <<registered, relay, inbox, call, subject>>,
             ClosedPosted(s)' => ClosedPosted(s) \/ ClosedHandled(s),
             ClosedHandled(s)' => ClosedHandled(s), Enqueues' => Enqueues, Handles' => Handles
      PROVE  EndInv(s)'
  <2>1. \A u \in Users : Asking(u, s)' <=> Asking(u, s)
    BY <1>0 DEF Asking
  <2>2. NotAsked(s)'
    BY <1>0, <1>b, <1>d, <1>g, <2>1 DEF NotAsked
  <2>3. OneAsking(s)'
    BY <1>0, <1>b, <2>1 DEF OneAsking
  <2>4. ClosedEnds(s)'
    BY <1>0, <1>b, <1>d DEF ClosedEnds
  <2> QED BY <1>c, <2>2, <2>3, <2>4
<1>1. ASSUME NEW t \in Subs, NEW kind \in MessageKinds, RelaySends(t, kind) PROVE EndInv(s)'
  <2> DEFINE m == [kind |-> kind, sub |-> t, id |-> emitted + 1]
  <2>1. UNCHANGED <<registered, stage, handling, call, subject>>
    BY <1>1 DEF RelaySends, entryVars, receiverVars, userVars
  <2>2. m \in Message
    BY DEF Message, TypeOK, RelayTypes
  <2>3. /\ NoneWaits(s)' <=> NoneWaits(s) /\ ~IsAbout(m, s)
        /\ ClosedWaits(s)' <=> ClosedWaits(s) \/ IsClosed(m, s)
        /\ NoneBehind(s) /\ (ClosedWaits(s) => ~IsAbout(m, s)) => NoneBehind(s)'
    BY <1>1, <2>2, AppendToInbox DEF RelaySends
  <2>4. \A u \in Users : Asking(u, s)' <=> Asking(u, s)
    BY <2>1 DEF Asking
  <2>5. ClosedPosted(s)' => ClosedPosted(s)
    BY <1>1 DEF RelaySends, dispatcherVars, history, ClosedPosted
  <2>6. (IsAbout(m, s) <=> t = s /\ kind # "NOTICE") /\ (IsClosed(m, s) <=> t = s /\ kind = "CLOSED")
    BY DEF IsAbout, IsClosed
  <2> HIDE DEF m
  <2>7. CASE IsAbout(m, s)
    <3>1. relay[s] # "none" /\ (IsClosed(m, s) => relay'[s] = "none")
      BY <1>1, <2>6, <2>7 DEF RelaySends, TypeOK, RelayTypes, MessageKinds
    <3>2. NotAsked(s)'
      BY <1>b, <2>1, <2>4, <3>1 DEF NotAsked
    <3>3. OneAsking(s)'
      BY <1>b, <2>1, <2>4 DEF OneAsking
    <3>4. ClosedEnds(s)'
      BY <1>b, <1>f, <2>1, <2>3, <2>5, <3>1 DEF ClosedEnds
    <3> QED BY <1>c, <3>2, <3>3, <3>4
  <2>8. CASE ~IsAbout(m, s)
    <3>1. relay[s] = "none" => relay'[s] = "none"
      BY <1>1 DEF RelaySends, TypeOK, RelayTypes, MessageKinds
    <3>2. ~IsClosed(m, s)
      BY <2>6, <2>8
    <3>3. NotAsked(s)'
      BY <1>b, <1>f, <2>1, <2>3, <2>4, <2>5, <2>8, <3>1 DEF NotAsked
    <3>4. OneAsking(s)'
      BY <1>b, <2>1, <2>4 DEF OneAsking
    <3>5. ClosedEnds(s)'
      BY <1>b, <1>f, <2>1, <2>3, <2>5, <2>8, <3>1, <3>2 DEF ClosedEnds
    <3> QED BY <1>c, <3>3, <3>4, <3>5
  <2> QED BY <2>7, <2>8
<1>2. ASSUME HandleIncomingMessage PROVE EndInv(s)'
  <2>1. /\ UNCHANGED <<registered, relay, call, subject>> /\ stage = "idle"
        /\ inbox # <<>> /\ inbox' = Tail(inbox)
    BY <1>2 DEF HandleIncomingMessage, entryVars, userVars
  <2>2. /\ NoneWaits(s) <=> NoneWaits(s)' /\ ~IsAbout(Head(inbox), s)
        /\ ClosedWaits(s) <=> ClosedWaits(s)' \/ IsClosed(Head(inbox), s)
        /\ NoneBehind(s) => NoneBehind(s)' /\ (IsClosed(Head(inbox), s) => NoneWaits(s)')
    BY <2>1, TailOfInbox
  <2>3. stage' = "idle" \/ (handling' = Head(inbox) /\ stage' = FirstStage(handling'))
    BY <1>2, <2>1 DEF HandleIncomingMessage, receiverVars
  <2>4. Head(inbox) \in Message
    BY <2>1 DEF TypeOK, RelayTypes
  <2>5. Head(inbox).kind \in MessageKinds
    BY <2>4 DEF Message
  <2>6. /\ ClosedHandled(s)' => IsClosed(Head(inbox), s) /\ ~Enqueues'
        /\ Enqueues' => IsAbout(Head(inbox), s)
        /\ Handles' => IsAbout(Head(inbox), s)
        /\ ~ClosedHandled(s)
    BY <2>1, <2>3, <2>5 DEF ClosedHandled, IsClosed, IsAbout, FirstStage, MessageKinds
  <2>7. ClosedPosted(s)' => ClosedPosted(s)
    BY <1>2 DEF HandleIncomingMessage, dispatcherVars, history, ClosedPosted
  <2>8. \A u \in Users : Asking(u, s)' <=> Asking(u, s)
    BY <2>1 DEF Asking
  <2>9. NotAsked(s)'
    BY <1>b, <2>1, <2>2, <2>6, <2>7, <2>8 DEF NotAsked
  <2>10. OneAsking(s)'
    BY <1>b, <2>1, <2>8 DEF OneAsking
  <2>11. ClosedEnds(s)'
    <3>1. (ClosedWaits(s)' => relay'[s] = "none") /\ NoneBehind(s)'
      BY <1>b, <2>1, <2>2 DEF ClosedEnds
    <3>2. CASE ClosedHandled(s)'
      <4>1. relay'[s] = "none" /\ NoneWaits(s)' /\ ~Enqueues'
        BY <1>b, <2>1, <2>2, <2>6, <3>2 DEF ClosedEnds
      <4> QED BY <3>1, <4>1 DEF ClosedEnds
    <3>3. CASE ClosedPosted(s)'
      <4>1. relay'[s] = "none" /\ NoneWaits(s)' /\ ~Enqueues'
        BY <1>b, <2>1, <2>2, <2>6, <2>7, <3>3 DEF ClosedEnds
      <4> QED BY <3>1, <4>1 DEF ClosedEnds
    <3> QED BY <3>1, <3>2, <3>3 DEF ClosedEnds
  <2> QED BY <1>c, <2>9, <2>10, <2>11
<1>3. ASSUME NEW t \in Subs, EnqueueEvent(t) PROVE EndInv(s)'
  <2>1. /\ UNCHANGED <<registered, relay, inbox, call, subject, handling>> /\ stage = "enqueue"
        /\ handling.sub = t
    BY <1>3 DEF EnqueueEvent, relayVars, userVars, entryVars
  <2>2. ClosedPosted(s)' => ClosedPosted(s)
    BY <1>3 DEF EnqueueEvent, dispatcherVars, history, ClosedPosted
  <2>3. stage' \in {"idle", "schedule", "close"} /\ (stage' = "close" => overflowClosed' = MarkOverflow(t))
    BY <1>3 DEF EnqueueEvent
  <2>4. stage' = "close" => t # s
    BY <2>3 DEF MarkOverflow, TypeOK, EntryTypes
  <2>5. ~ClosedHandled(s)' /\ ~Enqueues' /\ (Handles' => Handles)
    BY <2>1, <2>3, <2>4 DEF ClosedHandled
  <2> QED BY <1>0, <2>1, <2>2, <2>5
<1>4. ASSUME NEW t \in Subs, PostCallback(t) PROVE EndInv(s)'
  <2>1. UNCHANGED <<registered, relay, inbox, call, subject, handling>> /\ stage = "post" /\ stage' \in {"idle", "post"}
    BY <1>4 DEF PostCallback, relayVars, userVars, entryVars
  <2>2. ClosedPosted(s)' => ClosedPosted(s) \/ ClosedHandled(s)
    <3>1. ASSUME PostCallback(s), PostedKind = "CLOSED" PROVE ClosedHandled(s)
      <4>1. handling.kind \in {"EVENT", "CLOSED"} /\ s \in targets
        BY <3>1 DEF PostedKind, PostCallback
      <4>2. handling.sub = s
        BY <2>1, <4>1 DEF ThreadsFit
      <4>3. handling.kind # "EVENT"
        BY <1>a, <2>1, <4>2 DEF ThreadsFit
      <4> QED BY <2>1, <4>1, <4>2, <4>3 DEF ClosedHandled
    <3> QED BY <3>1, ClosedPostedStep
  <2>3. (ClosedHandled(s)' => ClosedHandled(s)) /\ ~Enqueues' /\ (Handles' => Handles)
    BY <2>1 DEF ClosedHandled
  <2> QED BY <1>0, <2>1, <2>2, <2>3
<1>5. ASSUME NEW t \in Subs,
             \/ ScheduleDrain(t) \/ UnscheduleDrain(t) \/ DispatchEndOfStoredEvents(t)
             \/ DispatchClosed(t) \/ ForgetCloseRequest(t)
      PROVE  EndInv(s)'
  <2>1. /\ UNCHANGED <<registered, relay, inbox, call, subject, handling>>
        /\ \/ stage \in {"schedule", "unschedule"} /\ stage' \in {"idle", "unschedule"}
           \/ stage = "activate" /\ stage' = "post"
           \/ stage = "close" /\ stage' = "unrequest"
           \/ stage = "unrequest" /\ stage' = "post"
    BY <1>5 DEF ScheduleDrain, UnscheduleDrain, DispatchEndOfStoredEvents, DispatchClosed,
       ForgetCloseRequest, relayVars, userVars, entryVars
  <2>2. ~PostCallback(s)
    BY <2>1 DEF PostCallback
  <2>3. ClosedPosted(s)' => ClosedPosted(s)
    BY <2>2, ClosedPostedStep
  <2>4. (ClosedHandled(s)' => ClosedHandled(s)) /\ ~Enqueues' /\ (Handles' => Handles)
    BY <2>1 DEF ClosedHandled, ThreadsFit
  <2> QED BY <1>0, <2>1, <2>3, <2>4
<1>6. ASSUME TakeTask \/ (\E t \in Subs : PopEvent(t) \/ Invoke(t)) PROVE EndInv(s)'
  <2>1. UNCHANGED <<registered, relay, inbox, call, subject, handling, stage, targets>>
    BY <1>6 DEF TakeTask, PopEvent, Invoke, relayVars, userVars, entryVars, receiverVars
  <2>2. ~PostCallback(s)
    BY <2>1 DEF PostCallback
  <2>3. ClosedPosted(s)' => ClosedPosted(s)
    BY <2>2, ClosedPostedStep
  <2> QED BY <1>0, <1>f, <2>1, <2>3
<1>7. ASSUME NEW u \in Users, NEW t \in Subs, BeginOpen(u, t) PROVE EndInv(s)'
  <2>1. /\ UNCHANGED <<relay, inbox, stage, handling, dispatcher, task, tasks, callbacks>>
        /\ t \notin registered /\ registered' = registered \union {t}
        /\ \A v \in Users : subject[v] = t => call[v] = "idle"
        /\ call[u] = "idle" /\ call' = [call EXCEPT ![u] = "request"]
        /\ subject' = [subject EXCEPT ![u] = t]
    BY <1>7 DEF BeginOpen, Begin, relayVars, receiverVars, dispatcherVars, history
  <2>2. \A v \in Users : Asking(v, s)' <=> Asking(v, s) \/ (v = u /\ s = t)
    BY <2>1 DEF Asking, TypeOK, UserTypes
  <2>3. ClosedPosted(s)' <=> ClosedPosted(s)
    BY <2>1 DEF ClosedPosted
  <2>4. ClosedEnds(s)'
    BY <1>b, <1>d, <1>f, <2>1, <2>3 DEF ClosedEnds
  <2>5. NotAsked(s)'
    BY <1>b, <1>d, <1>f, <2>1, <2>2, <2>3 DEF NotAsked
  <2>6. OneAsking(s)'
    <3>1. s = t => \A v \in Users : ~Asking(v, s)
      BY <2>1 DEF Asking
    <3> QED BY <1>b, <2>1, <2>2, <3>1 DEF OneAsking
  <2> QED BY <1>c, <2>4, <2>5, <2>6
<1>8. ASSUME NEW u \in Users, NEW t \in Subs, BeginClose(u, t) PROVE EndInv(s)'
  <2>1. /\ UNCHANGED <<relay, inbox, stage, handling, dispatcher, task, tasks, callbacks, registered>>
        /\ call[u] = "idle" /\ call' = [call EXCEPT ![u] = "close"]
        /\ subject' = [subject EXCEPT ![u] = t]
    BY <1>8 DEF BeginClose, Begin, relayVars, receiverVars, dispatcherVars, history
  <2>2. \A v \in Users : Asking(v, s)' <=> Asking(v, s)
    BY <2>1 DEF Asking, TypeOK, UserTypes
  <2>3. ClosedPosted(s)' <=> ClosedPosted(s)
    BY <2>1 DEF ClosedPosted
  <2>4. NotAsked(s)' /\ OneAsking(s)'
    BY <1>b, <1>d, <1>f, <2>1, <2>2, <2>3 DEF NotAsked, OneAsking
  <2>5. ClosedEnds(s)'
    BY <1>b, <1>d, <1>f, <2>1, <2>3 DEF ClosedEnds
  <2> QED BY <1>c, <2>4, <2>5
<1>9. ASSUME NEW u \in Users, SendRequest(u) PROVE EndInv(s)'
  <2>1. /\ UNCHANGED <<registered, inbox, stage, handling, dispatcher, task, tasks, callbacks, subject>>
        /\ call[u] = "request"
        /\ \/ /\ call' = [call EXCEPT ![u] = "idle"]
              /\ relay' = [relay EXCEPT ![subject[u]] = "stored"] \/ relay' = relay
           \/ call' = [call EXCEPT ![u] = "erase"] /\ relay' = relay
    BY <1>9, <1>e DEF SendRequest, MayArrive, entryVars, receiverVars, dispatcherVars, history
  <2>2. \A v \in Users : Asking(v, s)' <=> Asking(v, s) /\ (v # u \/ call'[u] = "erase")
    BY <2>1 DEF Asking, TypeOK, UserTypes
  <2>3. ClosedPosted(s)' <=> ClosedPosted(s)
    BY <2>1 DEF ClosedPosted
  <2>4. OneAsking(s)'
    BY <1>b, <2>1, <2>2 DEF OneAsking
  <2>5. CASE relay'[s] = relay[s]
    <3>1. NotAsked(s)'
      BY <1>b, <1>d, <1>f, <2>1, <2>2, <2>3, <2>5 DEF NotAsked
    <3>2. ClosedEnds(s)'
      BY <1>b, <1>d, <1>f, <2>1, <2>3, <2>5 DEF ClosedEnds
    <3> QED BY <1>c, <2>4, <3>1, <3>2
  <2>6. CASE subject[u] = s /\ call' = [call EXCEPT ![u] = "idle"]
    <3>1. Asking(u, s) /\ call'[u] = "idle"
      BY <2>1, <2>6 DEF Asking, TypeOK, UserTypes
    <3>2. s \in registered /\ \A v \in Users : ~Asking(v, s)'
      BY <1>b, <2>2, <3>1 DEF OneAsking
    <3>3. NotAsked(s)'
      BY <2>1, <3>2 DEF NotAsked
    <3>4. NoneWaits(s) /\ ~ClosedPosted(s) /\ ~Handles
      BY <1>b, <3>1 DEF NotAsked
    <3>5. ~ClosedWaits(s)
      BY <3>4 DEF NoneWaits, ClosedWaits, IsAbout, IsClosed
    <3>6. ClosedEnds(s)'
      BY <1>b, <1>d, <1>f, <1>g, <2>1, <2>3, <3>4, <3>5 DEF ClosedEnds
    <3> QED BY <1>c, <2>4, <3>3, <3>6
  <2>7. relay'[s] = relay[s] \/ (subject[u] = s /\ call' = [call EXCEPT ![u] = "idle"])
    BY <2>1 DEF TypeOK, RelayTypes
  <2> QED BY <2>5, <2>6, <2>7
<1>10. ASSUME NEW u \in Users, SendClose(u) \/ RestoreStatus(u) PROVE EndInv(s)'
  <2>1. /\ UNCHANGED <<registered, inbox, stage, handling, dispatcher, task, tasks, callbacks, subject>>
        /\ call[u] \in {"close", "restore"}
        /\ \E at \in {"idle", "restore"} : call' = [call EXCEPT ![u] = at]
        /\ \/ relay' = relay
           \/ relay' = [relay EXCEPT ![subject[u]] = IF @ = "none" THEN @ ELSE "closing"]
    BY <1>10 DEF SendClose, MayArrive, RestoreStatus, Return, entryVars, relayVars, receiverVars, dispatcherVars, history
  <2>2. \A v \in Users : Asking(v, s)' <=> Asking(v, s)
    BY <2>1 DEF Asking, TypeOK, UserTypes
  <2>3. relay[s] = "none" => relay'[s] = "none"
    BY <2>1 DEF TypeOK, RelayTypes, UserTypes
  <2>4. ClosedPosted(s)' <=> ClosedPosted(s)
    BY <2>1 DEF ClosedPosted
  <2>5. NotAsked(s)' /\ OneAsking(s)'
    BY <1>b, <1>d, <1>f, <2>1, <2>2, <2>3, <2>4 DEF NotAsked, OneAsking
  <2>6. ClosedEnds(s)'
    BY <1>b, <1>d, <1>f, <2>1, <2>3, <2>4 DEF ClosedEnds
  <2> QED BY <1>c, <2>5, <2>6
<1>11. ASSUME NEW u \in Users, EraseEntry(u) PROVE EndInv(s)'
  <2>1. /\ UNCHANGED <<relay, inbox, stage, handling, dispatcher, task, tasks, callbacks, subject>>
        /\ call[u] = "erase" /\ call' = [call EXCEPT ![u] = "idle"]
        /\ registered' = registered \ {subject[u]}
    BY <1>11 DEF EraseEntry, Return, relayVars, receiverVars, dispatcherVars, history
  <2>2. \A v \in Users : Asking(v, s)' <=> Asking(v, s) /\ v # u
    BY <2>1 DEF Asking, TypeOK, UserTypes
  <2>3. s \notin registered' => s \notin registered \/ Asking(u, s)
    BY <2>1 DEF Asking
  <2>4. ClosedPosted(s)' <=> ClosedPosted(s)
    BY <2>1 DEF ClosedPosted
  <2>5. NotAsked(s)'
    BY <1>b, <1>d, <1>f, <2>1, <2>2, <2>3, <2>4 DEF NotAsked
  <2>6. OneAsking(s)'
    BY <1>b, <2>1, <2>2, <2>3 DEF OneAsking
  <2>7. ClosedEnds(s)'
    BY <1>b, <1>d, <1>f, <2>1, <2>4 DEF ClosedEnds
  <2> QED BY <1>c, <2>5, <2>6, <2>7
<1>12. ASSUME StopReceiveLoop \/ ReleaseSession \/ UNCHANGED vars PROVE EndInv(s)'
  <2>1. UNCHANGED <<registered, relay, inbox, call, subject, stage, handling, dispatcher, task, tasks, callbacks>>
    BY <1>12 DEF StopReceiveLoop, ReleaseSession, vars, entryVars, relayVars, userVars, receiverVars,
       dispatcherVars, history
  <2>2. ClosedPosted(s)' <=> ClosedPosted(s)
    BY <2>1 DEF ClosedPosted
  <2> QED BY <1>0, <1>f, <2>1, <2>2
<1>13. ASSUME NEW u \in Users, NEW t \in Subs, BeginUpdate(u, t) PROVE FALSE
  BY <1>13 DEF BeginUpdate
<1>14. ASSUME NEW u \in Users, SetPending(u) PROVE FALSE
  BY <1>14, <1>e DEF SetPending
<1> QED
  <2> HIDE DEF Enqueues, Handles
  <2> QED
    BY <1>1, <1>2, <1>3, <1>4, <1>5, <1>6, <1>7, <1>8, <1>9, <1>10, <1>11, <1>12, <1>13, <1>14
       DEF Next, ReceiveThread, DispatcherThread, Handle, OpenSubscription, UpdateFilters,
           CloseSubscription, Continue, Done
-----------------------------------------------------------------------------
(***************************************************************************)
(* The steps of SubscriptionStream, said of what the code's state shows of *)
(* each subscription.                                                      *)
(***************************************************************************)
Waiting(s) == QueuedEvents(s) \union PostedCallbacks(s)
Told(s) == [i \in DOMAIN callbacks[s] |-> [kind |-> callbacks[s][i].kind, id |-> callbacks[s][i].id]]
HeardOf(s) == Waiting(s) \union Telling(s) \union {Told(s)[i] : i \in DOMAIN callbacks[s]}

SameArriving == \A r \in Subs : Arriving(r)' = Arriving(r)
SameWaiting  == \A r \in Subs : Waiting(r)' = Waiting(r)
SameTelling  == \A r \in Subs : Telling(r)' = Telling(r)
SameTold     == \A r \in Subs : Told(r)' = Told(r)
SameSession  == session' = "gone" <=> session = "gone"

LEMMA StreamStutters ==
  ASSUME SameArriving, SameWaiting, SameTelling, SameTold, SameSession, overflowClosed' = overflowClosed
  PROVE  UNCHANGED Stream!vars
BY DEF SameArriving, SameWaiting, SameTelling, SameTold, SameSession, Stream!vars, Waiting, Told

LEMMA StreamArrives ==
  ASSUME NEW T \in SUBSET Subs, NEW m,
         \A r \in Subs : Arriving(r) = {} /\ Arriving(r)' = IF r \in T THEN {m} ELSE {},
         session # "gone", \A r \in T : \A n \in HeardOf(r) : n.id < m.id,
         SameWaiting, SameTelling, SameTold, SameSession, overflowClosed' = overflowClosed
  PROVE  Stream!Arrive(T, m)
<1>1. \A r \in T : Stream!Newer(m, Stream!Heard(r))
  BY DEF Stream!Newer, Stream!Heard, HeardOf, Waiting, Told
<1> QED
  BY <1>1 DEF SameWaiting, SameTelling, SameTold, SameSession, Stream!Arrive, Waiting, Told

LEMMA StreamAccepts ==
  ASSUME NEW s \in Subs, NEW m,
         m.kind = "EVENT" => ~overflowClosed[s] /\ ~(Stream!AtLimit(s) /\ Throws) /\ ~Stream!IsClosed(s),
         Arriving(s)' = {}, \A r \in Subs \ {s} : Arriving(r)' = Arriving(r) /\ Waiting(r)' = Waiting(r),
         Waiting(s)' = {m} \union (IF m.kind = "EVENT" /\ Stream!AtLimit(s)
                                     THEN Waiting(s) \ Stream!Oldest(Stream!Events(Waiting(s)))
                                     ELSE Waiting(s)),
         SameTelling, SameTold, SameSession, overflowClosed' = overflowClosed
  PROVE  Stream!Accept(s, m)
BY DEF SameTelling, SameTold, SameSession, Stream!Accept, Waiting, Told

LEMMA StreamOverflows ==
  ASSUME NEW s \in Subs, NEW m,
         m.kind = "EVENT", ~overflowClosed[s], Stream!AtLimit(s), Throws,
         overflowClosed' = [overflowClosed EXCEPT ![s] = TRUE],
         Arriving(s)' = {[m EXCEPT !.kind = "CLOSED"]},
         Waiting(s)' = Waiting(s) \ Stream!Events(Waiting(s)),
         \A r \in Subs \ {s} : Arriving(r)' = Arriving(r) /\ Waiting(r)' = Waiting(r),
         SameTelling, SameTold, SameSession
  PROVE  Stream!Overflow(s, m)
BY DEF SameTelling, SameTold, SameSession, Stream!Overflow, Waiting, Told

LEMMA StreamRefuses ==
  ASSUME NEW s \in Subs, NEW m, m.kind = "EVENT", overflowClosed[s],
         Arriving(s)' = {}, \A r \in Subs \ {s} : Arriving(r)' = Arriving(r),
         SameWaiting, SameTelling, SameTold, SameSession, overflowClosed' = overflowClosed
  PROVE  Stream!Refuse(s, m)
BY DEF SameWaiting, SameTelling, SameTold, SameSession, Stream!Refuse, Waiting, Told

LEMMA StreamTells ==
  ASSUME NEW s \in Subs, NEW m,
         \A r \in Subs : Telling(r) = {},
         \A n \in Waiting(s) : n.id < m.id => m.kind = "EVENT" /\ n.kind # "EVENT",
         Waiting(s)' = Waiting(s) \ {m}, Telling(s)' = {m},
         \A r \in Subs \ {s} : Waiting(r)' = Waiting(r) /\ Telling(r)' = Telling(r),
         SameArriving, SameTold, SameSession, overflowClosed' = overflowClosed
  PROVE  Stream!BeginTell(s, m)
BY DEF SameArriving, SameTold, SameSession, Stream!BeginTell, Stream!MayOvertake, Waiting, Told

LEMMA StreamTold ==
  ASSUME NEW s \in Subs, NEW m,
         Telling(s)' = {}, Told(s)' = Append(Told(s), m),
         \A r \in Subs \ {s} : Told(r)' = Told(r) /\ Telling(r)' = Telling(r),
         SameArriving, SameWaiting, SameSession, overflowClosed' = overflowClosed
  PROVE  Stream!EndTell(s, m)
BY DEF SameArriving, SameWaiting, SameSession, Stream!EndTell, Waiting, Told

LEMMA StreamIsAbandoned ==
  ASSUME NEW lost \in SUBSET Subs, session # "gone", session' = "gone", \A r \in Subs : Arriving(r) = {},
         \A r \in Subs : Waiting(r)' = IF r \in lost THEN Waiting(r) \ Stream!Events(Waiting(r)) ELSE Waiting(r),
         SameArriving, SameTelling, SameTold, overflowClosed' = overflowClosed
  PROVE  Stream!Abandon(lost)
BY DEF SameArriving, SameTelling, SameTold, Stream!Abandon, Waiting, Told
-----------------------------------------------------------------------------
(***************************************************************************)
(* What waits: the queued events and the posted callbacks, told apart by   *)
(* their kinds.                                                            *)
(***************************************************************************)
EventsOf(ids) == {[kind |-> "EVENT", id |-> n] : n \in ids}
Shown(t) == [kind |-> t.kind, id |-> t.id]

LEMMA WaitingIs ==
  ASSUME NEW s \in Subs
  PROVE  /\ QueuedEvents(s) = IF session = "gone" /\ ~Draining(s) THEN {} ELSE EventsOf(Range(eventQueue[s]))
         /\ PostedCallbacks(s) = {Shown(t) : t \in {t \in Range(tasks) : IsPosted(t, s)}}
<1>1. EventsOf(Range(eventQueue[s])) = {[kind |-> "EVENT", id |-> eventQueue[s][i]] : i \in DOMAIN eventQueue[s]}
  BY DEF EventsOf, Range
<1> QED BY <1>1 DEF QueuedEvents, PostedCallbacks, IsPosted, Shown

LEMMA SameWaitingOf ==
  ASSUME SameSession, NEW s \in Subs, Draining(s)' <=> Draining(s), Range(eventQueue'[s]) = Range(eventQueue[s]),
         PostedCallbacks(s)' = PostedCallbacks(s)
  PROVE  Waiting(s)' = Waiting(s)
<1>1. QueuedEvents(s)' = IF session' = "gone" /\ ~Draining(s)' THEN {} ELSE EventsOf(Range(eventQueue'[s]))
  BY DEF QueuedEvents, EventsOf, Range
<1> QED BY <1>1, WaitingIs DEF Waiting, SameSession

LEMMA WaitingKinds ==
  ASSUME TypeOK, NEW s \in Subs
  PROVE  /\ \A t \in Range(tasks) : t \in Task
         /\ \A n \in PostedCallbacks(s) : n.kind # "EVENT" /\ n.id \in PostedIds(s)
         /\ \A n \in QueuedEvents(s) : n.kind = "EVENT" /\ n.id \in Range(eventQueue[s])
         /\ Stream!Events(Waiting(s)) = QueuedEvents(s)
         /\ QueuedEvents(s) \intersect PostedCallbacks(s) = {}
<1>1. \A t \in Range(tasks) : t \in Task
  <2>1. tasks \in Seq(Task)
    BY DEF TypeOK, DispatcherTypes
  <2> QED BY <2>1 DEF Range
<1>2. \A n \in PostedCallbacks(s) : n.kind # "EVENT" /\ n.id \in PostedIds(s)
  <2>1. \A t \in Range(tasks) : t.kind # "EVENT"
    BY <1>1 DEF Task
  <2> QED BY <2>1, WaitingIs DEF Shown, PostedIds
<1>3. \A n \in QueuedEvents(s) : n.kind = "EVENT" /\ n.id \in Range(eventQueue[s])
  BY WaitingIs DEF EventsOf
<1> QED BY <1>1, <1>2, <1>3 DEF Stream!Events, Waiting

LEMMA ToldIs ==
  ASSUME NEW s \in Subs, NEW i \in DOMAIN callbacks[s]
  PROVE  Told(s)[i].kind = callbacks[s][i].kind /\ Told(s)[i].id = callbacks[s][i].id
<1>1. Told(s)[i] = [kind |-> callbacks[s][i].kind, id |-> callbacks[s][i].id]
  BY DEF Told
<1> QED BY <1>1

LEMMA HeardIsOlder ==
  ASSUME TypeOK, NEW s \in Subs, HandlesNewest(s), NEW n \in HeardOf(s)
  PROVE  n.id \in Nat /\ n.id <= handling.id
<1>1. CASE n \in QueuedEvents(s)
  <2>1. n.id \in Range(eventQueue[s])
    BY <1>1, WaitingKinds
  <2>2. Range(eventQueue[s]) \subseteq Nat
    BY DEF TypeOK, EntryTypes, Range
  <2> QED BY <2>1, <2>2 DEF HandlesNewest, AreOlder
<1>2. CASE n \in PostedCallbacks(s)
  <2>1. n.id \in PostedIds(s)
    BY <1>2, WaitingKinds
  <2>2. \A t \in Range(tasks) : t.id \in Nat
    BY WaitingKinds DEF Task
  <2>3. PostedIds(s) \subseteq Nat
    BY <2>2 DEF PostedIds
  <2> QED BY <2>1, <2>3 DEF HandlesNewest, AreOlder
<1>3. CASE n \in Telling(s)
  <2>1. task \in Task
    BY DEF TypeOK, DispatcherTypes
  <2>2. dispatcher = "invoke" /\ task.sub = s /\ n.id = task.id
    BY <1>3 DEF Telling
  <2> QED BY <2>1, <2>2 DEF HandlesNewest, AreOlder, Task
<1>4. CASE n \in {Told(s)[i] : i \in DOMAIN callbacks[s]}
  <2>1. PICK i \in DOMAIN callbacks[s] : n.id = callbacks[s][i].id
    BY <1>4, ToldIs
  <2>2. callbacks[s] \in Seq(Message)
    BY DEF TypeOK, HistoryTypes
  <2>3. callbacks[s][i] \in Message
    BY <2>2
  <2>4. n.id \in ToldIds(s)
    BY <2>1 DEF ToldIds
  <2> QED BY <2>1, <2>3, <2>4 DEF HandlesNewest, AreOlder, Message
<1> QED BY <1>1, <1>2, <1>3, <1>4 DEF HeardOf, Waiting

LEMMA ClosedHeard ==
  ASSUME TypeOK, NEW s \in Subs, NEW n \in HeardOf(s), n.kind = "CLOSED"
  PROVE  ClosedPosted(s)
<1>1. n \notin QueuedEvents(s)
  BY WaitingKinds
<1>2. CASE n \in PostedCallbacks(s)
  BY <1>2, WaitingIs DEF Shown, ClosedPosted, IsPosted
<1>3. CASE n \in Telling(s)
  BY <1>3 DEF Telling, CallbackKind, ClosedPosted
<1>4. CASE n \in {Told(s)[i] : i \in DOMAIN callbacks[s]}
  BY <1>4, ToldIs DEF ClosedPosted
<1> QED BY <1>1, <1>2, <1>3, <1>4 DEF HeardOf, Waiting

LEMMA TailOfSorted ==
  ASSUME NEW q \in Seq(Nat), q # <<>>, Sorted(q)
  PROVE  /\ Head(q) \in Range(q) /\ Range(Tail(q)) = Range(q) \ {Head(q)}
         /\ \A n \in Range(q) : n \in Nat /\ Head(q) <= n
         /\ Stream!Oldest(EventsOf(Range(q))) = {[kind |-> "EVENT", id |-> Head(q)]}
<1>1. Range(q) = {Head(q)} \union Range(Tail(q))
  BY TailRange
<1>2. \A n \in Range(Tail(q)) : Head(q) < n
  BY TailSorted
<1>3. \A n \in Range(q) : n \in Nat
  BY DEF Range
<1>4. Range(Tail(q)) = Range(q) \ {Head(q)}
  <2>1. Head(q) \notin Range(Tail(q))
    BY <1>1, <1>2, <1>3
  <2> QED BY <1>1, <2>1
<1>5. \A n \in Range(q) : Head(q) <= n
  BY <1>1, <1>2, <1>3
<1>6. \A n \in Range(q) : n <= Head(q) => n = Head(q)
  BY <1>1, <1>3, <1>5
<1>7. Head(q) \in Range(q)
  BY <1>1
<1>8. Stream!Oldest(EventsOf(Range(q))) = {[kind |-> "EVENT", id |-> Head(q)]}
  <2>1. ASSUME NEW m \in Stream!Oldest(EventsOf(Range(q))) PROVE m = [kind |-> "EVENT", id |-> Head(q)]
    <3>1. PICK n \in Range(q) : m = [kind |-> "EVENT", id |-> n]
      BY <2>1 DEF Stream!Oldest, EventsOf
    <3>2. n <= Head(q)
      <4>1. [kind |-> "EVENT", id |-> Head(q)] \in EventsOf(Range(q))
        BY <1>7 DEF EventsOf
      <4>2. m.id <= [kind |-> "EVENT", id |-> Head(q)].id
        BY <2>1, <4>1 DEF Stream!Oldest
      <4> QED BY <3>1, <4>2
    <3> QED BY <1>6, <3>1, <3>2
  <2>2. [kind |-> "EVENT", id |-> Head(q)] \in Stream!Oldest(EventsOf(Range(q)))
    BY <1>5, <1>7 DEF Stream!Oldest, EventsOf
  <2> QED BY <2>1, <2>2
<1> QED BY <1>3, <1>4, <1>5, <1>7, <1>8

\* The instance has a Cardinality of its own.
LEMMA SameCardinality == \A S : Stream!Cardinality(S) = Cardinality(S)
  BY DEF Stream!Cardinality, Cardinality

LEMMA AtLimitIsFull ==
  ASSUME TypeOK, NEW s \in Subs, session # "gone", Sorted(eventQueue[s])
  PROVE  Stream!AtLimit(s) <=> IsFull(eventQueue[s])
<1>1. eventQueue[s] \in Seq(Nat)
  BY DEF TypeOK, EntryTypes
<1>2. Cardinality(QueuedEvents(s)) = Len(eventQueue[s])
  BY <1>1, SortedCardinality DEF QueuedEvents
<1>3. Stream!Events(QueuedEvents(s) \union PostedCallbacks(s)) = QueuedEvents(s)
  BY WaitingKinds DEF Waiting
<1>4. Stream!Events([r \in Subs |-> QueuedEvents(r) \union PostedCallbacks(r)][s]) = QueuedEvents(s)
  BY <1>3
<1>5. Stream!AtLimit(s) <=> MaxQueue > 0 /\ Cardinality(QueuedEvents(s)) >= MaxQueue
  BY <1>4, SameCardinality DEF Stream!AtLimit
<1> QED BY <1>2, <1>5 DEF IsFull
-----------------------------------------------------------------------------
(***************************************************************************)
(* Each step of the code is a step of the stream, or none.                 *)
(***************************************************************************)
StreamItems == [kind : MessageKinds, id : 1 .. MaxMessages]

LEMMA TakesMessage ==
  ASSUME RInv, HandleIncomingMessage
  PROVE  (\E T \in SUBSET Subs, m \in StreamItems : Stream!Arrive(T, m)) \/ UNCHANGED Stream!vars
<1>1. /\ UNCHANGED <<eventQueue, overflowClosed, tasks, dispatcher, task, callbacks, session>>
      /\ stage = "idle" /\ session = "live" /\ inbox # <<>>
  BY DEF HandleIncomingMessage, entryVars, dispatcherVars, history
<1>2. \A r \in Subs : /\ Waiting(r)' = Waiting(r) /\ Telling(r)' = Telling(r) /\ Told(r)' = Told(r)
  BY <1>1 DEF Waiting, QueuedEvents, PostedCallbacks, Draining, Telling, CallbackKind, Told
<1>3. SameWaiting /\ SameTelling /\ SameTold /\ SameSession
  BY <1>1, <1>2 DEF SameWaiting, SameTelling, SameTold, SameSession
<1>4. CASE UNCHANGED receiverVars
  <2>1. SameArriving
    BY <1>4 DEF receiverVars, SameArriving, Arriving, PostedKind
  <2> QED BY <1>1, <1>3, <2>1, StreamStutters
<1>5. CASE /\ handling' = Head(inbox) /\ targets' = Collected(Head(inbox))
           /\ stage' = FirstStage(Head(inbox))
  <2> DEFINE m == Shown(Head(inbox))
  <2>1. TypeOK /\ ThreadsFit /\ InboxInOrder /\ \A r \in Subs : HandlesNewest(r)
    BY DEF RInv, StreamInv
  <2>2. Head(inbox) \in Message /\ handling \in Message /\ Head(inbox) = inbox[1] /\ 1 \in DOMAIN inbox
    BY <1>1, <2>1 DEF TypeOK, RelayTypes, ReceiverTypes
  <2>3. Head(inbox).kind \in MessageKinds /\ Head(inbox).id \in Nat /\ handling.id \in Nat
    BY <2>2 DEF Message
  <2>4. handling.id < Head(inbox).id /\ Head(inbox).id <= emitted /\ emitted <= MaxMessages
    BY <2>1, <2>2 DEF InboxInOrder
  <2>5. Head(inbox).id \in 1 .. MaxMessages
    BY <2>1, <2>3, <2>4, SubscriptionsAssumption DEF TypeOK, RelayTypes, SubscriptionsAssumption
  <2>6. m \in StreamItems /\ m.id = Head(inbox).id /\ m.kind = Head(inbox).kind
    BY <2>3, <2>5 DEF StreamItems, Shown
  <2>7. targets' \in SUBSET Subs
    BY <1>5, <2>1 DEF Collected, TypeOK, EntryTypes
  <2>8. \A r \in Subs : Arriving(r) = {}
    BY <1>1, <2>1 DEF ThreadsFit, Arriving
  <2>9. ASSUME NEW r \in Subs PROVE Arriving(r)' = IF r \in targets' THEN {m} ELSE {}
    <3>1. stage' \notin {"schedule", "unschedule"} /\ (stage' = "enqueue" <=> handling'.kind = "EVENT")
      BY <1>5, <2>3 DEF FirstStage, MessageKinds
    <3>2. m = [kind |-> handling'.kind, id |-> handling'.id]
      BY <1>5 DEF Shown
    <3> QED BY <3>1, <3>2 DEF Arriving, PostedKind
  <2>10. \A r \in Subs : \A n \in HeardOf(r) : n.id < m.id
    <3>1. ASSUME NEW r \in Subs, NEW n \in HeardOf(r) PROVE n.id < m.id
      <4>1. n.id \in Nat /\ n.id <= handling.id
        BY <2>1, HeardIsOlder
      <4> QED BY <2>3, <2>4, <2>6, <4>1
    <3> QED BY <3>1
  <2> HIDE DEF m
  <2>11. \A T \in SUBSET Subs : T = targets' => Stream!Arrive(T, m)
    <3>1. SUFFICES ASSUME NEW T \in SUBSET Subs, T = targets' PROVE Stream!Arrive(T, m)
      OBVIOUS
    <3> QED BY <1>1, <1>3, <2>8, <2>9, <2>10, <3>1, StreamArrives
  <2> QED BY <2>6, <2>7, <2>11
<1> QED BY <1>4, <1>5 DEF HandleIncomingMessage

LEMMA QueuesEvent ==
  ASSUME RInv, NEW s \in Subs, EnqueueEvent(s)
  PROVE  \E m \in Arriving(s) : Stream!Accept(s, m) \/ Stream!Overflow(s, m) \/ Stream!Refuse(s, m)
<1> DEFINE m == [kind |-> "EVENT", id |-> handling.id]
           q == eventQueue[s]
<1>1. /\ UNCHANGED <<tasks, dispatcher, task, callbacks, session, handling>>
      /\ stage = "enqueue" /\ handling.sub = s
  BY DEF EnqueueEvent, dispatcherVars, history
<1>2. TypeOK /\ ThreadsFit /\ StreamInv(s)
  BY DEF RInv
<1>3. handling.kind = "EVENT" /\ targets = {s} /\ session # "gone"
  BY <1>1, <1>2 DEF ThreadsFit
<1>4. Arriving(s) = {m}
  BY <1>1, <1>3 DEF Arriving
<1>5. q \in Seq(Nat) /\ Sorted(q) /\ handling.id \in Nat
  BY <1>2 DEF TypeOK, EntryTypes, ReceiverTypes, Message, StreamInv, WaitInOrder
<1>6. targets' \subseteq {s}
  BY <1>1, <1>3, <1>2, QueueStep
<1>7. \A r \in Subs \ {s} : Arriving(r)' = Arriving(r)
  BY <1>3, <1>6 DEF Arriving
<1>8. \A r \in Subs : PostedCallbacks(r)' = PostedCallbacks(r) /\ Telling(r)' = Telling(r) /\ Told(r)' = Told(r)
                      /\ (Draining(r)' <=> Draining(r))
  BY <1>1 DEF PostedCallbacks, Telling, CallbackKind, Told, Draining
<1>9. SameTelling /\ SameTold /\ SameSession
  BY <1>1, <1>8 DEF SameTelling, SameTold, SameSession
<1>10. \A r \in Subs \ {s} : Waiting(r)' = Waiting(r)
  <2>1. \A r \in Subs \ {s} : eventQueue'[r] = eventQueue[r]
    BY <1>2, QueueStep
  <2> QED BY <1>8, <1>9, <2>1, SameWaitingOf
<1>11. /\ Waiting(s) = EventsOf(Range(q)) \union PostedCallbacks(s)
       /\ Waiting(s)' = EventsOf(Range(eventQueue'[s])) \union PostedCallbacks(s)
  <2>1. QueuedEvents(s)' = EventsOf(Range(eventQueue'[s]))
    BY <1>1, <1>3 DEF QueuedEvents, EventsOf, Range
  <2> QED BY <1>3, <1>8, <2>1, WaitingIs DEF Waiting
<1>12. Stream!AtLimit(s) <=> IsFull(q)
  BY <1>2, <1>3, <1>5, AtLimitIsFull
<1>13. Stream!Events(Waiting(s)) = EventsOf(Range(q)) /\ EventsOf(Range(q)) \intersect PostedCallbacks(s) = {}
  BY <1>2, <1>3, WaitingKinds, WaitingIs
<1>14. m.kind = "EVENT" /\ [m EXCEPT !.kind = "CLOSED"] = [kind |-> "CLOSED", id |-> handling.id]
  OBVIOUS
<1>15. CASE /\ eventQueue' = eventQueue /\ targets' = {}
            /\ overflowClosed' = overflowClosed /\ overflowClosed[s]
  <2>1. Arriving(s)' = {}
    BY <1>15 DEF Arriving
  <2>2. SameWaiting
    BY <1>8, <1>9, <1>15, SameWaitingOf DEF SameWaiting
  <2>3. Stream!Refuse(s, m)
    <3> HIDE DEF m
    <3> QED BY <1>7, <1>9, <1>14, <1>15, <2>1, <2>2, StreamRefuses
  <2> QED BY <1>4, <2>3
<1>16. CASE /\ eventQueue'[s] = <<>> /\ stage' = "close" /\ targets' = targets /\ Throws
            /\ IsFull(q) /\ ~overflowClosed[s] /\ overflowClosed' = [overflowClosed EXCEPT ![s] = TRUE]
  <2>1. Arriving(s)' = {[m EXCEPT !.kind = "CLOSED"]}
    BY <1>1, <1>3, <1>14, <1>16 DEF Arriving, PostedKind
  <2>2. EventsOf(Range(eventQueue'[s])) = {}
    BY <1>16, EmptyRange DEF EventsOf
  <2>3. Waiting(s)' = Waiting(s) \ Stream!Events(Waiting(s))
    BY <1>11, <1>13, <2>2
  <2>4. Stream!Overflow(s, m)
    <3> HIDE DEF m
    <3> QED BY <1>7, <1>9, <1>10, <1>12, <1>14, <1>16, <2>1, <2>3, StreamOverflows
  <2> QED BY <1>4, <2>4
<1>17. CASE /\ eventQueue'[s] = Append(MakeRoom(q), handling.id)
            /\ ~overflowClosed[s] /\ overflowClosed' = overflowClosed /\ ~(Throws /\ IsFull(q))
            /\ stage' = "schedule" \/ targets' = {}
  <2>1. Arriving(s)' = {}
    BY <1>17 DEF Arriving
  <2>2. ~Stream!IsClosed(s)
    <3>1. ASSUME ~MayUpdate, NEW n \in HeardOf(s), n.kind = "CLOSED" PROVE FALSE
      <4>1. ClosedPosted(s)
        BY <1>2, <3>1, ClosedHeard
      <4>2. ClosedEnds(s)
        BY <1>2, <1>17, <3>1 DEF StreamInv, EndInv
      <4> QED BY <1>1, <4>1, <4>2 DEF ClosedEnds
    <3>2. Stream!Heard(s) = HeardOf(s)
      BY DEF Stream!Heard, HeardOf, Waiting, Told
    <3> QED BY <3>1, <3>2 DEF Stream!IsClosed
  <2>3. EventsOf(Range(eventQueue'[s])) = {m} \union EventsOf(Range(MakeRoom(q)))
    <3>1. MakeRoom(q) \in Seq(Nat)
      BY <1>5, MakeRoomKeeps
    <3>2. Range(eventQueue'[s]) = Range(MakeRoom(q)) \union {handling.id}
      BY <1>5, <1>17, <3>1, AppendRange
    <3> QED BY <3>2 DEF EventsOf
  <2>4. CASE IsFull(q)
    <3>1. q # <<>> /\ MakeRoom(q) = Tail(q)
      BY <1>5, <2>4, MakeRoomKeeps
    <3>2. /\ Range(MakeRoom(q)) = Range(q) \ {Head(q)}
          /\ Stream!Oldest(EventsOf(Range(q))) = {[kind |-> "EVENT", id |-> Head(q)]} /\ Head(q) \in Range(q)
      BY <1>5, <3>1, TailOfSorted
    <3>3. /\ EventsOf(Range(MakeRoom(q))) = EventsOf(Range(q)) \ Stream!Oldest(EventsOf(Range(q)))
          /\ Stream!Oldest(EventsOf(Range(q))) \subseteq EventsOf(Range(q))
      BY <3>2 DEF EventsOf
    <3>4. Waiting(s)' = {m} \union (Waiting(s) \ Stream!Oldest(Stream!Events(Waiting(s))))
      <4> HIDE DEF m
      <4>1. Stream!Oldest(EventsOf(Range(q))) \intersect PostedCallbacks(s) = {}
        BY <1>13, <3>3
      <4> QED BY <1>11, <1>13, <2>3, <3>3, <4>1
    <3>5. Stream!Accept(s, m)
      <4> HIDE DEF m, q
      <4> QED BY <1>7, <1>9, <1>10, <1>12, <1>14, <1>17, <2>1, <2>2, <2>4, <3>4, StreamAccepts
    <3> QED BY <1>4, <3>5
  <2>5. CASE ~IsFull(q)
    <3>1. MakeRoom(q) = q
      BY <1>5, <2>5, MakeRoomKeeps
    <3>2. Waiting(s)' = {m} \union Waiting(s)
      <4> HIDE DEF m
      <4> QED BY <1>11, <2>3, <3>1
    <3>3. Stream!Accept(s, m)
      <4> HIDE DEF m, q
      <4> QED BY <1>7, <1>9, <1>10, <1>12, <1>14, <1>17, <2>1, <2>2, <2>5, <3>2, StreamAccepts
    <3> QED BY <1>4, <3>3
  <2> QED BY <2>4, <2>5
<1> QED BY <1>2, <1>15, <1>16, <1>17, QueueStep

LEMMA PostsCallback ==
  ASSUME RInv, NEW s \in Subs, PostCallback(s) PROVE \E m \in Arriving(s) : Stream!Accept(s, m)
<1> DEFINE m == [kind |-> PostedKind, id |-> handling.id]
           new == [kind |-> PostedKind, sub |-> s, id |-> handling.id]
<1>1. /\ UNCHANGED <<eventQueue, overflowClosed, dispatcher, task, callbacks, session, handling>>
      /\ stage = "post" /\ s \in targets /\ targets' = targets \ {s}
      /\ stage' = IF targets' = {} THEN "idle" ELSE "post"
  BY DEF PostCallback, entryVars, history
<1>2. TypeOK
  BY DEF RInv
<1>3. Arriving(s) = {m}
  BY <1>1 DEF Arriving
<1>4. Arriving(s)' = {} /\ \A r \in Subs \ {s} : Arriving(r)' = Arriving(r)
  BY <1>1 DEF Arriving, PostedKind
<1>5. m.kind # "EVENT"
  BY DEF PostedKind
<1>6. Range(tasks)' = Range(tasks) \union {new} /\ \A r \in Subs : IsPosted(new, r) <=> r = s
  BY <1>2, TaskPosted
<1>7. Shown(new) = m
  BY DEF Shown
<1> HIDE DEF m, new
<1>8. ASSUME NEW r \in Subs
      PROVE  /\ PostedCallbacks(r)' = PostedCallbacks(r) \union (IF r = s THEN {m} ELSE {})
             /\ QueuedEvents(r)' = QueuedEvents(r)
  <2>1. PostedCallbacks(r)' = {Shown(t) : t \in {t \in Range(tasks)' : IsPosted(t, r)}}
    BY DEF PostedCallbacks, Shown, IsPosted
  <2>2. PostedCallbacks(r)' = PostedCallbacks(r) \union (IF r = s THEN {m} ELSE {})
    <3>1. CASE r = s
      BY <1>6, <1>7, <2>1, <3>1, WaitingIs
    <3>2. CASE r # s
      BY <1>6, <2>1, <3>2, WaitingIs
    <3> QED BY <3>1, <3>2
  <2>3. QueuedEvents(r)' = QueuedEvents(r)
    BY <1>1 DEF QueuedEvents, Draining
  <2> QED BY <2>2, <2>3
<1>9. Waiting(s)' = {m} \union Waiting(s) /\ \A r \in Subs \ {s} : Waiting(r)' = Waiting(r)
  BY <1>8 DEF Waiting
<1>10. SameTelling /\ SameTold /\ SameSession
  BY <1>1 DEF SameTelling, SameTold, SameSession, Telling, CallbackKind, Told
<1>11. Stream!Accept(s, m)
  BY <1>1, <1>4, <1>5, <1>9, <1>10, StreamAccepts
<1> QED BY <1>3, <1>11

LEMMA TakesTask ==
  ASSUME RInv, TakeTask
  PROVE  (\E s \in Subs : \E m \in Waiting(s) : Stream!BeginTell(s, m)) \/ UNCHANGED Stream!vars
<1>1. /\ UNCHANGED <<eventQueue, overflowClosed, callbacks, session, stage, handling, targets>>
      /\ dispatcher = "idle" /\ tasks # <<>> /\ tasks' = Tail(tasks)
  BY DEF TakeTask, entryVars, receiverVars, history
<1>2. TypeOK /\ \A s \in Subs : StreamInv(s)
  BY DEF RInv
<1>3. Range(tasks) = {task'} \union Range(tasks)' /\ task' \in Task /\ task' = Head(tasks)
  BY <1>2, TasksTail
<1>4. task'.sub \in Subs
  BY <1>3 DEF Task
<1>5. SameArriving /\ SameTold /\ SameSession /\ \A r \in Subs : Telling(r) = {} /\ ~Draining(r)
  BY <1>1 DEF SameArriving, SameTold, SameSession, Arriving, PostedKind, Told, Telling, Draining
<1>6. ASSUME NEW r \in Subs
      PROVE  PostedCallbacks(r) = PostedCallbacks(r)' \union (IF IsPosted(task', r) THEN {Shown(task')} ELSE {})
  <2>1. PostedCallbacks(r)' = {Shown(t) : t \in {t \in Range(tasks)' : IsPosted(t, r)}}
    BY DEF PostedCallbacks, Shown, IsPosted
  <2>2. CASE IsPosted(task', r)
    BY <1>3, <2>1, <2>2, WaitingIs
  <2>3. CASE ~IsPosted(task', r)
    BY <1>3, <2>1, <2>3, WaitingIs
  <2> QED BY <2>2, <2>3
<1>7. ASSUME NEW r \in Subs PROVE QueuedEvents(r)' = QueuedEvents(r)
  <2>1. session = "gone" => ~Draining(r)'
    BY <1>3, TakeTask DEF TakeTask, Draining
  <2> QED BY <1>1, <1>5, <2>1 DEF QueuedEvents
<1>8. CASE task'.kind = "drain"
  <2>1. \A r \in Subs : ~IsPosted(task', r)
    BY <1>8 DEF IsPosted
  <2>2. SameWaiting
    BY <1>6, <1>7, <2>1 DEF SameWaiting, Waiting
  <2>3. dispatcher' # "invoke"
    <3>1. Head(tasks).kind = "drain"
      BY <1>3, <1>8
    <3>2. dispatcher' = IF session = "gone" THEN "idle" ELSE "pop"
      BY <3>1 DEF TakeTask
    <3> QED BY <3>2
  <2>4. SameTelling
    BY <1>5, <2>3 DEF SameTelling, Telling
  <2> QED BY <1>1, <1>5, <2>2, <2>4, StreamStutters
<1>9. CASE task'.kind # "drain"
  <2> DEFINE m == Shown(task')
  <2>1. dispatcher' = "invoke"
    <3>1. Head(tasks).kind # "drain"
      BY <1>3, <1>9
    <3>2. dispatcher' = IF Head(tasks).kind # "drain" THEN "invoke"
                        ELSE IF session = "gone" THEN "idle" ELSE "pop"
      BY DEF TakeTask
    <3> QED BY <3>1, <3>2
  <2>2. \A r \in Subs : IsPosted(task', r) <=> r = task'.sub
    BY <1>9 DEF IsPosted
  <2>3. \A r \in Subs : Telling(r)' = IF r = task'.sub THEN {m} ELSE {}
    BY <1>9, <2>1 DEF Telling, CallbackKind, Shown
  <2>4. SUFFICES ASSUME NEW s \in Subs, s = task'.sub
                 PROVE  \E n \in Waiting(s) : Stream!BeginTell(s, n)
    BY <1>4
  <2>5. m.kind = task'.kind /\ m.id = task'.id
    BY DEF Shown
  <2>6. /\ 1 \in DOMAIN tasks /\ task' = tasks[1] /\ DOMAIN tasks \subseteq Nat
        /\ \A i \in DOMAIN tasks' : i + 1 \in DOMAIN tasks /\ 1 < i + 1 /\ tasks'[i] = tasks[i + 1]
    BY <1>1, <1>2, <1>3, TailAt
  <2>7. ASSUME NEW t \in Range(tasks)', IsPosted(t, s) PROVE m.id < t.id /\ m.id \in Nat /\ t.id \in Nat
    <3>1. PICK i \in DOMAIN tasks' : t = tasks'[i]
      BY <2>7 DEF Range
    <3>2. tasks[1].id < tasks[i + 1].id
      BY <1>2, <2>2, <2>4, <2>6, <2>7, <3>1 DEF StreamInv, WaitInOrder
    <3>3. t \in Task
      BY <1>2, <1>3, WaitingKinds
    <3> QED BY <1>3, <2>5, <2>6, <3>1, <3>2, <3>3 DEF Task
  <2>8. m \notin PostedCallbacks(s)'
    <3>1. PostedCallbacks(s)' = {Shown(t) : t \in {t \in Range(tasks)' : IsPosted(t, s)}}
      BY DEF PostedCallbacks, Shown, IsPosted
    <3>2. ASSUME NEW t \in Range(tasks)', IsPosted(t, s), Shown(t) = m PROVE FALSE
      <4>1. t.id = m.id
        BY <2>5, <3>2 DEF Shown
      <4> QED BY <2>7, <3>2, <4>1
    <3> QED BY <3>1, <3>2
  <2>9. m \in PostedCallbacks(s) /\ PostedCallbacks(s)' = PostedCallbacks(s) \ {m}
    <3> HIDE DEF m
    <3>1. PostedCallbacks(s) = PostedCallbacks(s)' \union {m}
      BY <1>6, <2>2, <2>4 DEF m
    <3> QED BY <2>8, <3>1
  <2>10. m \notin QueuedEvents(s)
    BY <1>2, <2>9, WaitingKinds
  <2>11. m \in Waiting(s) /\ Waiting(s)' = Waiting(s) \ {m}
    <3> HIDE DEF m
    <3> QED BY <1>7, <2>9, <2>10 DEF Waiting
  <2>12. \A r \in Subs \ {s} : Waiting(r)' = Waiting(r)
    BY <1>6, <1>7, <2>2, <2>4 DEF Waiting
  <2>13. ASSUME NEW n \in PostedCallbacks(s) PROVE ~(n.id < m.id)
    <3>1. CASE n = m
      <4>1. m.id \in Nat
        BY <1>3, <2>5 DEF Task
      <4> QED BY <3>1, <4>1
    <3>2. CASE n # m
      <4>1. n \in PostedCallbacks(s)'
        BY <2>9, <2>13, <3>2
      <4>2. PICK t \in Range(tasks)' : IsPosted(t, s) /\ n = Shown(t)
        BY <4>1 DEF PostedCallbacks, Shown, IsPosted
      <4>3. n.id = t.id
        BY <4>2 DEF Shown
      <4> QED BY <2>7, <4>2, <4>3
    <3> QED BY <3>1, <3>2
  <2>14. ASSUME NEW n \in QueuedEvents(s) PROVE ~(n.id < m.id)
    <3>1. n.id \in Range(eventQueue[s]) /\ session # "gone"
      BY <1>2, <1>5, <2>14, WaitingKinds, WaitingIs
    <3>2. ASSUME n.id < m.id PROVE Draining(s) \/ \E j \in DOMAIN tasks : j < 1 /\ IsDrain(tasks[j], s)
      BY <1>2, <2>2, <2>4, <2>5, <2>6, <3>1, <3>2 DEF StreamInv, DrainComesFirst
    <3>3. \A j \in DOMAIN tasks : ~(j < 1)
      <4>1. tasks \in Seq(Task)
        BY <1>2 DEF TypeOK, DispatcherTypes
      <4> QED BY <4>1
    <3> QED BY <1>5, <3>2, <3>3
  <2>15. \A n \in Waiting(s) : n.id < m.id => m.kind = "EVENT" /\ n.kind # "EVENT"
    <3> HIDE DEF m
    <3> QED BY <2>13, <2>14 DEF Waiting
  <2>16. Stream!BeginTell(s, m)
    <3> HIDE DEF m
    <3>1. Telling(s)' = {m} /\ \A r \in Subs \ {s} : Telling(r)' = Telling(r)
      BY <1>5, <2>3, <2>4
    <3> QED BY <1>1, <1>5, <2>11, <2>12, <2>15, <3>1, StreamTells
  <2> QED BY <2>11, <2>16
<1> QED BY <1>8, <1>9

LEMMA PopsEvent ==
  ASSUME RInv, NEW s \in Subs, PopEvent(s)
  PROVE  (\E m \in Waiting(s) : Stream!BeginTell(s, m)) \/ UNCHANGED Stream!vars
<1> DEFINE q == eventQueue[s]
           m == [kind |-> "EVENT", id |-> Head(q)]
<1>1. /\ UNCHANGED <<overflowClosed, tasks, callbacks, session, stage, handling, targets>>
      /\ dispatcher = "pop" /\ task.sub = s
  BY DEF PopEvent, receiverVars, history
<1>2. TypeOK /\ ThreadsFit /\ StreamInv(s)
  BY DEF RInv
<1>3. task \in Task /\ task.kind = "drain" /\ Draining(s) /\ \A r \in Subs \ {s} : ~Draining(r)
  BY <1>1, <1>2 DEF TypeOK, DispatcherTypes, ThreadsFit, Draining
<1>4. \A r \in Subs : PostedCallbacks(r)' = PostedCallbacks(r)
  BY <1>1 DEF PostedCallbacks
<1>5. SameArriving /\ SameTold /\ SameSession /\ \A r \in Subs : Telling(r) = {}
  BY <1>1 DEF SameArriving, SameTold, SameSession, Arriving, PostedKind, Told, Telling
<1>6. CASE q # <<>> /\ ~overflowClosed[s]
  <2>1. /\ eventQueue' = [eventQueue EXCEPT ![s] = Tail(@)]
        /\ task' = [task EXCEPT !.id = Head(q)] /\ dispatcher' = "invoke"
    BY <1>6 DEF PopEvent, Popped
  <2>2. q \in Seq(Nat) /\ Sorted(q)
    BY <1>2 DEF TypeOK, EntryTypes, StreamInv, WaitInOrder
  <2>3. /\ Head(q) \in Range(q) /\ Range(Tail(q)) = Range(q) \ {Head(q)}
        /\ \A n \in Range(q) : n \in Nat /\ Head(q) <= n
    BY <1>6, <2>2, TailOfSorted
  <2>4. eventQueue'[s] = Tail(q) /\ \A r \in Subs \ {s} : eventQueue'[r] = eventQueue[r]
    BY <1>2, <2>1 DEF TypeOK, EntryTypes
  <2>5. task'.kind = "drain" /\ task'.sub = s /\ task'.id = Head(q)
    BY <1>1, <1>3, <2>1 DEF Task
  <2>6. Draining(s)' /\ \A r \in Subs \ {s} : ~Draining(r)'
    BY <2>1, <2>5 DEF Draining
  <2>7. QueuedEvents(s) = EventsOf(Range(q)) /\ QueuedEvents(s)' = EventsOf(Range(q) \ {Head(q)})
    <3>1. QueuedEvents(s)' = EventsOf(Range(eventQueue'[s]))
      BY <2>6 DEF QueuedEvents, EventsOf, Range
    <3> QED BY <1>3, <2>3, <2>4, <3>1, WaitingIs
  <2>8. m \in QueuedEvents(s) /\ QueuedEvents(s)' = QueuedEvents(s) \ {m}
    BY <2>3, <2>7 DEF EventsOf
  <2>9. m \notin PostedCallbacks(s)
    BY <1>2, <2>8, WaitingKinds
  <2>10. m.id = Head(q) /\ m.kind = "EVENT"
    OBVIOUS
  <2>11. Telling(s)' = {m} /\ \A r \in Subs \ {s} : Telling(r)' = {}
    BY <2>1, <2>5 DEF Telling, CallbackKind
  <2> HIDE DEF m
  <2>12. m \in Waiting(s) /\ Waiting(s)' = Waiting(s) \ {m}
    BY <1>4, <2>8, <2>9 DEF Waiting
  <2>13. \A r \in Subs \ {s} : Waiting(r)' = Waiting(r)
    BY <1>3, <1>4, <1>5, <2>4, <2>6, SameWaitingOf
  <2>14. ASSUME NEW n \in Waiting(s), n.id < m.id PROVE n.kind # "EVENT"
    <3>1. CASE n \in QueuedEvents(s)
      <4>1. n.id \in Range(q)
        BY <1>2, <3>1, WaitingKinds
      <4>2. ~(n.id < Head(q))
        BY <2>3, <4>1
      <4> QED BY <2>10, <2>14, <4>2
    <3>2. CASE n \in PostedCallbacks(s)
      BY <1>2, <3>2, WaitingKinds
    <3> QED BY <2>14, <3>1, <3>2 DEF Waiting
  <2>15. Stream!BeginTell(s, m)
    BY <1>1, <1>5, <2>10, <2>11, <2>12, <2>13, <2>14, StreamTells
  <2> QED BY <2>12, <2>15
<1>7. CASE ~(q # <<>> /\ ~overflowClosed[s])
  <2>1. UNCHANGED <<eventQueue, task>> /\ dispatcher' = "idle"
    BY <1>7 DEF PopEvent
  <2>2. q = <<>>
    BY <1>2, <1>7 DEF StreamInv, DrainInv
  <2>3. QueuedEvents(s) = {} /\ QueuedEvents(s)' = {}
    BY <2>1, <2>2 DEF QueuedEvents
  <2>4. \A r \in Subs \ {s} : ~Draining(r)'
    BY <2>1 DEF Draining
  <2>5. \A r \in Subs \ {s} : Waiting(r)' = Waiting(r)
    BY <1>3, <1>4, <1>5, <2>1, <2>4, SameWaitingOf
  <2>6. SameWaiting
    BY <1>4, <2>3, <2>5 DEF SameWaiting, Waiting
  <2>7. SameTelling
    BY <1>5, <2>1 DEF SameTelling, Telling
  <2> QED BY <1>1, <1>5, <2>6, <2>7, StreamStutters
<1> QED BY <1>6, <1>7

LEMMA TellsCallback ==
  ASSUME RInv, NEW s \in Subs, Invoke(s) PROVE \E m \in Telling(s) : Stream!EndTell(s, m)
<1> DEFINE m == [kind |-> CallbackKind, id |-> task.id]
           made == [kind |-> CallbackKind, sub |-> s, id |-> task.id]
<1>1. /\ UNCHANGED <<eventQueue, overflowClosed, tasks, task, session, stage, handling, targets>>
      /\ dispatcher = "invoke" /\ task.sub = s /\ callbacks' = [callbacks EXCEPT ![s] = Append(@, made)]
      /\ dispatcher' = IF task.kind = "drain" THEN "pop" ELSE "idle"
  BY DEF Invoke, entryVars, receiverVars
<1>2. TypeOK /\ made \in Message /\ callbacks \in [Subs -> Seq(Message)]
  BY ToldIsMessage DEF RInv, TypeOK, HistoryTypes
<1>3. Telling(s) = {m} /\ \A r \in Subs : Telling(r)' = {} /\ (r # s => Telling(r) = {})
  BY <1>1 DEF Telling
<1>4. callbacks'[s] = Append(callbacks[s], made) /\ \A r \in Subs \ {s} : callbacks'[r] = callbacks[r]
  BY <1>1, <1>2
<1>5. \A r \in Subs \ {s} : Told(r)' = Told(r)
  BY <1>4 DEF Told
<1>6. Told(s)' = Append(Told(s), m)
  <2> DEFINE old == callbacks[s]
             q == Append(old, made)
  <2>1. /\ old \in Seq(Message) /\ DOMAIN old = 1..Len(old) /\ Len(old) \in Nat
        /\ DOMAIN q = 1..(Len(old) + 1) /\ q[Len(old) + 1] = made
        /\ \A i \in DOMAIN old : q[i] = old[i]
    BY <1>2
  <2>2. Told(s)' = [i \in DOMAIN q |-> [kind |-> q[i].kind, id |-> q[i].id]]
    BY <1>4 DEF Told
  <2>3. Told(s) = [i \in DOMAIN old |-> [kind |-> old[i].kind, id |-> old[i].id]]
    BY DEF Told
  <2> DEFINE t == [i \in DOMAIN old |-> [kind |-> old[i].kind, id |-> old[i].id]]
             tt == [i \in DOMAIN q |-> [kind |-> q[i].kind, id |-> q[i].id]]
  <2>4. made.kind = m.kind /\ made.id = m.id /\ m = [kind |-> m.kind, id |-> m.id]
    OBVIOUS
  <2>5. t \in Seq({t[i] : i \in DOMAIN t} \union {m}) /\ Len(t) = Len(old)
    BY <2>1
  <2>6. tt[Len(old) + 1] = m /\ \A i \in DOMAIN old : tt[i] = t[i]
    BY <2>1, <2>4
  <2>7. DOMAIN tt = 1..(Len(old) + 1) /\ DOMAIN t = 1..Len(old) /\ tt = [i \in DOMAIN tt |-> tt[i]]
    BY <2>1
  <2>8. tt = Append(t, m)
    <3> HIDE DEF t, tt, m, made, old, q
    <3> DEFINE S == {t[i] : i \in DOMAIN t} \union {m}
    <3>1. /\ Append(t, m) \in Seq(S) /\ Len(Append(t, m)) = Len(old) + 1
          /\ Append(t, m)[Len(old) + 1] = m /\ \A i \in DOMAIN old : Append(t, m)[i] = t[i]
      BY <2>1, <2>5
    <3>2. \A i \in 1..(Len(old) + 1) : i \in DOMAIN old \/ i = Len(old) + 1
      BY <2>1
    <3>3. \A i \in 1..(Len(old) + 1) : tt[i] \in S /\ tt[i] = Append(t, m)[i]
      BY <2>1, <2>6, <2>7, <3>1, <3>2
    <3>4. tt \in Seq(S) /\ Len(tt) = Len(old) + 1
      <4> HIDE DEF S
      <4> QED BY <2>1, <2>7, <3>3
    <3> QED
      <4> HIDE DEF S
      <4> QED BY <3>1, <3>3, <3>4, SeqEqual
  <2> QED BY <2>2, <2>3, <2>8
<1>7. SameArriving /\ SameSession
  BY <1>1 DEF SameArriving, SameSession, Arriving, PostedKind
<1>8. \A r \in Subs : Draining(r)' <=> Draining(r)
  BY <1>1 DEF Draining
<1>9. \A r \in Subs : PostedCallbacks(r)' = PostedCallbacks(r)
  BY <1>1 DEF PostedCallbacks
<1>10. SameWaiting
  BY <1>1, <1>7, <1>8, <1>9, SameWaitingOf DEF SameWaiting
<1>11. ASSUME NEW n, n = m PROVE Stream!EndTell(s, n)
  <2>1. Telling(s)' = {} /\ \A r \in Subs \ {s} : Telling(r)' = Telling(r)
    BY <1>3
  <2>2. Told(s)' = Append(Told(s), n) /\ overflowClosed' = overflowClosed
    BY <1>1, <1>6, <1>11
  <2> HIDE DEF m, made
  <2> QED BY <1>5, <1>7, <1>10, <2>1, <2>2, StreamTold
<1>12. PICK n : n = m
  OBVIOUS
<1> QED
  <2>1. n \in Telling(s)
    BY <1>3, <1>12
  <2>2. Stream!EndTell(s, n)
    BY <1>11, <1>12
  <2> QED BY <2>1, <2>2

LEMMA SessionGoes ==
  ASSUME RInv, ReleaseSession PROVE \E lost \in SUBSET Subs : Stream!Abandon(lost)
<1> DEFINE lost == {r \in Subs : ~Draining(r)}
<1>1. /\ UNCHANGED <<eventQueue, overflowClosed, tasks, dispatcher, task, callbacks, stage, handling, targets>>
      /\ session = "stopping" /\ session' = "gone" /\ stage = "idle"
  BY DEF ReleaseSession, entryVars, receiverVars, dispatcherVars, history
<1>2. TypeOK /\ targets = {}
  BY <1>1 DEF RInv, ThreadsFit
<1>3. SameArriving /\ SameTelling /\ SameTold /\ \A r \in Subs : Arriving(r) = {}
  BY <1>1, <1>2 DEF SameArriving, SameTelling, SameTold, Arriving, PostedKind, Telling, CallbackKind, Told
<1>4. ASSUME NEW r \in Subs
      PROVE  Waiting(r)' = IF r \in lost THEN Waiting(r) \ Stream!Events(Waiting(r)) ELSE Waiting(r)
  <2>1. PostedCallbacks(r)' = PostedCallbacks(r) /\ (Draining(r)' <=> Draining(r))
    BY <1>1 DEF PostedCallbacks, Draining
  <2>2. QueuedEvents(r)' = IF ~Draining(r) THEN {} ELSE QueuedEvents(r)
    BY <1>1, <2>1 DEF QueuedEvents
  <2>3. Stream!Events(Waiting(r)) = QueuedEvents(r) /\ QueuedEvents(r) \intersect PostedCallbacks(r) = {}
    BY <1>2, WaitingKinds
  <2>4. Waiting(r)' = PostedCallbacks(r) \union (IF ~Draining(r) THEN {} ELSE QueuedEvents(r))
    BY <2>1, <2>2 DEF Waiting
  <2>5. CASE r \in lost
    BY <2>3, <2>4, <2>5 DEF Waiting
  <2>6. CASE r \notin lost
    BY <2>4, <2>6 DEF Waiting
  <2> QED BY <2>5, <2>6
<1>5. Stream!Abandon(lost)
  <2>1. lost \in SUBSET Subs
    OBVIOUS
  <2> HIDE DEF lost
  <2> QED BY <1>1, <1>3, <1>4, <2>1, StreamIsAbandoned
<1> QED BY <1>5
-----------------------------------------------------------------------------
\* A step that leaves the queues, the tasks and the callbacks alone.
LEMMA NothingShown ==
  ASSUME UNCHANGED <<eventQueue, overflowClosed, tasks, dispatcher, task, callbacks>>, SameSession, SameArriving
  PROVE  UNCHANGED Stream!vars
<1>1. \A r \in Subs : PostedCallbacks(r)' = PostedCallbacks(r) /\ (Draining(r)' <=> Draining(r))
  BY DEF PostedCallbacks, Draining
<1>2. SameWaiting
  BY <1>1, SameWaitingOf DEF SameWaiting
<1>3. SameTelling /\ SameTold
  BY DEF SameTelling, SameTold, Telling, CallbackKind, Told
<1> QED BY <1>2, <1>3, StreamStutters

LEMMA DrainIsScheduled ==
  ASSUME RInv, NEW s \in Subs, ScheduleDrain(s) PROVE UNCHANGED Stream!vars
<1> DEFINE new == [kind |-> "drain", sub |-> s, id |-> handling.id]
<1>1. /\ UNCHANGED <<eventQueue, overflowClosed, dispatcher, task, callbacks, session>>
      /\ tasks' = Append(tasks, new) /\ stage = "schedule"
      /\ stage' = "unschedule" \/ targets' = {}
  BY DEF ScheduleDrain, Posted, entryVars, history
<1>2. TypeOK /\ new \in Task /\ new.kind = "drain"
  <2>1. TypeOK /\ handling \in Message
    BY DEF RInv, TypeOK, ReceiverTypes
  <2> QED BY <2>1 DEF Task, Message
<1>3. SameArriving
  BY <1>1 DEF SameArriving, Arriving
<1>4. SameTelling /\ SameTold /\ SameSession /\ \A r \in Subs : Draining(r)' <=> Draining(r)
  BY <1>1 DEF SameTelling, SameTold, SameSession, Telling, CallbackKind, Told, Draining
<1>5. Range(tasks)' = Range(tasks) \union {new}
  BY <1>1, <1>2, TasksAppend
<1>6. ASSUME NEW r \in Subs PROVE PostedCallbacks(r)' = PostedCallbacks(r)
  <2> HIDE DEF new
  <2>1. {t \in Range(tasks)' : t.kind # "drain" /\ t.sub = r} = {t \in Range(tasks) : t.kind # "drain" /\ t.sub = r}
    BY <1>2, <1>5
  <2> QED BY <2>1 DEF PostedCallbacks
<1>7. SameWaiting
  BY <1>1, <1>4, <1>6, SameWaitingOf DEF SameWaiting
<1> QED BY <1>1, <1>3, <1>4, <1>7, StreamStutters

LEMMA ReceiverIsUnseen ==
  ASSUME NEW s \in Subs,
         \/ UnscheduleDrain(s) \/ DispatchEndOfStoredEvents(s)
         \/ DispatchClosed(s) \/ ForgetCloseRequest(s)
  PROVE  UNCHANGED Stream!vars
<1>1. /\ UNCHANGED <<eventQueue, overflowClosed, tasks, dispatcher, task, callbacks, session, handling>>
      /\ \/ stage = "unschedule" /\ targets' = {}
         \/ stage = "activate" /\ stage' = "post" /\ targets' = targets
         \/ stage = "close" /\ stage' = "unrequest" /\ targets' = targets
         \/ stage = "unrequest" /\ stage' = "post" /\ targets' = targets
  BY DEF UnscheduleDrain, DispatchEndOfStoredEvents, DispatchClosed, ForgetCloseRequest,
     dispatcherVars, history
<1>2. SameArriving
  BY <1>1 DEF SameArriving, Arriving, PostedKind
<1> QED BY <1>1, <1>2, NothingShown DEF SameSession

LEMMA OthersAreUnseen ==
  ASSUME \/ \E s \in Subs, kind \in MessageKinds : RelaySends(s, kind)
         \/ \E u \in Users, s \in Subs : BeginOpen(u, s) \/ BeginUpdate(u, s) \/ BeginClose(u, s)
         \/ \E u \in Users : Continue(u)
         \/ StopReceiveLoop \/ UNCHANGED vars
  PROVE  UNCHANGED Stream!vars
<1> DEFINE Unseen ==
      /\ UNCHANGED <<eventQueue, overflowClosed, tasks, dispatcher, task, callbacks, stage, handling, targets>>
      /\ session' = session \/ (session = "live" /\ session' = "stopping")
<1>1. Unseen
  <2>1. ASSUME NEW s \in Subs, NEW kind \in MessageKinds, RelaySends(s, kind) PROVE Unseen
    BY <2>1 DEF RelaySends, entryVars, receiverVars, dispatcherVars, history
  <2>2. ASSUME NEW u \in Users, NEW s \in Subs, BeginOpen(u, s) \/ BeginUpdate(u, s) \/ BeginClose(u, s)
        PROVE  Unseen
    BY <2>2 DEF BeginOpen, BeginUpdate, BeginClose, entryVars, receiverVars, dispatcherVars, history
  <2>3. ASSUME NEW u \in Users, Continue(u) PROVE Unseen
    BY <2>3 DEF Continue, SendRequest, SendClose, EraseEntry, SetPending, RestoreStatus, entryVars,
       receiverVars, dispatcherVars, history
  <2>4. CASE StopReceiveLoop \/ UNCHANGED vars
    BY <2>4 DEF StopReceiveLoop, vars, entryVars, receiverVars, dispatcherVars, history
  <2> QED BY <2>1, <2>2, <2>3, <2>4
<1>2. SameArriving /\ SameSession
  BY <1>1 DEF SameArriving, SameSession, Arriving, PostedKind
<1> QED BY <1>1, <1>2, NothingShown
-----------------------------------------------------------------------------
(***************************************************************************)
(* The refinement: every step of the code is a step of the stream.         *)
(***************************************************************************)
StreamSteps ==
  \/ \E T \in SUBSET Subs, m \in StreamItems : Stream!Arrive(T, m)
  \/ \E s \in Subs :
       \/ \E m \in Arriving(s) : Stream!Accept(s, m) \/ Stream!Overflow(s, m) \/ Stream!Refuse(s, m)
       \/ \E m \in Waiting(s) : Stream!BeginTell(s, m)
       \/ \E m \in Telling(s) : Stream!EndTell(s, m)
  \/ \E lost \in SUBSET Subs : Stream!Abandon(lost)

LEMMA StreamNext == StreamSteps <=> Stream!Next
  BY DEF StreamSteps, Stream!Next, StreamItems, Waiting

LEMMA StepMaps == ASSUME RInv, [Next]_vars PROVE [Stream!Next]_(Stream!vars)
<1> SUFFICES StreamSteps \/ UNCHANGED Stream!vars
  BY StreamNext
<1>1. ASSUME HandleIncomingMessage PROVE StreamSteps \/ UNCHANGED Stream!vars
  BY <1>1, TakesMessage DEF StreamSteps
<1>2. ASSUME NEW s \in Subs, Handle(s) PROVE StreamSteps \/ UNCHANGED Stream!vars
  <2>1. CASE EnqueueEvent(s)
    BY <2>1, QueuesEvent DEF StreamSteps
  <2>2. CASE PostCallback(s)
    BY <2>2, PostsCallback DEF StreamSteps
  <2>3. CASE ScheduleDrain(s)
    BY <2>3, DrainIsScheduled
  <2>4. CASE UnscheduleDrain(s) \/ DispatchEndOfStoredEvents(s) \/ DispatchClosed(s) \/ ForgetCloseRequest(s)
    BY <2>4, ReceiverIsUnseen
  <2> QED BY <1>2, <2>1, <2>2, <2>3, <2>4 DEF Handle
<1>3. ASSUME TakeTask PROVE StreamSteps \/ UNCHANGED Stream!vars
  BY <1>3, TakesTask DEF StreamSteps
<1>4. ASSUME NEW s \in Subs, PopEvent(s) PROVE StreamSteps \/ UNCHANGED Stream!vars
  BY <1>4, PopsEvent DEF StreamSteps
<1>5. ASSUME NEW s \in Subs, Invoke(s) PROVE StreamSteps \/ UNCHANGED Stream!vars
  BY <1>5, TellsCallback DEF StreamSteps
<1>6. ASSUME ReleaseSession PROVE StreamSteps \/ UNCHANGED Stream!vars
  BY <1>6, SessionGoes DEF StreamSteps
<1>7. ASSUME \/ \E s \in Subs, kind \in MessageKinds : RelaySends(s, kind)
             \/ \E u \in Users : OpenSubscription(u) \/ UpdateFilters(u) \/ CloseSubscription(u) \/ Continue(u)
             \/ StopReceiveLoop \/ Done \/ UNCHANGED vars
      PROVE  StreamSteps \/ UNCHANGED Stream!vars
  BY <1>7, OthersAreUnseen DEF OpenSubscription, UpdateFilters, CloseSubscription, Done
<1> QED
  BY <1>1, <1>2, <1>3, <1>4, <1>5, <1>6, <1>7 DEF Next, ReceiveThread, DispatcherThread

LEMMA InitMaps == Init => Stream!Init
<1> SUFFICES ASSUME Init PROVE Stream!Init
  OBVIOUS
<1>1. /\ targets = {} /\ dispatcher = "idle" /\ session = "live" /\ tasks = <<>>
      /\ overflowClosed = [s \in Subs |-> FALSE]
      /\ \A s \in Subs : eventQueue[s] = <<>> /\ callbacks[s] = <<>>
  BY DEF Init
<1>2. \A s \in Subs : Arriving(s) = {} /\ Telling(s) = {}
  BY <1>1 DEF Arriving, Telling
<1>3. \A s \in Subs : QueuedEvents(s) = {} /\ PostedCallbacks(s) = {}
  BY <1>1, EmptyRange DEF QueuedEvents, PostedCallbacks
<1>4. \A s \in Subs : Told(s) = <<>>
  BY <1>1 DEF Told
<1> QED BY <1>1, <1>2, <1>3, <1>4 DEF Stream!Init, Told

LEMMA InitRInv == Init => RInv
<1> SUFFICES ASSUME Init PROVE RInv
  OBVIOUS
<1>1. TypeOK
  BY InitTypeOK
<1>2. /\ stage = "idle" /\ targets = {} /\ handling.id = 0 /\ emitted = 0 /\ inbox = <<>> /\ tasks = <<>>
      /\ dispatcher = "idle" /\ session = "live" /\ registered = {}
      /\ \A s \in Subs : /\ eventQueue[s] = <<>> /\ callbacks[s] = <<>> /\ relay[s] = "none"
                         /\ ~dispatchInProgress[s] /\ ~overflowClosed[s]
      /\ \A u \in Users : call[u] = "idle"
  BY DEF Init, NoMessage
<1>3. ThreadsFit /\ NoUpdate
  BY <1>2 DEF ThreadsFit, NoUpdate
<1>4. InboxInOrder
  BY <1>2, SubscriptionsAssumption DEF InboxInOrder, SubscriptionsAssumption
<1>5. ASSUME NEW s \in Subs PROVE StreamInv(s)
  <2>1. DrainInv(s)
    BY <1>2 DEF DrainInv
  <2>2. HandlesNewest(s)
    BY <1>2, EmptyRange DEF HandlesNewest, AreOlder, PostedIds, ToldIds
  <2>3. WaitInOrder(s) /\ DrainComesFirst(s)
    BY <1>2 DEF WaitInOrder, Sorted, DrainComesFirst
  <2>4. ~ClosedPosted(s)
    BY <1>2, EmptyRange DEF ClosedPosted
  <2>5. EndInv(s)
    BY <1>2, <2>4 DEF EndInv, NotAsked, OneAsking, Asking, ClosedEnds, NoneWaits, NoneBehind, ClosedWaits, ClosedHandled
  <2> QED BY <2>1, <2>2, <2>3, <2>5 DEF StreamInv
<1> QED BY <1>1, <1>3, <1>4, <1>5 DEF RInv

LEMMA RInvStep == RInv /\ [Next]_vars => RInv'
<1> SUFFICES ASSUME RInv, [Next]_vars PROVE RInv'
  OBVIOUS
<1>1. TypeOK /\ ThreadsFit /\ InboxInOrder /\ NoUpdate /\ \A s \in Subs : StreamInv(s)
  BY DEF RInv
<1>2. TypeOK'
  BY <1>1, EntryTypesStep, RelayTypesStep, ReceiverTypesStep, DispatcherTypesStep, UserTypesStep,
     HistoryTypesStep DEF TypeOK
<1>3. ThreadsFit' /\ InboxInOrder' /\ NoUpdate'
  BY <1>1, ThreadsFitStep, InboxInOrderStep, NoUpdateStep
<1>4. ASSUME NEW s \in Subs PROVE StreamInv(s)'
  <2>1. DrainInv(s) /\ HandlesNewest(s) /\ WaitInOrder(s) /\ DrainComesFirst(s) /\ EndInv(s)
    BY <1>1 DEF StreamInv
  <2>2. DrainInv(s)'
    BY <1>1, <2>1, DrainInvStep
  <2>3. HandlesNewest(s)'
    BY <1>1, <2>1, HandlesNewestStep
  <2>4. WaitInOrder(s)'
    BY <1>1, <2>1, WaitInOrderStep
  <2>5. DrainComesFirst(s)'
    BY <1>1, <2>1, DrainComesFirstStep
  <2>6. EndInv(s)'
    BY <1>1, <2>1, EndInvStep
  <2> QED BY <2>2, <2>3, <2>4, <2>5, <2>6 DEF StreamInv
<1> QED BY <1>2, <1>3, <1>4 DEF RInv

(***************************************************************************)
(* What the application's callbacks see is what SubscriptionStream says,   *)
(* whatever the limits, the number of threads, and what fails: no event is *)
(* lost, repeated or told out of order but where the options say so, and   *)
(* OnEOSE and OnClosed come after the events received before them.  (What  *)
(* EnqueueEventForSubscription, PostCallback and the drain task do         *)
(* together.)                                                              *)
(***************************************************************************)
THEOREM StreamImplemented == Spec => ImplementsStream
<1>1. Spec => []RInv
  BY InitRInv, RInvStep, PTL DEF Spec
<1>2. RInv /\ [Next]_vars => [Stream!Next]_(Stream!vars)
  BY StepMaps
<1> QED BY <1>1, <1>2, InitMaps, PTL DEF Spec, ImplementsStream, Stream!Spec
=============================================================================
