---------------------- MODULE RelaySubscriptions_proofs ----------------------
(***************************************************************************)
(* Proofs about RelaySubscriptions, for any number of subscriptions and    *)
(* threads and any queue limit.                                            *)
(***************************************************************************)
EXTENDS RelaySubscriptions, SequenceTheorems, TLAPS

USE SubscriptionsAssumption

LEMMA ConstantTypes == /\ SomeSub \in Subs
                       /\ NoMessage \in Message
                       /\ NoTask \in Task
  BY DEF SomeSub, NoMessage, NoTask, Message, Task, MessageKinds

LEMMA InitTypeOK == Init => TypeOK
  BY ConstantTypes DEF Init, TypeOK, EntryTypes, RelayTypes, ReceiverTypes, DispatcherTypes,
     UserTypes, HistoryTypes, Statuses, Stages, CallStages

(***************************************************************************)
(* Type correctness, one group of variables at a time.                     *)
(***************************************************************************)
LEMMA EntryTypesStep == TypeOK /\ [Next]_vars => EntryTypes'
<1> SUFFICES ASSUME TypeOK, [Next]_vars PROVE EntryTypes'
  OBVIOUS
<1> USE DEF TypeOK, EntryTypes
<1>0. ASSUME UNCHANGED entryVars PROVE EntryTypes'
  BY <1>0 DEF entryVars
<1>1. ASSUME NEW s \in Subs, EnqueueEvent(s) PROVE EntryTypes'
  <2>1. handling.id \in Nat
    BY DEF ReceiverTypes, Message
  <2>2. /\ registered' = registered
        /\ status' \in [Subs -> Statuses]
        /\ closeRequested' \in [Subs -> BOOLEAN]
        /\ overflowClosed' \in [Subs -> BOOLEAN]
        /\ dispatchInProgress' \in [Subs -> BOOLEAN]
    BY <1>1 DEF EnqueueEvent, entryVars, MarkOverflow, Statuses
  <2>3. MakeRoom(eventQueue[s]) \in Seq(Nat)
    BY DEF MakeRoom, IsFull
  <2>4. /\ <<>> \in Seq(Nat)
        /\ Append(MakeRoom(eventQueue[s]), handling.id) \in Seq(Nat)
    BY <2>1, <2>3
  <2>5. \/ eventQueue' = eventQueue
        \/ eventQueue' = [eventQueue EXCEPT ![s] = <<>>]
        \/ eventQueue' = [eventQueue EXCEPT ![s] = Append(MakeRoom(@), handling.id)]
    BY <1>1 DEF EnqueueEvent, entryVars
  <2>6. eventQueue' \in [Subs -> Seq(Nat)]
    BY <2>4, <2>5
  <2> QED BY <2>2, <2>6
<1>2. ASSUME NEW s \in Subs, PopEvent(s) PROVE EntryTypes'
  <2>1. eventQueue[s] # <<>> => Popped(eventQueue[s]) \in Seq(Nat)
    BY DEF Popped
  <2>2. \/ eventQueue' = eventQueue
        \/ eventQueue[s] # <<>> /\ eventQueue' = [eventQueue EXCEPT ![s] = Popped(@)]
    BY <1>2 DEF PopEvent
  <2>3. eventQueue' \in [Subs -> Seq(Nat)]
    BY <2>1, <2>2
  <2> QED BY <1>2, <2>3 DEF PopEvent, DrainEnded
<1>3. ASSUME NEW s \in Subs, Handle(s), ~EnqueueEvent(s) PROVE EntryTypes'
  BY <1>0, <1>3 DEF Handle, ScheduleDrain, UnscheduleDrain, DispatchEndOfStoredEvents,
     DispatchClosed, ForgetCloseRequest, PostCallback, Activated, Closed, Statuses
<1>4. ASSUME NEW u \in Users, NEW s \in Subs, BeginOpen(u, s) \/ BeginUpdate(u, s) \/ BeginClose(u, s)
      PROVE  EntryTypes'
  BY <1>0, <1>4 DEF BeginOpen, BeginUpdate, BeginClose, Statuses
<1>5. ASSUME NEW u \in Users, Continue(u) PROVE EntryTypes'
  BY <1>0, <1>5 DEF Continue, SendRequest, SendClose, EraseEntry, SetPending, RestoreStatus,
     Restored, Unrequested, UserTypes, Statuses
<1>6. ASSUME HandleIncomingMessage \/ TakeTask \/ StopReceiveLoop \/ ReleaseSession PROVE EntryTypes'
  BY <1>0, <1>6 DEF HandleIncomingMessage, TakeTask, StopReceiveLoop, ReleaseSession
<1>7. ASSUME NEW s \in Subs, Invoke(s) PROVE EntryTypes'
  BY <1>0, <1>7 DEF Invoke
<1>8. ASSUME NEW s \in Subs, NEW kind \in MessageKinds, RelaySends(s, kind) PROVE EntryTypes'
  BY <1>0, <1>8 DEF RelaySends
<1>9. CASE UNCHANGED vars
  BY <1>0, <1>9 DEF vars
<1> QED
  BY <1>1, <1>2, <1>3, <1>4, <1>5, <1>6, <1>7, <1>8, <1>9
     DEF Next, ReceiveThread, DispatcherThread, OpenSubscription, UpdateFilters,
         CloseSubscription, Done

LEMMA RelayTypesStep == TypeOK /\ [Next]_vars => RelayTypes'
<1> SUFFICES ASSUME TypeOK, [Next]_vars PROVE RelayTypes'
  OBVIOUS
<1> USE DEF TypeOK, RelayTypes
<1>0. ASSUME UNCHANGED <<session, relayVars>> PROVE RelayTypes'
  BY <1>0 DEF relayVars
<1>1. ASSUME NEW s \in Subs, NEW kind \in MessageKinds, RelaySends(s, kind) PROVE RelayTypes'
  <2>1. [kind |-> kind, sub |-> s, id |-> emitted + 1] \in Message
    BY DEF Message
  <2>2. inbox' \in Seq(Message) /\ emitted' \in Nat /\ session' = session
    BY <1>1, <2>1 DEF RelaySends
  <2>3. relay' \in [Subs -> {"none", "stored", "live", "closing"}]
    BY <1>1 DEF RelaySends, MessageKinds
  <2> QED BY <2>2, <2>3
<1>2. ASSUME HandleIncomingMessage PROVE RelayTypes'
  <2>1. inbox' \in Seq(Message)
    BY <1>2 DEF HandleIncomingMessage
  <2> QED BY <1>2, <2>1 DEF HandleIncomingMessage
<1>3. ASSUME NEW s \in Subs, Handle(s) PROVE RelayTypes'
  BY <1>0, <1>3 DEF Handle, EnqueueEvent, ScheduleDrain, UnscheduleDrain,
     DispatchEndOfStoredEvents, DispatchClosed, ForgetCloseRequest, PostCallback
<1>4. ASSUME NEW s \in Subs, PopEvent(s) \/ Invoke(s) PROVE RelayTypes'
  BY <1>0, <1>4 DEF PopEvent, Invoke
<1>5. ASSUME NEW u \in Users, NEW s \in Subs, BeginOpen(u, s) \/ BeginUpdate(u, s) \/ BeginClose(u, s)
      PROVE  RelayTypes'
  BY <1>0, <1>5 DEF BeginOpen, BeginUpdate, BeginClose
<1>6. ASSUME NEW u \in Users, SendRequest(u) \/ SendClose(u) PROVE RelayTypes'
  BY <1>6 DEF SendRequest, SendClose, MayArrive, UserTypes
<1>7. ASSUME NEW u \in Users, EraseEntry(u) \/ SetPending(u) \/ RestoreStatus(u) PROVE RelayTypes'
  BY <1>0, <1>7 DEF EraseEntry, SetPending, RestoreStatus
<1>8. ASSUME TakeTask \/ StopReceiveLoop \/ ReleaseSession PROVE RelayTypes'
  BY <1>8 DEF TakeTask, StopReceiveLoop, ReleaseSession, relayVars
<1>9. CASE UNCHANGED vars
  BY <1>0, <1>9 DEF vars
<1> QED
  BY <1>1, <1>2, <1>3, <1>4, <1>5, <1>6, <1>7, <1>8, <1>9
     DEF Next, ReceiveThread, DispatcherThread, OpenSubscription, UpdateFilters,
         CloseSubscription, Continue, Done

LEMMA ReceiverTypesStep == TypeOK /\ [Next]_vars => ReceiverTypes'
<1> SUFFICES ASSUME TypeOK, [Next]_vars PROVE ReceiverTypes'
  OBVIOUS
<1> USE DEF TypeOK, ReceiverTypes
<1>0. ASSUME UNCHANGED receiverVars PROVE ReceiverTypes'
  BY <1>0 DEF receiverVars
<1>1. ASSUME HandleIncomingMessage PROVE ReceiverTypes'
  <2>1. CASE Collected(Head(inbox)) = {}
    BY <1>0, <1>1, <2>1 DEF HandleIncomingMessage
  <2>2. CASE Collected(Head(inbox)) # {}
    <3>1. Head(inbox) \in Message
      BY <1>1 DEF HandleIncomingMessage, RelayTypes
    <3>2. FirstStage(Head(inbox)) \in Stages
      BY <3>1 DEF FirstStage, Stages, Message, MessageKinds
    <3>3. Collected(Head(inbox)) \subseteq Subs
      BY DEF Collected, EntryTypes
    <3> QED BY <1>1, <2>2, <3>1, <3>2, <3>3 DEF HandleIncomingMessage
  <2> QED BY <2>1, <2>2
<1>2. ASSUME NEW s \in Subs, EnqueueEvent(s) PROVE ReceiverTypes'
  BY <1>2 DEF EnqueueEvent, Stages
<1>3. ASSUME NEW s \in Subs, Handle(s), ~EnqueueEvent(s) PROVE ReceiverTypes'
  BY <1>3 DEF Handle, ScheduleDrain, UnscheduleDrain, DispatchEndOfStoredEvents,
     DispatchClosed, ForgetCloseRequest, PostCallback, Stages
<1>4. ASSUME NEW s \in Subs, PopEvent(s) \/ Invoke(s) PROVE ReceiverTypes'
  BY <1>0, <1>4 DEF PopEvent, Invoke
<1>5. ASSUME NEW u \in Users, NEW s \in Subs, BeginOpen(u, s) \/ BeginUpdate(u, s) \/ BeginClose(u, s)
      PROVE  ReceiverTypes'
  BY <1>0, <1>5 DEF BeginOpen, BeginUpdate, BeginClose
<1>6. ASSUME NEW u \in Users, Continue(u) PROVE ReceiverTypes'
  BY <1>0, <1>6 DEF Continue, SendRequest, SendClose, EraseEntry, SetPending, RestoreStatus
<1>7. ASSUME TakeTask \/ StopReceiveLoop \/ ReleaseSession PROVE ReceiverTypes'
  BY <1>0, <1>7 DEF TakeTask, StopReceiveLoop, ReleaseSession
<1>8. ASSUME NEW s \in Subs, NEW kind \in MessageKinds, RelaySends(s, kind) PROVE ReceiverTypes'
  BY <1>0, <1>8 DEF RelaySends
<1>9. CASE UNCHANGED vars
  BY <1>0, <1>9 DEF vars
<1> QED
  BY <1>1, <1>2, <1>3, <1>4, <1>5, <1>6, <1>7, <1>8, <1>9
     DEF Next, ReceiveThread, DispatcherThread, OpenSubscription, UpdateFilters,
         CloseSubscription, Done

LEMMA DispatcherTypesStep == TypeOK /\ [Next]_vars => DispatcherTypes'
<1> SUFFICES ASSUME TypeOK, [Next]_vars PROVE DispatcherTypes'
  OBVIOUS
<1> USE DEF TypeOK, DispatcherTypes
<1>0. ASSUME UNCHANGED dispatcherVars PROVE DispatcherTypes'
  BY <1>0 DEF dispatcherVars
<1>1. ASSUME NEW s \in Subs, ScheduleDrain(s) \/ PostCallback(s) PROVE DispatcherTypes'
  <2>1. [kind |-> "drain", sub |-> s, id |-> handling.id] \in Task
    BY DEF Task, ReceiverTypes, Message
  <2>2. stage = "post" /\ handling.kind # "EVENT" =>
           [kind |-> PostedKind, sub |-> s, id |-> handling.id] \in Task
    BY DEF PostedKind, Task, ReceiverTypes, Message, MessageKinds
  <2>3. handling.kind = "EVENT" => [kind |-> PostedKind, sub |-> s, id |-> handling.id] \in Task
    BY DEF PostedKind, Task, ReceiverTypes, Message
  <2>4. tasks' \in Seq(Task)
    BY <1>1, <2>1, <2>2, <2>3 DEF ScheduleDrain, PostCallback, Posted
  <2> QED BY <1>1, <2>4 DEF ScheduleDrain, PostCallback
<1>2. ASSUME TakeTask PROVE DispatcherTypes'
  <2>1. tasks' \in Seq(Task) /\ task' \in Task
    BY <1>2 DEF TakeTask
  <2>2. dispatcher' \in {"idle", "pop", "invoke"}
    BY <1>2 DEF TakeTask
  <2> QED BY <2>1, <2>2
<1>3. ASSUME NEW s \in Subs, PopEvent(s) PROVE DispatcherTypes'
  <2>1. eventQueue[s] # <<>> => Head(eventQueue[s]) \in Nat
    BY DEF EntryTypes
  <2> QED BY <1>3, <2>1 DEF PopEvent, Task
<1>4. ASSUME NEW s \in Subs, Invoke(s) PROVE DispatcherTypes'
  BY <1>4 DEF Invoke
<1>5. ASSUME NEW s \in Subs, Handle(s), ~ScheduleDrain(s), ~PostCallback(s) PROVE DispatcherTypes'
  BY <1>0, <1>5 DEF Handle, EnqueueEvent, UnscheduleDrain, DispatchEndOfStoredEvents,
     DispatchClosed, ForgetCloseRequest
<1>6. ASSUME NEW u \in Users, NEW s \in Subs, BeginOpen(u, s) \/ BeginUpdate(u, s) \/ BeginClose(u, s)
      PROVE  DispatcherTypes'
  BY <1>0, <1>6 DEF BeginOpen, BeginUpdate, BeginClose
<1>7. ASSUME NEW u \in Users, Continue(u) PROVE DispatcherTypes'
  BY <1>0, <1>7 DEF Continue, SendRequest, SendClose, EraseEntry, SetPending, RestoreStatus
<1>8. ASSUME NEW s \in Subs, NEW kind \in MessageKinds, RelaySends(s, kind) PROVE DispatcherTypes'
  BY <1>0, <1>8 DEF RelaySends
<1>9. CASE HandleIncomingMessage \/ StopReceiveLoop \/ ReleaseSession \/ UNCHANGED vars
  BY <1>0, <1>9 DEF HandleIncomingMessage, StopReceiveLoop, ReleaseSession, vars
<1> QED
  BY <1>1, <1>2, <1>3, <1>4, <1>5, <1>6, <1>7, <1>8, <1>9
     DEF Next, ReceiveThread, DispatcherThread, OpenSubscription, UpdateFilters,
         CloseSubscription, Done

LEMMA UserTypesStep == TypeOK /\ [Next]_vars => UserTypes'
<1> SUFFICES ASSUME TypeOK, [Next]_vars PROVE UserTypes'
  OBVIOUS
<1> USE DEF TypeOK, UserTypes
<1>0. ASSUME UNCHANGED userVars PROVE UserTypes'
  BY <1>0 DEF userVars
<1>1. ASSUME NEW u \in Users, NEW s \in Subs, BeginOpen(u, s) \/ BeginUpdate(u, s) \/ BeginClose(u, s)
      PROVE  UserTypes'
  <2>1. status[s] \in Statuses
    BY DEF EntryTypes
  <2>2. previous' \in [Users -> Statuses]
    BY <1>1, <2>1 DEF BeginOpen, BeginUpdate, BeginClose
  <2>3. \E at \in {"request", "update", "close"} : Begin(u, s, at)
    BY <1>1 DEF BeginOpen, BeginUpdate, BeginClose
  <2>4. call' \in [Users -> CallStages] /\ subject' \in [Users -> Subs] /\ calls' \in Nat
    BY <2>3 DEF Begin, CallStages
  <2> QED BY <2>2, <2>4
<1>2. ASSUME NEW u \in Users, Continue(u) PROVE UserTypes'
  <2>1. subject' = subject /\ previous' = previous /\ calls' = calls
    BY <1>2 DEF Continue, SendRequest, SendClose, EraseEntry, SetPending, RestoreStatus
  <2>2. \E at \in CallStages : call' = [call EXCEPT ![u] = at]
    BY <1>2 DEF Continue, SendRequest, SendClose, EraseEntry, SetPending, RestoreStatus, Return,
       CallStages
  <2> QED BY <2>1, <2>2
<1>3. ASSUME NEW s \in Subs, Handle(s) PROVE UserTypes'
  BY <1>0, <1>3 DEF Handle, EnqueueEvent, ScheduleDrain, UnscheduleDrain,
     DispatchEndOfStoredEvents, DispatchClosed, ForgetCloseRequest, PostCallback
<1>4. ASSUME NEW s \in Subs, PopEvent(s) \/ Invoke(s) PROVE UserTypes'
  BY <1>0, <1>4 DEF PopEvent, Invoke
<1>5. ASSUME NEW s \in Subs, NEW kind \in MessageKinds, RelaySends(s, kind) PROVE UserTypes'
  BY <1>0, <1>5 DEF RelaySends
<1>6. ASSUME HandleIncomingMessage \/ TakeTask \/ StopReceiveLoop \/ ReleaseSession
             \/ UNCHANGED vars
      PROVE  UserTypes'
  BY <1>0, <1>6 DEF HandleIncomingMessage, TakeTask, StopReceiveLoop, ReleaseSession, vars
<1> QED
  BY <1>1, <1>2, <1>3, <1>4, <1>5, <1>6
     DEF Next, ReceiveThread, DispatcherThread, OpenSubscription, UpdateFilters,
         CloseSubscription, Done

LEMMA HistoryTypesStep == TypeOK /\ [Next]_vars => HistoryTypes'
<1> SUFFICES ASSUME TypeOK, [Next]_vars PROVE HistoryTypes'
  OBVIOUS
<1> USE DEF TypeOK, HistoryTypes
<1>0. ASSUME UNCHANGED history PROVE HistoryTypes'
  BY <1>0 DEF history
<1>1. ASSUME NEW s \in Subs, EnqueueEvent(s) PROVE HistoryTypes'
  BY <1>0, <1>1 DEF EnqueueEvent
<1>2. ASSUME NEW s \in Subs, Invoke(s) PROVE HistoryTypes'
  <2>1. [kind |-> CallbackKind, sub |-> s, id |-> task.id] \in Message
    BY DEF CallbackKind, DispatcherTypes, Task, Message, MessageKinds
  <2>2. Append(callbacks[s], [kind |-> CallbackKind, sub |-> s, id |-> task.id]) \in Seq(Message)
    BY <2>1
  <2>3. callbacks' \in [Subs -> Seq(Message)]
    BY <1>2, <2>2 DEF Invoke
  <2> QED BY <1>2, <2>3 DEF Invoke
<1>3. ASSUME NEW u \in Users, SendClose(u) PROVE HistoryTypes'
  BY <1>3 DEF SendClose, UserTypes
<1>4. ASSUME NEW u \in Users, Continue(u), ~SendClose(u) PROVE HistoryTypes'
  BY <1>0, <1>4 DEF Continue, SendRequest, EraseEntry, SetPending, RestoreStatus
<1>5. ASSUME NEW u \in Users, NEW s \in Subs, BeginOpen(u, s) \/ BeginUpdate(u, s) \/ BeginClose(u, s)
      PROVE  HistoryTypes'
  BY <1>0, <1>5 DEF BeginOpen, BeginUpdate, BeginClose
<1>6. ASSUME NEW s \in Subs, Handle(s), ~EnqueueEvent(s) PROVE HistoryTypes'
  BY <1>0, <1>6 DEF Handle, ScheduleDrain, UnscheduleDrain,
     DispatchEndOfStoredEvents, DispatchClosed, ForgetCloseRequest, PostCallback
<1>7. ASSUME NEW s \in Subs, PopEvent(s) PROVE HistoryTypes'
  BY <1>0, <1>7 DEF PopEvent
<1>8. ASSUME NEW s \in Subs, NEW kind \in MessageKinds, RelaySends(s, kind) PROVE HistoryTypes'
  BY <1>0, <1>8 DEF RelaySends
<1>9. ASSUME HandleIncomingMessage \/ TakeTask \/ StopReceiveLoop \/ ReleaseSession
             \/ UNCHANGED vars
      PROVE  HistoryTypes'
  BY <1>0, <1>9 DEF HandleIncomingMessage, TakeTask, StopReceiveLoop, ReleaseSession, vars
<1> QED
  BY <1>1, <1>2, <1>3, <1>4, <1>5, <1>6, <1>7, <1>8, <1>9
     DEF Next, ReceiveThread, DispatcherThread, OpenSubscription, UpdateFilters,
         CloseSubscription, Done

(***************************************************************************)
(* The variables always have their types, whatever the number of           *)
(* subscriptions, threads and calls, and whatever fails.  In particular    *)
(* the drain pops, and DropOldest drops, only what is there.               *)
(***************************************************************************)
THEOREM TypeCorrect == Spec => []TypeOK
<1>1. Init => TypeOK
  BY InitTypeOK
<1>2. TypeOK /\ [Next]_vars => TypeOK'
  BY EntryTypesStep, RelayTypesStep, ReceiverTypesStep, DispatcherTypesStep, UserTypesStep,
     HistoryTypesStep DEF TypeOK
<1> QED
  BY <1>1, <1>2, PTL DEF Spec
-----------------------------------------------------------------------------
(***************************************************************************)
(* No event is stranded.  NoStrandedEvents is not inductive: an event that *)
(* is queued while dispatchInProgress is set relies on the flag telling    *)
(* the truth, and a drain that stops at an overflowed entry relies on its  *)
(* queue being empty.                                                      *)
(***************************************************************************)
HasDrain(s) == Draining(s) \/ DrainPosted(s) \/ AboutToSchedule(s)

DrainInv(s) ==
  /\ overflowClosed[s] => eventQueue[s] = <<>>
  /\ session # "gone" /\ (eventQueue[s] # <<>> \/ dispatchInProgress[s]) => HasDrain(s)

LEMMA AppendKeepsPosted ==
  ASSUME TypeOK, NEW new \in Task, tasks' = Append(tasks, new), NEW s \in Subs
  PROVE  DrainPosted(s)' <=> DrainPosted(s) \/ (new.kind = "drain" /\ new.sub = s)
<1>1. tasks \in Seq(Task)
  BY DEF TypeOK, DispatcherTypes
<1>2. /\ DOMAIN tasks' = 1..(Len(tasks) + 1)
      /\ DOMAIN tasks = 1..Len(tasks) /\ Len(tasks) \in Nat
      /\ \A i \in DOMAIN tasks : tasks'[i] = tasks[i]
      /\ tasks'[Len(tasks) + 1] = new
  BY <1>1
<1> QED
  BY <1>2 DEF DrainPosted

LEMMA TailPosted ==
  ASSUME TypeOK, tasks # <<>>, tasks' = Tail(tasks), NEW s \in Subs
  PROVE  DrainPosted(s) <=>
           DrainPosted(s)' \/ (Head(tasks).kind = "drain" /\ Head(tasks).sub = s)
<1>1. tasks \in Seq(Task)
  BY DEF TypeOK, DispatcherTypes
<1>2. /\ DOMAIN tasks = 1..Len(tasks) /\ Len(tasks) \in Nat \ {0}
      /\ DOMAIN tasks' = 1..(Len(tasks) - 1)
      /\ \A i \in DOMAIN tasks' : tasks'[i] = tasks[i + 1]
      /\ Head(tasks) = tasks[1]
  BY <1>1
<1>3. ASSUME NEW i \in DOMAIN tasks, i # 1 PROVE i - 1 \in DOMAIN tasks' /\ tasks'[i - 1] = tasks[i]
  BY <1>2, <1>3
<1>4. ASSUME NEW i \in DOMAIN tasks' PROVE i + 1 \in DOMAIN tasks /\ tasks[i + 1] = tasks'[i]
  BY <1>2, <1>4
<1>5. ASSUME DrainPosted(s) PROVE DrainPosted(s)' \/ (Head(tasks).kind = "drain" /\ Head(tasks).sub = s)
  <2>1. PICK i \in DOMAIN tasks : tasks[i].kind = "drain" /\ tasks[i].sub = s
    BY <1>5 DEF DrainPosted
  <2>2. CASE i = 1
    BY <1>2, <2>1, <2>2
  <2>3. CASE i # 1
    BY <1>3, <2>1, <2>3 DEF DrainPosted
  <2> QED BY <2>2, <2>3
<1>6. ASSUME DrainPosted(s)' PROVE DrainPosted(s)
  BY <1>4, <1>6 DEF DrainPosted
<1>7. ASSUME Head(tasks).kind = "drain", Head(tasks).sub = s PROVE DrainPosted(s)
  <2>1. 1 \in DOMAIN tasks
    BY <1>2
  <2> QED BY <1>2, <1>7, <2>1 DEF DrainPosted
<1> QED
  BY <1>5, <1>6, <1>7

LEMMA DrainInvStep ==
  ASSUME TypeOK, [Next]_vars, NEW s \in Subs, DrainInv(s)
  PROVE  DrainInv(s)'
<1> DEFINE Watched == <<eventQueue, dispatchInProgress, overflowClosed, session, stage, handling,
                        tasks, dispatcher, task>>
<1> USE DEF DrainInv, HasDrain
<1>0. ASSUME UNCHANGED Watched PROVE DrainInv(s)'
  BY <1>0 DEF Draining, DrainPosted, AboutToSchedule
<1>1. ASSUME NEW t \in Subs, EnqueueEvent(t) PROVE DrainInv(s)'
  <2>1. UNCHANGED <<session, tasks, dispatcher, task, handling>> /\ stage = "enqueue"
    BY <1>1 DEF EnqueueEvent, dispatcherVars
  <2>2. (DrainPosted(s)' <=> DrainPosted(s)) /\ (Draining(s)' <=> Draining(s)) /\ ~AboutToSchedule(s)
    BY <2>1 DEF Draining, DrainPosted, AboutToSchedule
  <2>3. CASE s # t
    <3>1. /\ eventQueue'[s] = eventQueue[s] /\ overflowClosed'[s] = overflowClosed[s]
          /\ dispatchInProgress'[s] = dispatchInProgress[s]
      BY <1>1, <2>3 DEF EnqueueEvent, entryVars, MarkOverflow, TypeOK, EntryTypes
    <3> QED BY <2>1, <2>2, <3>1
  <2>4. CASE s = t /\ overflowClosed[s]
    BY <1>1, <2>1, <2>2, <2>4 DEF EnqueueEvent, entryVars
  <2>5. CASE s = t /\ ~overflowClosed[s] /\ Throws /\ IsFull(eventQueue[s])
    BY <1>1, <2>5 DEF EnqueueEvent, TypeOK, EntryTypes
  <2>6. CASE s = t /\ ~overflowClosed[s] /\ ~(Throws /\ IsFull(eventQueue[s]))
    <3>1. overflowClosed' = overflowClosed
      BY <1>1, <2>6 DEF EnqueueEvent
    <3>2. dispatchInProgress[s] \/ AboutToSchedule(s)'
      BY <1>1, <2>1, <2>6 DEF EnqueueEvent, NeedsDrain, AboutToSchedule
    <3> QED BY <2>1, <2>2, <2>6, <3>1, <3>2
  <2> QED BY <2>3, <2>4, <2>5, <2>6
<1>2. ASSUME NEW t \in Subs, ScheduleDrain(t) \/ PostCallback(t) PROVE DrainInv(s)'
  <2>1. UNCHANGED <<eventQueue, dispatchInProgress, overflowClosed, session, dispatcher, task>>
    BY <1>2 DEF ScheduleDrain, PostCallback, entryVars
  <2>2. Draining(s)' <=> Draining(s)
    BY <2>1 DEF Draining
  <2>3. CASE ScheduleDrain(t)
    <3>1. [kind |-> "drain", sub |-> t, id |-> handling.id] \in Task
      BY DEF TypeOK, ReceiverTypes, Message, Task
    <3>2. tasks' = Append(tasks, [kind |-> "drain", sub |-> t, id |-> handling.id])
      BY <2>3 DEF ScheduleDrain, Posted
    <3>3. DrainPosted(s) \/ s = t => DrainPosted(s)'
      BY <3>1, <3>2, AppendKeepsPosted
    <3>4. AboutToSchedule(s) => s = t
      BY <2>3 DEF ScheduleDrain, AboutToSchedule
    <3> QED BY <2>1, <2>2, <3>3, <3>4
  <2>4. CASE PostCallback(t)
    <3>1. [kind |-> PostedKind, sub |-> t, id |-> handling.id] \in Task
      BY DEF TypeOK, ReceiverTypes, Message, MessageKinds, Task, PostedKind
    <3>2. tasks' = Append(tasks, [kind |-> PostedKind, sub |-> t, id |-> handling.id])
      BY <2>4 DEF PostCallback, Posted
    <3>3. DrainPosted(s) => DrainPosted(s)'
      BY <3>1, <3>2, AppendKeepsPosted
    <3>4. ~AboutToSchedule(s)
      BY <2>4 DEF PostCallback, AboutToSchedule
    <3> QED BY <2>1, <2>2, <3>3, <3>4
  <2> QED BY <1>2, <2>3, <2>4
<1>3. ASSUME TakeTask PROVE DrainInv(s)'
  <2>1. UNCHANGED <<eventQueue, dispatchInProgress, overflowClosed, session, stage, handling>>
    BY <1>3 DEF TakeTask, entryVars, receiverVars
  <2>2. (AboutToSchedule(s)' <=> AboutToSchedule(s)) /\ ~Draining(s)
    BY <1>3, <2>1 DEF TakeTask, AboutToSchedule, Draining
  <2>3. DrainPosted(s) => DrainPosted(s)' \/ (Head(tasks).kind = "drain" /\ Head(tasks).sub = s)
    BY <1>3, TailPosted DEF TakeTask
  <2>4. session # "gone" /\ Head(tasks).kind = "drain" /\ Head(tasks).sub = s => Draining(s)'
    BY <1>3 DEF TakeTask, Draining
  <2> QED BY <2>1, <2>2, <2>3, <2>4
<1>4. ASSUME NEW t \in Subs, PopEvent(t) PROVE DrainInv(s)'
  <2>1. UNCHANGED <<overflowClosed, session, stage, handling, tasks>> /\ task.sub = t
    BY <1>4 DEF PopEvent, receiverVars
  <2>2. (AboutToSchedule(s)' <=> AboutToSchedule(s)) /\ (DrainPosted(s)' <=> DrainPosted(s))
    BY <2>1 DEF AboutToSchedule, DrainPosted
  <2>3. CASE eventQueue[t] # <<>> /\ ~overflowClosed[t]
    <3>1. Draining(s)' <=> Draining(s)
      BY <1>4, <2>3 DEF PopEvent, Draining, TypeOK, DispatcherTypes, Task
    <3>2. dispatchInProgress' = dispatchInProgress
      BY <1>4, <2>3 DEF PopEvent
    <3>3. s # t => eventQueue'[s] = eventQueue[s]
      BY <1>4, <2>3 DEF PopEvent, TypeOK, EntryTypes
    <3>4. s = t => eventQueue[s] # <<>> /\ ~overflowClosed[s]
      BY <2>3
    <3> QED BY <2>1, <2>2, <3>1, <3>2, <3>3, <3>4
  <2>4. CASE ~(eventQueue[t] # <<>> /\ ~overflowClosed[t])
    <3>1. eventQueue' = eventQueue /\ dispatchInProgress' = [dispatchInProgress EXCEPT ![t] = FALSE]
      BY <1>4, <2>4 DEF PopEvent, DrainEnded
    <3>2. CASE s = t
      <4>1. eventQueue[s] = <<>>
        BY <2>4, <3>2
      <4>2. ~dispatchInProgress'[s]
        BY <3>1, <3>2 DEF TypeOK, EntryTypes
      <4> QED BY <2>1, <3>1, <4>1, <4>2
    <3>3. CASE s # t
      <4>1. ~Draining(s)
        BY <2>1, <3>3 DEF Draining
      <4>2. dispatchInProgress'[s] = dispatchInProgress[s]
        BY <3>1, <3>3 DEF TypeOK, EntryTypes
      <4> QED BY <2>1, <2>2, <3>1, <4>1, <4>2
    <3> QED BY <3>2, <3>3
  <2> QED BY <2>3, <2>4
<1>5. ASSUME NEW t \in Subs, Invoke(t) PROVE DrainInv(s)'
  <2>1. UNCHANGED <<eventQueue, dispatchInProgress, overflowClosed, session, stage, handling, tasks, task>>
    BY <1>5 DEF Invoke, entryVars, receiverVars
  <2>2. /\ AboutToSchedule(s)' <=> AboutToSchedule(s)
        /\ DrainPosted(s)' <=> DrainPosted(s)
    BY <2>1 DEF AboutToSchedule, DrainPosted
  <2>3. Draining(s)' <=> Draining(s)
    BY <1>5 DEF Invoke, Draining
  <2> QED BY <2>1, <2>2, <2>3
<1>6. ASSUME NEW t \in Subs, UnscheduleDrain(t) \/ DispatchEndOfStoredEvents(t)
                              \/ DispatchClosed(t) \/ ForgetCloseRequest(t)
      PROVE  DrainInv(s)'
  <2>1. UNCHANGED <<eventQueue, overflowClosed, session, tasks, dispatcher, task>>
    BY <1>6 DEF UnscheduleDrain, DispatchEndOfStoredEvents, DispatchClosed, ForgetCloseRequest,
       dispatcherVars
  <2>2. ~AboutToSchedule(s)
    BY <1>6 DEF UnscheduleDrain, DispatchEndOfStoredEvents, DispatchClosed, ForgetCloseRequest,
       AboutToSchedule
  <2>3. dispatchInProgress'[s] => dispatchInProgress[s]
    BY <1>6 DEF UnscheduleDrain, DispatchEndOfStoredEvents, DispatchClosed, ForgetCloseRequest,
       TypeOK, EntryTypes
  <2>4. (Draining(s)' <=> Draining(s)) /\ (DrainPosted(s)' <=> DrainPosted(s))
    BY <2>1 DEF Draining, DrainPosted
  <2> QED BY <2>1, <2>2, <2>3, <2>4
<1>7. ASSUME HandleIncomingMessage PROVE DrainInv(s)'
  <2>1. UNCHANGED <<eventQueue, dispatchInProgress, overflowClosed, session, tasks, dispatcher, task>>
    BY <1>7 DEF HandleIncomingMessage, entryVars, dispatcherVars
  <2>2. ~AboutToSchedule(s)
    BY <1>7 DEF HandleIncomingMessage, AboutToSchedule
  <2>3. (Draining(s)' <=> Draining(s)) /\ (DrainPosted(s)' <=> DrainPosted(s))
    BY <2>1 DEF Draining, DrainPosted
  <2> QED BY <2>1, <2>2, <2>3
<1>8. ASSUME StopReceiveLoop \/ ReleaseSession PROVE DrainInv(s)'
  BY <1>8 DEF StopReceiveLoop, ReleaseSession, entryVars, receiverVars, dispatcherVars,
     Draining, DrainPosted, AboutToSchedule
<1>9. ASSUME NEW u \in Users, NEW t \in Subs, BeginOpen(u, t) \/ BeginUpdate(u, t) \/ BeginClose(u, t)
      PROVE  DrainInv(s)'
  BY <1>0, <1>9 DEF BeginOpen, BeginUpdate, BeginClose, entryVars, receiverVars, dispatcherVars
<1>10. ASSUME NEW u \in Users, Continue(u) PROVE DrainInv(s)'
  BY <1>0, <1>10 DEF Continue, SendRequest, SendClose, EraseEntry, SetPending, RestoreStatus,
     entryVars, receiverVars, dispatcherVars
<1>11. ASSUME NEW t \in Subs, NEW kind \in MessageKinds, RelaySends(t, kind) PROVE DrainInv(s)'
  BY <1>0, <1>11 DEF RelaySends, entryVars, receiverVars, dispatcherVars
<1>12. CASE UNCHANGED vars
  BY <1>0, <1>12 DEF vars, entryVars, receiverVars, dispatcherVars
<1> QED
  BY <1>1, <1>2, <1>3, <1>4, <1>5, <1>6, <1>7, <1>8, <1>9, <1>10, <1>11, <1>12
     DEF Next, ReceiveThread, DispatcherThread, Handle, OpenSubscription, UpdateFilters,
         CloseSubscription, Done

(***************************************************************************)
(* However messages, drains, calls and failures interleave, while the      *)
(* session exists a queued event has a drain that will come for it.        *)
(***************************************************************************)
THEOREM NoEventStranded == Spec => []NoStrandedEvents
<1> DEFINE Inv == TypeOK /\ \A s \in Subs : DrainInv(s)
<1>1. Init => Inv
  BY InitTypeOK DEF Init, DrainInv
<1>2. Inv /\ [Next]_vars => Inv'
  <2> SUFFICES ASSUME Inv, [Next]_vars PROVE Inv'
    OBVIOUS
  <2>1. TypeOK'
    BY EntryTypesStep, RelayTypesStep, ReceiverTypesStep, DispatcherTypesStep, UserTypesStep,
       HistoryTypesStep DEF TypeOK
  <2>2. \A s \in Subs : DrainInv(s)'
    BY DrainInvStep
  <2> QED BY <2>1, <2>2
<1>3. Inv => NoStrandedEvents
  BY DEF NoStrandedEvents, DrainInv, HasDrain
<1> QED
  BY <1>1, <1>2, <1>3, PTL DEF Spec
-----------------------------------------------------------------------------
(***************************************************************************)
(* One drain at a time.  When Post does not fail after queueing its task,  *)
(* dispatchInProgress is set exactly while a drain exists, so that the     *)
(* receive thread schedules no second one.                                 *)
(***************************************************************************)
OnePosted(s) ==
  \A i, j \in DOMAIN tasks :
    /\ tasks[i].kind = "drain" /\ tasks[i].sub = s
    /\ tasks[j].kind = "drain" /\ tasks[j].sub = s
    => i = j

OneDrainInv(s) ==
  /\ stage # "unschedule" /\ (dispatcher = "pop" => task.kind = "drain")
  /\ ~overflowClosed[s] /\ session # "gone" =>
       /\ HasDrain(s) => dispatchInProgress[s]
       /\ OnePosted(s)
       /\ ~(Draining(s) /\ DrainPosted(s))
       /\ AboutToSchedule(s) => ~Draining(s) /\ ~DrainPosted(s)

LEMMA AppendOnePosted ==
  ASSUME TypeOK, NEW new \in Task, tasks' = Append(tasks, new), NEW s \in Subs, OnePosted(s),
         new.kind = "drain" /\ new.sub = s => ~DrainPosted(s)
  PROVE  OnePosted(s)'
<1>1. tasks \in Seq(Task)
  BY DEF TypeOK, DispatcherTypes
<1>2. /\ DOMAIN tasks' = 1..(Len(tasks) + 1)
      /\ DOMAIN tasks = 1..Len(tasks) /\ Len(tasks) \in Nat
      /\ \A i \in DOMAIN tasks : tasks'[i] = tasks[i]
      /\ tasks'[Len(tasks) + 1] = new
  BY <1>1
<1>3. ASSUME NEW i \in DOMAIN tasks' PROVE i \in DOMAIN tasks \/ i = Len(tasks) + 1
  BY <1>2
<1> QED
  BY <1>2, <1>3 DEF OnePosted, DrainPosted

LEMMA TailOnePosted ==
  ASSUME TypeOK, tasks # <<>>, tasks' = Tail(tasks), NEW s \in Subs, OnePosted(s)
  PROVE  /\ OnePosted(s)'
         /\ Head(tasks).kind = "drain" /\ Head(tasks).sub = s => ~DrainPosted(s)'
<1>1. tasks \in Seq(Task)
  BY DEF TypeOK, DispatcherTypes
<1>2. /\ DOMAIN tasks = 1..Len(tasks) /\ Len(tasks) \in Nat \ {0}
      /\ DOMAIN tasks' = 1..(Len(tasks) - 1)
      /\ \A i \in DOMAIN tasks' : tasks'[i] = tasks[i + 1]
      /\ Head(tasks) = tasks[1] /\ 1 \in DOMAIN tasks
  BY <1>1
<1>3. ASSUME NEW i \in DOMAIN tasks'
      PROVE  i + 1 \in DOMAIN tasks /\ tasks[i + 1] = tasks'[i] /\ i \in Int /\ i + 1 # 1
  BY <1>2, <1>3
<1>4. ASSUME NEW i \in DOMAIN tasks', NEW j \in DOMAIN tasks', i + 1 = j + 1 PROVE i = j
  BY <1>2, <1>4
<1>5. OnePosted(s)'
  BY <1>3, <1>4 DEF OnePosted
<1>6. ASSUME Head(tasks).kind = "drain", Head(tasks).sub = s PROVE ~DrainPosted(s)'
  BY <1>2, <1>3, <1>6 DEF OnePosted, DrainPosted
<1> QED
  BY <1>5, <1>6

LEMMA OneDrainInvStep ==
  ASSUME PostMayFail = FALSE, TypeOK, [Next]_vars, NEW s \in Subs, OneDrainInv(s)
  PROVE  OneDrainInv(s)'
<1> DEFINE Watched == <<dispatchInProgress, overflowClosed, session, stage, handling,
                        tasks, dispatcher, task>>
<1> USE DEF OneDrainInv, HasDrain
<1>0. ASSUME UNCHANGED Watched PROVE OneDrainInv(s)'
  BY <1>0 DEF Draining, DrainPosted, AboutToSchedule, OnePosted
<1>1. ASSUME NEW t \in Subs, EnqueueEvent(t) PROVE OneDrainInv(s)'
  <2>1. UNCHANGED <<session, tasks, dispatcher, task, handling>> /\ stage = "enqueue"
        /\ stage' \in {"idle", "close", "schedule"}
    BY <1>1 DEF EnqueueEvent, dispatcherVars
  <2>2. /\ DrainPosted(s)' <=> DrainPosted(s)
        /\ OnePosted(s)' <=> OnePosted(s)
        /\ Draining(s)' <=> Draining(s)
    BY <2>1 DEF Draining, DrainPosted, OnePosted
  <2>3. CASE s # t
    <3>1. /\ overflowClosed'[s] = overflowClosed[s]
          /\ dispatchInProgress'[s] = dispatchInProgress[s]
      BY <1>1, <2>3 DEF EnqueueEvent, entryVars, MarkOverflow, TypeOK, EntryTypes
    <3>2. ~AboutToSchedule(s)'
      BY <1>1, <2>1, <2>3 DEF EnqueueEvent, AboutToSchedule
    <3> QED BY <2>1, <2>2, <3>1, <3>2
  <2>4. CASE s = t /\ overflowClosed'[s]
    BY <2>1, <2>4
  <2>5. CASE s = t /\ ~overflowClosed'[s]
    <3>1. ~overflowClosed[s] /\ ~(Throws /\ IsFull(eventQueue[s]))
      BY <1>1, <2>5 DEF EnqueueEvent, entryVars, MarkOverflow, TypeOK, EntryTypes
    <3>2. dispatchInProgress'[s]
      BY <1>1, <2>5, <3>1 DEF EnqueueEvent, TypeOK, EntryTypes
    <3>3. AboutToSchedule(s)' => ~dispatchInProgress[s]
      BY <1>1, <2>5, <3>1 DEF EnqueueEvent, AboutToSchedule, NeedsDrain
    <3> QED BY <2>1, <2>2, <3>1, <3>2, <3>3
  <2> QED BY <2>3, <2>4, <2>5
<1>2. ASSUME NEW t \in Subs, ScheduleDrain(t) PROVE OneDrainInv(s)'
  <2>1. UNCHANGED <<dispatchInProgress, overflowClosed, session, dispatcher, task>> /\ stage' = "idle"
    BY <1>2 DEF ScheduleDrain, entryVars
  <2>2. (Draining(s)' <=> Draining(s)) /\ ~AboutToSchedule(s)'
    BY <2>1 DEF Draining, AboutToSchedule
  <2>3. [kind |-> "drain", sub |-> t, id |-> handling.id] \in Task
    BY DEF TypeOK, ReceiverTypes, Message, Task
  <2>4. tasks' = Append(tasks, [kind |-> "drain", sub |-> t, id |-> handling.id])
    BY <1>2 DEF ScheduleDrain, Posted
  <2>5. DrainPosted(s)' <=> DrainPosted(s) \/ s = t
    BY <2>3, <2>4, AppendKeepsPosted
  <2>6. AboutToSchedule(t)
    BY <1>2 DEF ScheduleDrain, AboutToSchedule
  <2>7. OnePosted(s) /\ (s = t => ~DrainPosted(s)) => OnePosted(s)'
    BY <2>3, <2>4, AppendOnePosted
  <2>8. CASE s = t
    BY <2>1, <2>2, <2>5, <2>6, <2>7, <2>8
  <2>9. CASE s # t
    BY <2>1, <2>2, <2>5, <2>7, <2>9
  <2> QED BY <2>8, <2>9
<1>3. ASSUME NEW t \in Subs, PostCallback(t) PROVE OneDrainInv(s)'
  <2>1. UNCHANGED <<dispatchInProgress, overflowClosed, session, dispatcher, task>>
        /\ stage' \in {"idle", "post"}
    BY <1>3 DEF PostCallback, entryVars
  <2>2. (Draining(s)' <=> Draining(s)) /\ ~AboutToSchedule(s)'
    BY <2>1 DEF Draining, AboutToSchedule
  <2>3. [kind |-> PostedKind, sub |-> t, id |-> handling.id] \in Task /\ PostedKind # "drain"
    BY DEF TypeOK, ReceiverTypes, Message, MessageKinds, Task, PostedKind
  <2>4. tasks' = Append(tasks, [kind |-> PostedKind, sub |-> t, id |-> handling.id])
    BY <1>3 DEF PostCallback, Posted
  <2>5. DrainPosted(s)' <=> DrainPosted(s)
    BY <2>3, <2>4, AppendKeepsPosted
  <2>6. OnePosted(s) => OnePosted(s)'
    BY <2>3, <2>4, AppendOnePosted
  <2> QED BY <2>1, <2>2, <2>5, <2>6
<1>4. ASSUME TakeTask PROVE OneDrainInv(s)'
  <2>1. UNCHANGED <<dispatchInProgress, overflowClosed, session, stage, handling>>
    BY <1>4 DEF TakeTask, entryVars, receiverVars
  <2>2. (AboutToSchedule(s)' <=> AboutToSchedule(s)) /\ ~Draining(s)
    BY <1>4, <2>1 DEF TakeTask, AboutToSchedule, Draining
  <2>3. DrainPosted(s) <=> DrainPosted(s)' \/ (Head(tasks).kind = "drain" /\ Head(tasks).sub = s)
    BY <1>4, TailPosted DEF TakeTask
  <2>4. OnePosted(s) => /\ OnePosted(s)'
                        /\ Head(tasks).kind = "drain" /\ Head(tasks).sub = s => ~DrainPosted(s)'
    BY <1>4, TailOnePosted DEF TakeTask
  <2>5. Draining(s)' => Head(tasks).kind = "drain" /\ Head(tasks).sub = s
    BY <1>4 DEF TakeTask, Draining
  <2>6. dispatcher' = "pop" => task'.kind = "drain"
    BY <1>4 DEF TakeTask
  <2> QED BY <2>1, <2>2, <2>3, <2>4, <2>5, <2>6
<1>5. ASSUME NEW t \in Subs, PopEvent(t) PROVE OneDrainInv(s)'
  <2>1. UNCHANGED <<overflowClosed, session, stage, handling, tasks>> /\ task.sub = t
    BY <1>5 DEF PopEvent, receiverVars
  <2>2. /\ AboutToSchedule(s)' <=> AboutToSchedule(s)
        /\ DrainPosted(s)' <=> DrainPosted(s)
        /\ OnePosted(s)' <=> OnePosted(s)
    BY <2>1 DEF AboutToSchedule, DrainPosted, OnePosted
  <2>3. CASE eventQueue[t] # <<>> /\ ~overflowClosed[t]
    <3>1. Draining(s)' <=> Draining(s)
      BY <1>5, <2>3 DEF PopEvent, Draining, TypeOK, DispatcherTypes, Task
    <3>2. dispatchInProgress' = dispatchInProgress
      BY <1>5, <2>3 DEF PopEvent
    <3>3. dispatcher' # "pop"
      BY <1>5, <2>3 DEF PopEvent
    <3> QED BY <2>1, <2>2, <3>1, <3>2, <3>3
  <2>4. CASE ~(eventQueue[t] # <<>> /\ ~overflowClosed[t])
    <3>1. dispatchInProgress' = [dispatchInProgress EXCEPT ![t] = FALSE] /\ ~Draining(s)' /\ dispatcher' # "pop"
      BY <1>5, <2>4 DEF PopEvent, DrainEnded, Draining
    <3>2. CASE s = t
      <4>1. Draining(s)
        BY <1>5, <3>2 DEF PopEvent, Draining
      <4> QED BY <2>1, <2>2, <3>1, <4>1
    <3>3. CASE s # t
      <4>1. dispatchInProgress'[s] = dispatchInProgress[s]
        BY <3>1, <3>3 DEF TypeOK, EntryTypes
      <4> QED BY <2>1, <2>2, <3>1, <4>1
    <3> QED BY <3>2, <3>3
  <2> QED BY <2>3, <2>4
<1>6. ASSUME NEW t \in Subs, Invoke(t) PROVE OneDrainInv(s)'
  <2>1. UNCHANGED <<dispatchInProgress, overflowClosed, session, stage, handling, tasks, task>>
    BY <1>6 DEF Invoke, entryVars, receiverVars
  <2>2. /\ AboutToSchedule(s)' <=> AboutToSchedule(s)
        /\ DrainPosted(s)' <=> DrainPosted(s)
        /\ OnePosted(s)' <=> OnePosted(s)
    BY <2>1 DEF AboutToSchedule, DrainPosted, OnePosted
  <2>3. (Draining(s)' <=> Draining(s)) /\ (dispatcher' = "pop" => task'.kind = "drain")
    BY <1>6 DEF Invoke, Draining
  <2> QED BY <2>1, <2>2, <2>3
<1>7. ASSUME NEW t \in Subs,
             DispatchEndOfStoredEvents(t) \/ DispatchClosed(t) \/ ForgetCloseRequest(t)
      PROVE  OneDrainInv(s)'
  <2>1. /\ UNCHANGED <<dispatchInProgress, overflowClosed, session, tasks, dispatcher, task>>
        /\ stage' \in {"post", "unrequest"}
    BY <1>7 DEF DispatchEndOfStoredEvents, DispatchClosed, ForgetCloseRequest, dispatcherVars
  <2>2. ~AboutToSchedule(s)'
    BY <2>1 DEF AboutToSchedule
  <2>3. /\ Draining(s)' <=> Draining(s)
        /\ DrainPosted(s)' <=> DrainPosted(s)
        /\ OnePosted(s)' <=> OnePosted(s)
    BY <2>1 DEF Draining, DrainPosted, OnePosted
  <2> QED BY <2>1, <2>2, <2>3
<1>8. ASSUME HandleIncomingMessage PROVE OneDrainInv(s)'
  <2>1. UNCHANGED <<dispatchInProgress, overflowClosed, session, tasks, dispatcher, task>>
    BY <1>8 DEF HandleIncomingMessage, entryVars, dispatcherVars
  <2>2. stage' \in {"idle", "enqueue", "activate", "close", "post"}
    <3>1. inbox # <<>> => Head(inbox) \in Message
      BY DEF TypeOK, RelayTypes
    <3> QED BY <1>8, <3>1 DEF HandleIncomingMessage, receiverVars, FirstStage, Message, MessageKinds
  <2>3. ~AboutToSchedule(s)'
    BY <2>2 DEF AboutToSchedule
  <2>4. /\ Draining(s)' <=> Draining(s)
        /\ DrainPosted(s)' <=> DrainPosted(s)
        /\ OnePosted(s)' <=> OnePosted(s)
    BY <2>1 DEF Draining, DrainPosted, OnePosted
  <2> QED BY <2>1, <2>2, <2>3, <2>4
<1>9. ASSUME StopReceiveLoop \/ ReleaseSession PROVE OneDrainInv(s)'
  <2>1. /\ UNCHANGED <<dispatchInProgress, overflowClosed, stage, handling, tasks, dispatcher, task>>
        /\ session' # "gone" => session # "gone"
    BY <1>9 DEF StopReceiveLoop, ReleaseSession, entryVars, receiverVars, dispatcherVars
  <2> QED BY <2>1 DEF Draining, DrainPosted, OnePosted, AboutToSchedule
<1>10. ASSUME NEW u \in Users, NEW t \in Subs, BeginOpen(u, t) \/ BeginUpdate(u, t) \/ BeginClose(u, t)
       PROVE  OneDrainInv(s)'
  BY <1>0, <1>10 DEF BeginOpen, BeginUpdate, BeginClose, entryVars, receiverVars, dispatcherVars
<1>11. ASSUME NEW u \in Users, Continue(u) PROVE OneDrainInv(s)'
  BY <1>0, <1>11 DEF Continue, SendRequest, SendClose, EraseEntry, SetPending, RestoreStatus,
     entryVars, receiverVars, dispatcherVars
<1>12. ASSUME NEW t \in Subs, NEW kind \in MessageKinds, RelaySends(t, kind) PROVE OneDrainInv(s)'
  BY <1>0, <1>12 DEF RelaySends, entryVars, receiverVars, dispatcherVars
<1>13. CASE UNCHANGED vars
  BY <1>0, <1>13 DEF vars, entryVars, receiverVars, dispatcherVars
<1>14. ASSUME NEW t \in Subs, UnscheduleDrain(t) PROVE FALSE
  BY <1>14 DEF UnscheduleDrain
<1> QED
  BY <1>1, <1>2, <1>3, <1>4, <1>5, <1>6, <1>7, <1>8, <1>9, <1>10, <1>11, <1>12, <1>13, <1>14
     DEF Next, ReceiveThread, DispatcherThread, Handle, OpenSubscription, UpdateFilters,
         CloseSubscription, Done

(***************************************************************************)
(* Unless Post fails after it has queued a task, two drains of the same    *)
(* subscription never exist at once.                                       *)
(***************************************************************************)
THEOREM OneDrainHolds == ASSUME PostMayFail = FALSE PROVE Spec => []OneDrain
<1> DEFINE Inv == TypeOK /\ \A s \in Subs : OneDrainInv(s)
<1>1. Init => Inv
  BY InitTypeOK DEF Init, OneDrainInv, HasDrain, OnePosted, Draining, DrainPosted, AboutToSchedule
<1>2. Inv /\ [Next]_vars => Inv'
  <2> SUFFICES ASSUME Inv, [Next]_vars PROVE Inv'
    OBVIOUS
  <2>1. TypeOK'
    BY EntryTypesStep, RelayTypesStep, ReceiverTypesStep, DispatcherTypesStep, UserTypesStep,
       HistoryTypesStep DEF TypeOK
  <2>2. \A s \in Subs : OneDrainInv(s)'
    BY OneDrainInvStep
  <2> QED BY <2>1, <2>2
<1>3. Inv => OneDrain
  BY DEF OneDrain, OneDrainInv, OnePosted
<1> QED
  BY <1>1, <1>2, <1>3, PTL DEF Spec
-----------------------------------------------------------------------------
(***************************************************************************)
(* The status of a subscription.  When no send fails, filters are not      *)
(* updated and an overflow drops events, the last word of the relay about  *)
(* a subscription is CLOSED, and the receive thread works on messages in   *)
(* the order in which they came.  So nothing that would change a status    *)
(* may be on its way once the status is Closed.                            *)
(***************************************************************************)
IsAbout(m, s) == m.sub = s /\ m.kind # "NOTICE"
NoneWaits(s) == \A i \in DOMAIN inbox : ~IsAbout(inbox[i], s)

IsClosed(m, s)   == m.sub = s /\ m.kind = "CLOSED"
ClosedWaits(s)   == \E i \in DOMAIN inbox : IsClosed(inbox[i], s)
NoneBehind(s) ==
  \A i, j \in DOMAIN inbox : IsClosed(inbox[i], s) /\ i < j => ~IsAbout(inbox[j], s)

Asks(u, s)   == subject[u] = s /\ call[u] = "request"
Closes(u, s) == subject[u] = s /\ call[u] = "close"

\* What a task of the kind promises its callback about the status.
Announced(s, kind) == /\ kind = "EOSE" => status[s] # "Pending"
                      /\ kind = "CLOSED" => status[s] = "Closed"

\* Nothing has happened to a subscription whose REQ the relay has not got.
Untouched(s) ==
  s \notin registered \/ (\E u \in Users : Asks(u, s)) =>
    /\ relay[s] = "none" /\ NoneWaits(s)
    /\ ~(stage \in {"activate", "close", "unrequest"} /\ handling.sub = s)
    /\ status[s] = "Pending" /\ closesSent[s] = 0
    /\ \A u \in Users : ~Closes(u, s)

OneAsks(s) ==
  \A u \in Users : Asks(u, s) => s \in registered /\ \A v \in Users : Asks(v, s) => u = v

\* After CLOSED comes nothing about the subscription, in the inbox and behind it.
ClosedComesLast(s) ==
  /\ (ClosedWaits(s) => relay[s] = "none") /\ NoneBehind(s)
  /\ stage \in {"close", "unrequest"} /\ handling.sub = s => relay[s] = "none" /\ NoneWaits(s)
  /\ status[s] = "Closed" =>
       relay[s] = "none" /\ NoneWaits(s) /\ ~(stage = "activate" /\ handling.sub = s)
  /\ stage = "unrequest" /\ handling.sub = s => status[s] = "Closed"

\* One CLOSE, sent or about to be sent, and then no other call may close.
ClosesOnce(s) ==
  /\ closesSent[s] > 0 \/ (\E u \in Users : Closes(u, s)) => ~MayClose(s)
  /\ \A u, v \in Users : Closes(u, s) /\ Closes(v, s) => u = v
  /\ closesSent[s] > 0 => \A u \in Users : ~Closes(u, s)

\* A callback that is posted, or about to be, was announced by the status.
CallbacksAnnounced(s) ==
  /\ stage = "post" /\ s \in targets => Announced(s, handling.kind)
  /\ \A i \in DOMAIN tasks : tasks[i].sub = s => Announced(s, tasks[i].kind)
  /\ dispatcher = "invoke" /\ task.sub = s => Announced(s, task.kind)

\* Each thread's place fits what it works on; no call is in an error path.
HandlesInStage ==
  /\ stage = "activate" => handling.kind = "EOSE"
  /\ stage \in {"close", "unrequest"} => handling.kind = "CLOSED"
  /\ stage = "post" => handling.kind # "EVENT"
  /\ stage # "idle" /\ handling.kind # "NOTICE" => targets \subseteq {handling.sub}
  /\ dispatcher = "pop" => task.kind = "drain"
  /\ \A u \in Users : call[u] \in {"idle", "request", "close"}

StatusInv(s) == Untouched(s) /\ OneAsks(s) /\ ClosedComesLast(s) /\ ClosesOnce(s)

LEMMA HandlesInStageStep ==
  ASSUME Throws = FALSE, MayUpdate = FALSE, SendMayFail = FALSE,
         TypeOK, HandlesInStage, [Next]_vars
  PROVE  HandlesInStage'
<1> USE DEF HandlesInStage
<1>0. ASSUME UNCHANGED <<stage, handling, targets, dispatcher, task, call>> PROVE HandlesInStage'
  BY <1>0
<1>1. ASSUME HandleIncomingMessage PROVE HandlesInStage'
  <2>1. UNCHANGED <<dispatcher, task, call>>
    BY <1>1 DEF HandleIncomingMessage, dispatcherVars, userVars
  <2>2. CASE Collected(Head(inbox)) = {}
    BY <1>0, <1>1, <2>1, <2>2 DEF HandleIncomingMessage, receiverVars
  <2>3. CASE Collected(Head(inbox)) # {}
    <3>0. Head(inbox) \in Message
      BY <1>1 DEF HandleIncomingMessage, TypeOK, RelayTypes
    <3>1. Head(inbox).kind \in MessageKinds
      BY <3>0 DEF Message
    <3>2. handling' = Head(inbox) /\ stage' = FirstStage(handling') /\ targets' = Collected(handling')
      BY <1>1, <2>3 DEF HandleIncomingMessage
    <3>3. /\ stage' = "activate" => handling'.kind = "EOSE"
          /\ stage' \notin {"unrequest", "idle"}
          /\ stage' = "close" => handling'.kind = "CLOSED"
          /\ stage' = "post" => handling'.kind # "EVENT"
      BY <3>1, <3>2 DEF FirstStage, MessageKinds
    <3>4. handling'.kind # "NOTICE" => targets' \subseteq {handling'.sub}
      BY <3>2 DEF Collected
    <3> QED BY <2>1, <3>3, <3>4
  <2> QED BY <2>2, <2>3
<1>2. ASSUME NEW s \in Subs, EnqueueEvent(s) PROVE HandlesInStage'
  <2>1. /\ UNCHANGED <<handling, dispatcher, task, call>> /\ stage # "idle"
        /\ stage' \in {"idle", "schedule"} /\ (stage' = "schedule" => targets' = targets)
    BY <1>2 DEF EnqueueEvent, dispatcherVars, userVars
  <2> QED BY <2>1
<1>3. ASSUME NEW s \in Subs, ScheduleDrain(s) \/ UnscheduleDrain(s) PROVE HandlesInStage'
  <2>1. /\ UNCHANGED <<handling, dispatcher, task, call>> /\ stage # "idle"
        /\ stage' \in {"idle", "unschedule"} /\ (stage' = "unschedule" => targets' = targets)
    BY <1>3 DEF ScheduleDrain, UnscheduleDrain, dispatcherVars, userVars
  <2> QED BY <2>1
<1>4. ASSUME NEW s \in Subs, DispatchEndOfStoredEvents(s) \/ DispatchClosed(s) \/ ForgetCloseRequest(s)
      PROVE  HandlesInStage'
  <2>1. /\ UNCHANGED <<handling, targets, dispatcher, task, call>>
        /\ \/ stage = "activate" /\ stage' = "post"
           \/ stage = "close" /\ stage' = "unrequest"
           \/ stage = "unrequest" /\ stage' = "post"
    BY <1>4 DEF DispatchEndOfStoredEvents, DispatchClosed, ForgetCloseRequest, dispatcherVars, userVars
  <2> QED BY <2>1
<1>5. ASSUME NEW s \in Subs, PostCallback(s) PROVE HandlesInStage'
  <2>1. /\ UNCHANGED <<handling, dispatcher, task, call>> /\ stage = "post"
        /\ stage' \in {"idle", "post"} /\ targets' = targets \ {s}
    BY <1>5 DEF PostCallback, userVars
  <2>2. handling'.kind # "NOTICE" => targets' \subseteq {handling'.sub}
    BY <2>1
  <2> QED BY <2>1, <2>2
<1>6. ASSUME TakeTask PROVE HandlesInStage'
  <2>1. UNCHANGED <<stage, handling, targets, call>> /\ (dispatcher' = "pop" => task'.kind = "drain")
    BY <1>6 DEF TakeTask, receiverVars, userVars
  <2> QED BY <2>1
<1>7. ASSUME NEW s \in Subs, PopEvent(s) PROVE HandlesInStage'
  <2>1. UNCHANGED <<stage, handling, targets, call>> /\ dispatcher' # "pop"
    BY <1>7 DEF PopEvent, receiverVars, userVars
  <2> QED BY <2>1
<1>8. ASSUME NEW s \in Subs, Invoke(s) PROVE HandlesInStage'
  <2>1. /\ UNCHANGED <<stage, handling, targets, call, task>>
        /\ dispatcher' = "pop" => task.kind = "drain"
    BY <1>8 DEF Invoke, receiverVars, userVars
  <2> QED BY <2>1
<1>9. ASSUME NEW u \in Users, NEW s \in Subs, BeginOpen(u, s) \/ BeginUpdate(u, s) \/ BeginClose(u, s)
      PROVE  HandlesInStage'
  <2>1. /\ UNCHANGED <<stage, handling, targets, dispatcher, task>>
        /\ \E at \in {"request", "close"} : call' = [call EXCEPT ![u] = at]
    BY <1>9 DEF BeginOpen, BeginUpdate, BeginClose, Begin, receiverVars, dispatcherVars
  <2> QED BY <2>1 DEF TypeOK, UserTypes
<1>10. ASSUME NEW u \in Users, Continue(u) PROVE HandlesInStage'
  <2>1. /\ UNCHANGED <<stage, handling, targets, dispatcher, task>>
        /\ call' = [call EXCEPT ![u] = "idle"]
    BY <1>10 DEF Continue, SendRequest, SendClose, EraseEntry, SetPending, RestoreStatus, Return,
       receiverVars, dispatcherVars
  <2> QED BY <2>1 DEF TypeOK, UserTypes
<1>11. ASSUME NEW s \in Subs, NEW kind \in MessageKinds, RelaySends(s, kind) PROVE HandlesInStage'
  BY <1>0, <1>11 DEF RelaySends, receiverVars, dispatcherVars, userVars
<1>12. CASE StopReceiveLoop \/ ReleaseSession \/ UNCHANGED vars
  BY <1>0, <1>12 DEF StopReceiveLoop, ReleaseSession, vars, receiverVars, dispatcherVars, userVars
<1> QED
  BY <1>1, <1>2, <1>3, <1>4, <1>5, <1>6, <1>7, <1>8, <1>9, <1>10, <1>11, <1>12
     DEF Next, ReceiveThread, DispatcherThread, Handle, OpenSubscription, UpdateFilters,
         CloseSubscription, Done

LEMMA AppendToInbox ==
  ASSUME TypeOK, NEW m \in Message, inbox' = Append(inbox, m), NEW s \in Subs
  PROVE  /\ NoneWaits(s)' <=> NoneWaits(s) /\ ~IsAbout(m, s)
         /\ ClosedWaits(s)' <=> ClosedWaits(s) \/ IsClosed(m, s)
         /\ NoneBehind(s) /\ (ClosedWaits(s) => ~IsAbout(m, s)) => NoneBehind(s)'
<1>1. inbox \in Seq(Message)
  BY DEF TypeOK, RelayTypes
<1>2. /\ DOMAIN inbox' = 1..(Len(inbox) + 1)
      /\ DOMAIN inbox = 1..Len(inbox) /\ Len(inbox) \in Nat
      /\ \A i \in DOMAIN inbox : inbox'[i] = inbox[i]
      /\ inbox'[Len(inbox) + 1] = m
  BY <1>1
<1>3. ASSUME NEW i \in DOMAIN inbox' PROVE i \in DOMAIN inbox \/ i = Len(inbox) + 1
  BY <1>2
<1>4. DOMAIN inbox \subseteq DOMAIN inbox' /\ Len(inbox) + 1 \in DOMAIN inbox'
  BY <1>2
<1>5. NoneWaits(s)' <=> NoneWaits(s) /\ ~IsAbout(m, s)
  BY <1>2, <1>3, <1>4 DEF NoneWaits
<1>6. ClosedWaits(s)' <=> ClosedWaits(s) \/ IsClosed(m, s)
  BY <1>2, <1>3, <1>4 DEF ClosedWaits
<1>7. ASSUME NoneBehind(s), ClosedWaits(s) => ~IsAbout(m, s),
             NEW i \in DOMAIN inbox', NEW j \in DOMAIN inbox', IsClosed(inbox'[i], s), i < j
      PROVE  ~IsAbout(inbox'[j], s)
  <2>1. i \in DOMAIN inbox
    BY <1>2, <1>7
  <2>2. CASE j \in DOMAIN inbox
    BY <1>2, <1>7, <2>1, <2>2 DEF NoneBehind
  <2>3. CASE j = Len(inbox) + 1
    BY <1>2, <1>7, <2>1, <2>3 DEF ClosedWaits
  <2> QED BY <1>3, <2>2, <2>3
<1>8. NoneBehind(s) /\ (ClosedWaits(s) => ~IsAbout(m, s)) => NoneBehind(s)'
  BY <1>7 DEF NoneBehind
<1> QED
  BY <1>5, <1>6, <1>8

LEMMA TailOfInbox ==
  ASSUME TypeOK, inbox # <<>>, inbox' = Tail(inbox), NEW s \in Subs
  PROVE  /\ NoneWaits(s) <=> NoneWaits(s)' /\ ~IsAbout(Head(inbox), s)
         /\ ClosedWaits(s) <=> ClosedWaits(s)' \/ IsClosed(Head(inbox), s)
         /\ NoneBehind(s) => NoneBehind(s)' /\ (IsClosed(Head(inbox), s) => NoneWaits(s)')
<1>1. inbox \in Seq(Message)
  BY DEF TypeOK, RelayTypes
<1>2. /\ DOMAIN inbox = 1..Len(inbox) /\ Len(inbox) \in Nat \ {0}
      /\ DOMAIN inbox' = 1..(Len(inbox) - 1)
      /\ \A i \in DOMAIN inbox' : inbox'[i] = inbox[i + 1]
      /\ Head(inbox) = inbox[1] /\ 1 \in DOMAIN inbox
  BY <1>1
<1>3. ASSUME NEW i \in DOMAIN inbox, i # 1 PROVE i - 1 \in DOMAIN inbox' /\ inbox'[i - 1] = inbox[i]
  BY <1>2, <1>3
<1>4. ASSUME NEW i \in DOMAIN inbox'
      PROVE  i + 1 \in DOMAIN inbox /\ inbox[i + 1] = inbox'[i] /\ 1 < i + 1
  BY <1>2, <1>4
<1>5. NoneWaits(s) <=> NoneWaits(s)' /\ ~IsAbout(Head(inbox), s)
  <2>1. NoneWaits(s) => NoneWaits(s)' /\ ~IsAbout(Head(inbox), s)
    BY <1>2, <1>4 DEF NoneWaits
  <2>2. ASSUME NoneWaits(s)', ~IsAbout(Head(inbox), s), NEW i \in DOMAIN inbox
        PROVE  ~IsAbout(inbox[i], s)
    <3>1. CASE i = 1
      BY <1>2, <2>2, <3>1
    <3>2. CASE i # 1
      BY <1>3, <2>2, <3>2 DEF NoneWaits
    <3> QED BY <3>1, <3>2
  <2> QED BY <2>1, <2>2 DEF NoneWaits
<1>6. ClosedWaits(s) <=> ClosedWaits(s)' \/ IsClosed(Head(inbox), s)
  <2>1. ClosedWaits(s)' \/ IsClosed(Head(inbox), s) => ClosedWaits(s)
    BY <1>2, <1>4 DEF ClosedWaits
  <2>2. ASSUME ClosedWaits(s) PROVE ClosedWaits(s)' \/ IsClosed(Head(inbox), s)
    <3>1. PICK i \in DOMAIN inbox : IsClosed(inbox[i], s)
      BY <2>2 DEF ClosedWaits
    <3>2. CASE i = 1
      BY <1>2, <3>1, <3>2
    <3>3. CASE i # 1
      BY <1>3, <3>1, <3>3 DEF ClosedWaits
    <3> QED BY <3>2, <3>3
  <2> QED BY <2>1, <2>2
<1>7. ASSUME NoneBehind(s) PROVE NoneBehind(s)' /\ (IsClosed(Head(inbox), s) => NoneWaits(s)')
  <2>1. ASSUME NEW i \in DOMAIN inbox', NEW j \in DOMAIN inbox', IsClosed(inbox'[i], s), i < j
        PROVE  ~IsAbout(inbox'[j], s)
    <3>1. i + 1 < j + 1
      BY <1>2, <2>1
    <3> QED BY <1>4, <1>7, <2>1, <3>1 DEF NoneBehind
  <2>2. ASSUME IsClosed(Head(inbox), s), NEW j \in DOMAIN inbox' PROVE ~IsAbout(inbox'[j], s)
    BY <1>2, <1>4, <1>7, <2>2 DEF NoneBehind
  <2> QED BY <2>1, <2>2 DEF NoneBehind, NoneWaits
<1> QED
  BY <1>5, <1>6, <1>7

LEMMA StatusInvStep ==
  ASSUME Throws = FALSE, MayUpdate = FALSE, SendMayFail = FALSE,
         TypeOK, HandlesInStage, [Next]_vars, NEW s \in Subs, StatusInv(s)
  PROVE  StatusInv(s)'
<1> USE DEF StatusInv
<1>a. ASSUME inbox' = inbox
      PROVE  /\ NoneWaits(s)' <=> NoneWaits(s)
             /\ ClosedWaits(s)' <=> ClosedWaits(s)
             /\ NoneBehind(s)' <=> NoneBehind(s)
  BY <1>a DEF NoneWaits, ClosedWaits, NoneBehind
<1>0. ASSUME UNCHANGED <<registered, status, closeRequested, relay, inbox, call, subject, closesSent>>,
             \/ UNCHANGED <<stage, handling>>
             \/ stage' \notin {"activate", "close", "unrequest"}
      PROVE  StatusInv(s)'
  BY <1>0, <1>a DEF Untouched, OneAsks, ClosedComesLast, ClosesOnce, Asks, Closes, MayClose
<1>1. ASSUME NEW t \in Subs, NEW kind \in MessageKinds, RelaySends(t, kind) PROVE StatusInv(s)'
  <2> DEFINE m == [kind |-> kind, sub |-> t, id |-> emitted + 1]
  <2>1. UNCHANGED <<registered, status, closeRequested, stage, handling, call, subject, closesSent>>
    BY <1>1 DEF RelaySends, entryVars, receiverVars, userVars, history
  <2>2. m \in Message
    BY DEF Message, TypeOK, RelayTypes
  <2>3. inbox' = Append(inbox, m)
    BY <1>1 DEF RelaySends
  <2>4. /\ NoneWaits(s)' <=> NoneWaits(s) /\ ~IsAbout(m, s)
        /\ ClosedWaits(s)' <=> ClosedWaits(s) \/ IsClosed(m, s)
        /\ NoneBehind(s) /\ (ClosedWaits(s) => ~IsAbout(m, s)) => NoneBehind(s)'
    BY <2>2, <2>3, AppendToInbox
  <2>5. CASE IsAbout(m, s)
    <3>1. t = s /\ kind \in {"EVENT", "EOSE", "CLOSED"}
      BY <2>5 DEF IsAbout, MessageKinds
    <3>2. relay[s] # "none" /\ (IsClosed(m, s) => relay'[s] = "none")
      BY <1>1, <3>1 DEF RelaySends, IsClosed, TypeOK, RelayTypes
    <3> QED BY <2>1, <2>4, <3>2 DEF Untouched, OneAsks, ClosedComesLast, ClosesOnce, Asks, Closes, MayClose
  <2>6. CASE ~IsAbout(m, s)
    <3>1. t # s \/ kind = "NOTICE"
      BY <2>6 DEF IsAbout
    <3>2. ~IsClosed(m, s)
      BY <2>6 DEF IsAbout, IsClosed
    <3>3. \/ relay' = relay
          \/ kind \in {"EOSE", "CLOSED"} /\ \E r : relay' = [relay EXCEPT ![t] = r]
      BY <1>1 DEF RelaySends, MessageKinds
    <3>4. relay'[s] = relay[s]
      BY <3>1, <3>3 DEF TypeOK, RelayTypes
    <3> QED BY <2>1, <2>4, <2>6, <3>2, <3>4 DEF Untouched, OneAsks, ClosedComesLast, ClosesOnce, Asks, Closes, MayClose
  <2> QED BY <2>5, <2>6
<1>2. ASSUME HandleIncomingMessage PROVE StatusInv(s)'
  <2>1. UNCHANGED <<registered, status, closeRequested, relay, call, subject, closesSent>>
        /\ stage = "idle" /\ inbox # <<>> /\ inbox' = Tail(inbox)
    BY <1>2 DEF HandleIncomingMessage, entryVars, userVars, history
  <2>2. /\ NoneWaits(s) <=> NoneWaits(s)' /\ ~IsAbout(Head(inbox), s)
        /\ ClosedWaits(s) <=> ClosedWaits(s)' \/ IsClosed(Head(inbox), s)
        /\ NoneBehind(s) => NoneBehind(s)' /\ (IsClosed(Head(inbox), s) => NoneWaits(s)')
    BY <2>1, TailOfInbox
  <2>3. Head(inbox) \in Message
    BY <2>1 DEF TypeOK, RelayTypes
  <2>4. \/ stage' = "idle"
        \/ stage' = FirstStage(handling') /\ handling' = Head(inbox)
    BY <1>2, <2>1 DEF HandleIncomingMessage, receiverVars
  <2>5. stage' \in {"activate", "close", "unrequest"} /\ handling'.sub = s =>
          /\ IsAbout(Head(inbox), s) /\ stage' # "unrequest"
          /\ stage' = "close" => IsClosed(Head(inbox), s)
    <3>1. Head(inbox).kind \in MessageKinds
      BY <2>3 DEF Message
    <3>2. /\ FirstStage(Head(inbox)) = "activate" => Head(inbox).kind = "EOSE"
          /\ FirstStage(Head(inbox)) = "close" => Head(inbox).kind = "CLOSED"
          /\ FirstStage(Head(inbox)) # "unrequest"
      BY <3>1 DEF FirstStage, MessageKinds
    <3> QED BY <2>4, <3>2 DEF IsAbout, IsClosed
  <2> QED BY <2>1, <2>2, <2>5 DEF Untouched, OneAsks, ClosedComesLast, ClosesOnce, Asks, Closes, MayClose
<1>3. ASSUME NEW t \in Subs, DispatchEndOfStoredEvents(t) PROVE StatusInv(s)'
  <2>1. /\ UNCHANGED <<registered, closeRequested, relay, inbox, handling, call, subject, closesSent>>
        /\ stage = "activate" /\ handling.sub = t /\ stage' = "post"
        /\ status' = [status EXCEPT ![t] = "Active"]
    BY <1>3 DEF DispatchEndOfStoredEvents, Activated, relayVars, userVars, history
  <2>2. CASE s = t
    BY <1>a, <2>1, <2>2 DEF Untouched, OneAsks, ClosedComesLast, ClosesOnce, Asks, Closes, MayClose,
       TypeOK, EntryTypes
  <2>3. CASE s # t
    <3>1. status'[s] = status[s]
      BY <2>1, <2>3 DEF TypeOK, EntryTypes
    <3> QED BY <1>a, <2>1, <3>1 DEF Untouched, OneAsks, ClosedComesLast, ClosesOnce, Asks, Closes, MayClose
  <2> QED BY <2>2, <2>3
<1>4. ASSUME NEW t \in Subs, DispatchClosed(t) PROVE StatusInv(s)'
  <2>1. /\ UNCHANGED <<registered, closeRequested, relay, inbox, handling, call, subject, closesSent>>
        /\ stage = "close" /\ handling.sub = t /\ stage' = "unrequest"
        /\ status' = [status EXCEPT ![t] = "Closed"]
    BY <1>4 DEF DispatchClosed, Closed, relayVars, userVars, history
  <2>2. CASE s = t
    BY <1>a, <2>1, <2>2 DEF Untouched, OneAsks, ClosedComesLast, ClosesOnce, Asks, Closes, MayClose,
       TypeOK, EntryTypes
  <2>3. CASE s # t
    <3>1. status'[s] = status[s]
      BY <2>1, <2>3 DEF TypeOK, EntryTypes
    <3> QED BY <1>a, <2>1, <2>3, <3>1 DEF Untouched, OneAsks, ClosedComesLast, ClosesOnce, Asks, Closes, MayClose
  <2> QED BY <2>2, <2>3
<1>5. ASSUME NEW t \in Subs, ForgetCloseRequest(t) PROVE StatusInv(s)'
  <2>1. /\ UNCHANGED <<registered, status, relay, inbox, handling, call, subject, closesSent>>
        /\ stage = "unrequest" /\ handling.sub = t /\ stage' = "post"
        /\ closeRequested' = [closeRequested EXCEPT ![t] = FALSE]
    BY <1>5 DEF ForgetCloseRequest, relayVars, userVars, history
  <2>2. ~MayClose(s) => ~MayClose(s)'
    BY <2>1 DEF MayClose, ClosedComesLast, TypeOK, EntryTypes
  <2> QED BY <1>a, <2>1, <2>2 DEF Untouched, OneAsks, ClosedComesLast, ClosesOnce, Asks, Closes
<1>6. ASSUME NEW u \in Users, NEW t \in Subs, BeginOpen(u, t) PROVE StatusInv(s)'
  <2>1. /\ UNCHANGED <<status, closeRequested, relay, inbox, stage, handling, closesSent>>
        /\ t \notin registered /\ registered' = registered \union {t}
        /\ \A v \in Users : subject[v] = t => call[v] = "idle"
        /\ call[u] = "idle" /\ call' = [call EXCEPT ![u] = "request"]
        /\ subject' = [subject EXCEPT ![u] = t]
    BY <1>6 DEF BeginOpen, Begin, relayVars, receiverVars, history
  <2>2. \A v \in Users : /\ Closes(v, s)' <=> Closes(v, s)
                         /\ Asks(v, s)' <=> Asks(v, s) \/ (v = u /\ s = t)
    BY <2>1 DEF Closes, Asks, TypeOK, UserTypes
  <2>3. CASE s = t
    <3>1. \A v \in Users : ~Asks(v, s)
      BY <2>1, <2>3 DEF Asks
    <3> QED BY <1>a, <2>1, <2>2, <2>3, <3>1 DEF Untouched, OneAsks, ClosedComesLast, ClosesOnce, MayClose
  <2>4. CASE s # t
    BY <1>a, <2>1, <2>2, <2>4 DEF Untouched, OneAsks, ClosedComesLast, ClosesOnce, MayClose
  <2> QED BY <2>3, <2>4
<1>7. ASSUME NEW u \in Users, NEW t \in Subs, BeginClose(u, t) PROVE StatusInv(s)'
  <2>1. /\ UNCHANGED <<registered, relay, inbox, stage, handling, closesSent>>
        /\ Opened(t) /\ MayClose(t)
        /\ closeRequested' = [closeRequested EXCEPT ![t] = TRUE]
        /\ status' = [status EXCEPT ![t] = "Draining"]
        /\ call[u] = "idle" /\ call' = [call EXCEPT ![u] = "close"]
        /\ subject' = [subject EXCEPT ![u] = t]
    BY <1>7 DEF BeginClose, Begin, relayVars, receiverVars, history
  <2>2. \A v \in Users : /\ Asks(v, s)' <=> Asks(v, s)
                         /\ Closes(v, s)' <=> Closes(v, s) \/ (v = u /\ s = t)
    BY <2>1 DEF Closes, Asks, TypeOK, UserTypes
  <2>3. CASE s = t
    <3>1. s \in registered /\ \A v \in Users : ~Asks(v, s)
      BY <2>1, <2>3 DEF Opened, Asks
    <3>2. status'[s] = "Draining" /\ closeRequested'[s] /\ status[s] # "Closed"
      BY <2>1, <2>3 DEF MayClose, TypeOK, EntryTypes
    <3>3. closesSent[s] = 0 /\ \A v \in Users : ~Closes(v, s)
      BY <2>1, <2>3 DEF ClosesOnce, TypeOK, HistoryTypes
    <3> QED BY <1>a, <2>1, <2>2, <2>3, <3>1, <3>2, <3>3
            DEF Untouched, OneAsks, ClosedComesLast, ClosesOnce, MayClose
  <2>4. CASE s # t
    <3>1. status'[s] = status[s] /\ closeRequested'[s] = closeRequested[s]
      BY <2>1, <2>4 DEF TypeOK, EntryTypes
    <3> QED BY <1>a, <2>1, <2>2, <2>4, <3>1 DEF Untouched, OneAsks, ClosedComesLast, ClosesOnce, MayClose
  <2> QED BY <2>3, <2>4
<1>8. ASSUME NEW u \in Users, SendRequest(u) PROVE StatusInv(s)'
  <2>1. /\ UNCHANGED <<registered, status, closeRequested, inbox, stage, handling, subject, closesSent>>
        /\ call[u] = "request" /\ call' = [call EXCEPT ![u] = "idle"]
        /\ relay' = [relay EXCEPT ![subject[u]] = "stored"] \/ relay' = relay
    BY <1>8 DEF SendRequest, MayArrive, HandlesInStage, entryVars, receiverVars, history
  <2>2. \A v \in Users : /\ Closes(v, s)' <=> Closes(v, s)
                         /\ Asks(v, s)' <=> Asks(v, s) /\ v # u
    BY <2>1 DEF Closes, Asks, TypeOK, UserTypes
  <2>3. CASE Asks(u, s)
    <3>1. \A v \in Users : ~Asks(v, s)'
      BY <2>2, <2>3 DEF OneAsks
    <3>2. s \in registered
      BY <2>3 DEF OneAsks
    <3>3. NoneWaits(s) => ~ClosedWaits(s)
      BY DEF NoneWaits, ClosedWaits, IsAbout, IsClosed
    <3> QED BY <1>a, <2>1, <2>2, <2>3, <3>1, <3>2, <3>3
            DEF Untouched, OneAsks, ClosedComesLast, ClosesOnce, MayClose
  <2>4. CASE ~Asks(u, s)
    <3>1. relay'[s] = relay[s]
      BY <2>1, <2>4 DEF Asks, TypeOK, RelayTypes
    <3> QED BY <1>a, <2>1, <2>2, <2>4, <3>1 DEF Untouched, OneAsks, ClosedComesLast, ClosesOnce, MayClose
  <2> QED BY <2>3, <2>4
<1>9. ASSUME NEW u \in Users, SendClose(u) PROVE StatusInv(s)'
  <2>1. /\ UNCHANGED <<registered, status, closeRequested, inbox, stage, handling, subject>>
        /\ call[u] = "close" /\ call' = [call EXCEPT ![u] = "idle"]
        /\ closesSent' = [closesSent EXCEPT ![subject[u]] = @ + 1]
        /\ \/ relay' = [relay EXCEPT ![subject[u]] = IF @ = "none" THEN @ ELSE "closing"]
           \/ relay' = relay
    BY <1>9 DEF SendClose, MayArrive, Return, entryVars, receiverVars
  <2>2. \A v \in Users : /\ Asks(v, s)' <=> Asks(v, s)
                         /\ Closes(v, s)' <=> Closes(v, s) /\ v # u
    BY <2>1 DEF Closes, Asks, TypeOK, UserTypes
  <2>3. CASE Closes(u, s)
    <3>1. \A v \in Users : ~Closes(v, s)'
      BY <2>2, <2>3 DEF ClosesOnce
    <3>2. relay[s] = "none" => relay'[s] = "none"
      BY <2>1 DEF TypeOK, RelayTypes
    <3> QED BY <1>a, <2>1, <2>2, <2>3, <3>1, <3>2
            DEF Untouched, OneAsks, ClosedComesLast, ClosesOnce, MayClose
  <2>4. CASE ~Closes(u, s)
    <3>1. relay'[s] = relay[s] /\ closesSent'[s] = closesSent[s]
      BY <2>1, <2>4 DEF Closes, TypeOK, RelayTypes, HistoryTypes
    <3> QED BY <1>a, <2>1, <2>2, <2>4, <3>1 DEF Untouched, OneAsks, ClosedComesLast, ClosesOnce, MayClose
  <2> QED BY <2>3, <2>4
<1>10. ASSUME NEW t \in Subs, EnqueueEvent(t) PROVE StatusInv(s)'
  BY <1>0, <1>10 DEF EnqueueEvent, entryVars, relayVars, userVars, history
<1>11. ASSUME NEW t \in Subs, ScheduleDrain(t) \/ UnscheduleDrain(t) \/ PostCallback(t) PROVE StatusInv(s)'
  BY <1>0, <1>11 DEF ScheduleDrain, UnscheduleDrain, PostCallback, entryVars, relayVars, userVars, history
<1>12. ASSUME NEW t \in Subs, PopEvent(t) \/ Invoke(t) PROVE StatusInv(s)'
  BY <1>0, <1>12 DEF PopEvent, Invoke, entryVars, relayVars, receiverVars, userVars, history
<1>13. CASE TakeTask \/ StopReceiveLoop \/ ReleaseSession \/ UNCHANGED vars
  BY <1>0, <1>13 DEF TakeTask, StopReceiveLoop, ReleaseSession, vars, entryVars, relayVars, receiverVars,
     userVars, history
<1>14. ASSUME NEW u \in Users, NEW t \in Subs, BeginUpdate(u, t) PROVE FALSE
  BY <1>14 DEF BeginUpdate
<1>15. ASSUME NEW u \in Users, EraseEntry(u) \/ SetPending(u) \/ RestoreStatus(u) PROVE FALSE
  BY <1>15 DEF EraseEntry, SetPending, RestoreStatus, HandlesInStage
<1> QED
  BY <1>1, <1>2, <1>3, <1>4, <1>5, <1>6, <1>7, <1>8, <1>9, <1>10, <1>11, <1>12, <1>13, <1>14, <1>15
     DEF Next, ReceiveThread, DispatcherThread, Handle, OpenSubscription, UpdateFilters,
         CloseSubscription, Continue, Done

\* What one step does to the status and to the CLOSE messages.
LEMMA StatusStep ==
  ASSUME Throws = FALSE, MayUpdate = FALSE, SendMayFail = FALSE,
         TypeOK, HandlesInStage, [Next]_vars, NEW s \in Subs, StatusInv(s)
  PROVE  /\ status[s] = "Closed" => status'[s] = "Closed"
         /\ status[s] # "Pending" => status'[s] # "Pending"
         /\ closesSent[s] > 0 => closesSent'[s] = closesSent[s]
<1> DEFINE Goal == /\ status[s] = "Closed" => status'[s] = "Closed"
                   /\ status[s] # "Pending" => status'[s] # "Pending"
                   /\ closesSent[s] > 0 => closesSent'[s] = closesSent[s]
<1>0. ASSUME UNCHANGED <<status, closesSent>> PROVE Goal
  BY <1>0
<1>1. ASSUME NEW t \in Subs, EnqueueEvent(t) PROVE Goal
  BY <1>0, <1>1 DEF EnqueueEvent, entryVars, history
<1>2. ASSUME NEW t \in Subs, ScheduleDrain(t) \/ UnscheduleDrain(t) \/ ForgetCloseRequest(t) \/ PostCallback(t)
      PROVE  Goal
  BY <1>0, <1>2 DEF ScheduleDrain, UnscheduleDrain, ForgetCloseRequest, PostCallback, entryVars, history
<1>3. ASSUME NEW t \in Subs, DispatchEndOfStoredEvents(t) PROVE Goal
  <2>1. /\ stage = "activate" /\ handling.sub = t /\ closesSent' = closesSent
        /\ status' = [status EXCEPT ![t] = "Active"]
    BY <1>3 DEF DispatchEndOfStoredEvents, Activated, history
  <2> QED BY <2>1 DEF StatusInv, ClosedComesLast, TypeOK, EntryTypes
<1>4. ASSUME NEW t \in Subs, DispatchClosed(t) PROVE Goal
  <2>1. closesSent' = closesSent /\ status' = [status EXCEPT ![t] = "Closed"]
    BY <1>4 DEF DispatchClosed, Closed, history
  <2> QED BY <2>1 DEF TypeOK, EntryTypes
<1>5. ASSUME NEW u \in Users, NEW t \in Subs, BeginClose(u, t) PROVE Goal
  <2>1. MayClose(t) /\ closesSent' = closesSent /\ status' = [status EXCEPT ![t] = "Draining"]
    BY <1>5 DEF BeginClose, history
  <2> QED BY <2>1 DEF MayClose, TypeOK, EntryTypes
<1>6. ASSUME NEW u \in Users, SendClose(u) PROVE Goal
  <2>1. /\ status' = status /\ call[u] = "close"
        /\ closesSent' = [closesSent EXCEPT ![subject[u]] = @ + 1]
    BY <1>6 DEF SendClose, entryVars
  <2>2. subject[u] # s => closesSent'[s] = closesSent[s]
    BY <2>1 DEF TypeOK, HistoryTypes
  <2> QED BY <2>1, <2>2 DEF StatusInv, ClosesOnce, Closes
<1>7. ASSUME NEW u \in Users, NEW t \in Subs, BeginOpen(u, t) \/ SendRequest(u) PROVE Goal
  BY <1>0, <1>7 DEF BeginOpen, SendRequest, entryVars, history
<1>8. ASSUME NEW t \in Subs, PopEvent(t) \/ Invoke(t) PROVE Goal
  BY <1>0, <1>8 DEF PopEvent, Invoke, entryVars, history
<1>9. ASSUME NEW t \in Subs, NEW kind \in MessageKinds, RelaySends(t, kind) PROVE Goal
  BY <1>0, <1>9 DEF RelaySends, entryVars, history
<1>10. CASE HandleIncomingMessage \/ TakeTask \/ StopReceiveLoop \/ ReleaseSession \/ UNCHANGED vars
  BY <1>0, <1>10 DEF HandleIncomingMessage, TakeTask, StopReceiveLoop, ReleaseSession, vars, entryVars,
     history
<1>11. ASSUME NEW u \in Users, NEW t \in Subs, BeginUpdate(u, t) PROVE FALSE
  BY <1>11 DEF BeginUpdate
<1>12. ASSUME NEW u \in Users, EraseEntry(u) \/ SetPending(u) \/ RestoreStatus(u) PROVE FALSE
  BY <1>12 DEF EraseEntry, SetPending, RestoreStatus, HandlesInStage
<1> QED
  BY <1>1, <1>2, <1>3, <1>4, <1>5, <1>6, <1>7, <1>8, <1>9, <1>10, <1>11, <1>12
     DEF Next, ReceiveThread, DispatcherThread, Handle, OpenSubscription, UpdateFilters,
         CloseSubscription, Continue, Done

LEMMA CallbacksAnnouncedStep ==
  ASSUME Throws = FALSE, MayUpdate = FALSE, SendMayFail = FALSE,
         TypeOK, HandlesInStage, [Next]_vars, NEW s \in Subs, StatusInv(s), CallbacksAnnounced(s)
  PROVE  CallbacksAnnounced(s)'
<1>a. \A kind : Announced(s, kind) => Announced(s, kind)'
  BY StatusStep DEF Announced
<1>b. ASSUME UNCHANGED <<tasks, dispatcher, task>>,
             stage' = "post" /\ s \in targets' => Announced(s, handling.kind)'
      PROVE  CallbacksAnnounced(s)'
  BY <1>a, <1>b DEF CallbacksAnnounced
<1>c. ASSUME UNCHANGED <<stage, handling, targets>>,
             \A i \in DOMAIN tasks' : \E j \in DOMAIN tasks : tasks'[i] = tasks[j],
             dispatcher' = "invoke" /\ task'.sub = s => Announced(s, task'.kind)
      PROVE  CallbacksAnnounced(s)'
  <2>1. stage' = "post" /\ s \in targets' => Announced(s, handling.kind)'
    BY <1>a, <1>c DEF CallbacksAnnounced
  <2>2. \A i \in DOMAIN tasks' : tasks'[i].sub = s => Announced(s, tasks'[i].kind)
    BY <1>c DEF CallbacksAnnounced
  <2> QED BY <1>a, <1>c, <2>1, <2>2 DEF CallbacksAnnounced
<1>d. ASSUME NEW new \in Task, tasks' = Append(tasks, new), UNCHANGED <<dispatcher, task>>,
             stage' = "post" /\ s \in targets' => Announced(s, handling.kind)',
             new.sub = s => Announced(s, new.kind)
      PROVE  CallbacksAnnounced(s)'
  <2>1. tasks \in Seq(Task)
    BY DEF TypeOK, DispatcherTypes
  <2>2. \A i \in DOMAIN tasks' : tasks'[i] = new \/ (i \in DOMAIN tasks /\ tasks'[i] = tasks[i])
    BY <1>d, <2>1
  <2>3. \A i \in DOMAIN tasks' : tasks'[i].sub = s => Announced(s, tasks'[i].kind)
    BY <1>d, <2>2 DEF CallbacksAnnounced
  <2> QED BY <1>a, <1>d, <2>3 DEF CallbacksAnnounced
<1>1. ASSUME NEW t \in Subs, EnqueueEvent(t) PROVE CallbacksAnnounced(s)'
  <2>1. stage' # "post" /\ UNCHANGED <<tasks, dispatcher, task>>
    BY <1>1 DEF EnqueueEvent, dispatcherVars
  <2> QED BY <1>b, <2>1
<1>2. ASSUME NEW t \in Subs, UnscheduleDrain(t) \/ DispatchClosed(t) PROVE CallbacksAnnounced(s)'
  <2>1. stage' # "post" /\ UNCHANGED <<tasks, dispatcher, task>>
    BY <1>2 DEF UnscheduleDrain, DispatchClosed, dispatcherVars
  <2> QED BY <1>b, <2>1
<1>3. ASSUME NEW t \in Subs, ScheduleDrain(t) PROVE CallbacksAnnounced(s)'
  <2> DEFINE new == [kind |-> "drain", sub |-> t, id |-> handling.id]
  <2>1. new \in Task
    BY DEF TypeOK, ReceiverTypes, Message, Task
  <2>2. tasks' = Append(tasks, new) /\ UNCHANGED <<dispatcher, task>> /\ stage' # "post"
    BY <1>3 DEF ScheduleDrain, Posted
  <2>3. Announced(s, new.kind)
    BY DEF Announced
  <2> HIDE DEF new
  <2> QED BY <1>d, <2>1, <2>2, <2>3
<1>4. ASSUME NEW t \in Subs, DispatchEndOfStoredEvents(t) PROVE CallbacksAnnounced(s)'
  <2>1. /\ stage = "activate" /\ handling.sub = t /\ UNCHANGED <<tasks, dispatcher, task, handling, targets>>
        /\ status' = [status EXCEPT ![t] = "Active"]
    BY <1>4 DEF DispatchEndOfStoredEvents, Activated, dispatcherVars
  <2>2. handling.kind = "EOSE" /\ targets \subseteq {t}
    BY <2>1 DEF HandlesInStage
  <2>3. s \in targets' => Announced(s, handling.kind)'
    BY <2>1, <2>2 DEF Announced, TypeOK, EntryTypes
  <2> QED BY <1>b, <2>1, <2>3
<1>5. ASSUME NEW t \in Subs, ForgetCloseRequest(t) PROVE CallbacksAnnounced(s)'
  <2>1. /\ stage = "unrequest" /\ handling.sub = t /\ UNCHANGED <<status, tasks, dispatcher, task, handling, targets>>
    BY <1>5 DEF ForgetCloseRequest, dispatcherVars
  <2>2. handling.kind = "CLOSED" /\ targets \subseteq {t}
    BY <2>1 DEF HandlesInStage
  <2>3. s \in targets' => status'[s] = "Closed"
    BY <2>1, <2>2 DEF StatusInv, ClosedComesLast
  <2>4. s \in targets' => Announced(s, handling.kind)'
    BY <2>1, <2>2, <2>3 DEF Announced
  <2> QED BY <1>b, <2>1, <2>4
<1>6. ASSUME NEW t \in Subs, PostCallback(t) PROVE CallbacksAnnounced(s)'
  <2> DEFINE new == [kind |-> PostedKind, sub |-> t, id |-> handling.id]
  <2>1. new \in Task
    BY DEF TypeOK, ReceiverTypes, Message, MessageKinds, Task, PostedKind
  <2>2. /\ tasks' = Append(tasks, new) /\ UNCHANGED <<dispatcher, task, handling>>
        /\ stage = "post" /\ t \in targets /\ targets' = targets \ {t}
    BY <1>6 DEF PostCallback, Posted
  <2>3. PostedKind = handling.kind
    BY <2>2 DEF PostedKind, HandlesInStage
  <2>4. new.sub = s => Announced(s, new.kind)
    BY <2>2, <2>3 DEF CallbacksAnnounced
  <2>5. s \in targets' => Announced(s, handling.kind)'
    BY <1>a, <2>2 DEF CallbacksAnnounced
  <2> HIDE DEF new
  <2> QED BY <1>d, <2>1, <2>2, <2>4, <2>5
<1>7. ASSUME HandleIncomingMessage PROVE CallbacksAnnounced(s)'
  <2>1. UNCHANGED <<tasks, dispatcher, task>> /\ stage = "idle"
    BY <1>7 DEF HandleIncomingMessage, dispatcherVars
  <2>2. stage' = "idle" \/ (handling' = Head(inbox) /\ stage' = FirstStage(handling'))
    BY <1>7 DEF HandleIncomingMessage, receiverVars
  <2>3. Head(inbox).kind \in MessageKinds
    <3>1. Head(inbox) \in Message
      BY <1>7 DEF HandleIncomingMessage, TypeOK, RelayTypes
    <3> QED BY <3>1 DEF Message
  <2>4. stage' = "post" => handling'.kind = "NOTICE"
    BY <2>2, <2>3 DEF FirstStage, MessageKinds
  <2> QED BY <1>b, <2>1, <2>4 DEF Announced
<1>8. ASSUME TakeTask PROVE CallbacksAnnounced(s)'
  <2>1. UNCHANGED <<stage, handling, targets>> /\ tasks # <<>> /\ tasks' = Tail(tasks) /\ task' = Head(tasks)
    BY <1>8 DEF TakeTask, receiverVars
  <2>2. tasks \in Seq(Task)
    BY DEF TypeOK, DispatcherTypes
  <2>3. /\ \A i \in DOMAIN tasks' : i + 1 \in DOMAIN tasks /\ tasks'[i] = tasks[i + 1]
        /\ 1 \in DOMAIN tasks /\ task' = tasks[1]
    BY <2>1, <2>2
  <2> QED BY <1>c, <2>1, <2>3 DEF CallbacksAnnounced
<1>9. ASSUME NEW t \in Subs, PopEvent(t) PROVE CallbacksAnnounced(s)'
  <2>1. UNCHANGED <<stage, handling, targets, tasks>> /\ task.kind = "drain"
    BY <1>9 DEF PopEvent, receiverVars, HandlesInStage
  <2>2. dispatcher' = "invoke" => task'.kind = "drain"
    BY <1>9, <2>1 DEF PopEvent, TypeOK, DispatcherTypes, Task
  <2> QED BY <1>c, <2>1, <2>2 DEF Announced
<1>10. ASSUME NEW t \in Subs, Invoke(t) PROVE CallbacksAnnounced(s)'
  <2>1. UNCHANGED <<stage, handling, targets, tasks>> /\ dispatcher' # "invoke"
    BY <1>10 DEF Invoke, receiverVars
  <2> QED BY <1>c, <2>1
<1>11. ASSUME UNCHANGED <<stage, handling, targets, tasks, dispatcher, task>> PROVE CallbacksAnnounced(s)'
  BY <1>c, <1>11 DEF CallbacksAnnounced
<1>12. ASSUME NEW u \in Users, NEW t \in Subs,
              BeginOpen(u, t) \/ BeginUpdate(u, t) \/ BeginClose(u, t)
       PROVE  CallbacksAnnounced(s)'
  BY <1>11, <1>12 DEF BeginOpen, BeginUpdate, BeginClose, receiverVars, dispatcherVars
<1>13. ASSUME NEW u \in Users, Continue(u) PROVE CallbacksAnnounced(s)'
  BY <1>11, <1>13 DEF Continue, SendRequest, SendClose, EraseEntry, SetPending, RestoreStatus,
     receiverVars, dispatcherVars
<1>14. ASSUME NEW t \in Subs, NEW kind \in MessageKinds, RelaySends(t, kind) PROVE CallbacksAnnounced(s)'
  BY <1>11, <1>14 DEF RelaySends, receiverVars, dispatcherVars
<1>15. CASE StopReceiveLoop \/ ReleaseSession \/ UNCHANGED vars
  BY <1>11, <1>15 DEF StopReceiveLoop, ReleaseSession, vars, receiverVars, dispatcherVars
<1> QED
  BY <1>1, <1>2, <1>3, <1>4, <1>5, <1>6, <1>7, <1>8, <1>9, <1>10, <1>12, <1>13, <1>14, <1>15
     DEF Next, ReceiveThread, DispatcherThread, Handle, OpenSubscription, UpdateFilters,
         CloseSubscription, Done

SInv == /\ TypeOK /\ HandlesInStage
        /\ \A s \in Subs : StatusInv(s) /\ CallbacksAnnounced(s)

LEMMA SInvHolds ==
  ASSUME Throws = FALSE, MayUpdate = FALSE, SendMayFail = FALSE
  PROVE  (Init => SInv) /\ (SInv /\ [Next]_vars => SInv')
<1>1. ASSUME Init PROVE SInv
  <2>1. TypeOK /\ HandlesInStage
    BY <1>1, InitTypeOK DEF Init, HandlesInStage
  <2>2. ASSUME NEW s \in Subs PROVE StatusInv(s) /\ CallbacksAnnounced(s)
    BY <1>1 DEF Init, StatusInv, Untouched, OneAsks, ClosedComesLast, ClosesOnce, CallbacksAnnounced,
       NoneWaits, ClosedWaits, NoneBehind, Asks, Closes, MayClose
  <2> QED BY <2>1, <2>2 DEF SInv
<1>2. ASSUME SInv, [Next]_vars PROVE SInv'
  <2>1. TypeOK'
    BY <1>2, EntryTypesStep, RelayTypesStep, ReceiverTypesStep, DispatcherTypesStep, UserTypesStep,
       HistoryTypesStep DEF SInv, TypeOK
  <2>2. HandlesInStage'
    BY <1>2, HandlesInStageStep DEF SInv
  <2>3. ASSUME NEW s \in Subs PROVE StatusInv(s)' /\ CallbacksAnnounced(s)'
    BY <1>2, StatusInvStep, CallbacksAnnouncedStep DEF SInv
  <2> QED BY <2>1, <2>2, <2>3 DEF SInv
<1> QED BY <1>1, <1>2

(***************************************************************************)
(* When every send succeeds, filters are not updated and an overflow drops *)
(* events: OnEOSE runs when the status is no longer Pending and OnClosed   *)
(* when it is Closed, whatever was queued before them and whatever the     *)
(* application and the relay have done since the callback was posted.      *)
(***************************************************************************)
THEOREM StatusSeenHolds ==
  ASSUME Throws = FALSE, MayUpdate = FALSE, SendMayFail = FALSE
  PROVE  Spec => []StatusSeenByCallback
<1>1. (Init => SInv) /\ (SInv /\ [Next]_vars => SInv')
  BY SInvHolds
<1>2. ASSUME SInv PROVE StatusSeenByCallback
  <2>1. task.sub \in Subs
    BY <1>2 DEF SInv, TypeOK, DispatcherTypes, Task
  <2> QED BY <1>2, <2>1 DEF SInv, StatusSeenByCallback, CallbacksAnnounced, Announced
<1> QED BY <1>1, <1>2, PTL DEF Spec

(***************************************************************************)
(* Under the same choices a subscription that is Closed stays Closed, and  *)
(* CLOSE is sent once, however many threads call Close and whenever the    *)
(* relay's CLOSED comes between them.                                      *)
(***************************************************************************)
THEOREM ClosedStaysClosed ==
  ASSUME Throws = FALSE, MayUpdate = FALSE, SendMayFail = FALSE
  PROVE  Spec => ClosedIsFinal
<1>1. (Init => SInv) /\ (SInv /\ [Next]_vars => SInv')
  BY SInvHolds
<1>2. ASSUME SInv, [Next]_vars, NEW s \in Subs
      PROVE  /\ status[s] = "Closed" => status'[s] = "Closed"
             /\ closesSent[s] > 0 => closesSent'[s] = closesSent[s]
  BY <1>2, StatusStep DEF SInv
<1>3. SInv /\ [Next]_vars =>
        [\A s \in Subs : /\ status[s] = "Closed" => status'[s] = "Closed"
                         /\ closesSent[s] > 0 => closesSent'[s] = closesSent[s]]_<<status, closesSent>>
  BY <1>2
<1> QED BY <1>1, <1>3, PTL DEF Spec, ClosedIsFinal
=============================================================================
