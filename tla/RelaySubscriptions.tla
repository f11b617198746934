------------------------- MODULE RelaySubscriptions -------------------------
(***************************************************************************)
(* The subscriptions of one relay session and the threads that change      *)
(* them:                                                                   *)
(*                                                                         *)
(*   - application threads in OpenSubscription, UpdateFilters, Close and   *)
(*     DisconnectRelay;                                                    *)
(*   - the session's receive thread in HandleIncomingMessage;              *)
(*   - the dispatcher's STA thread, which runs posted tasks one by one:    *)
(*     the drain task of a subscription, and OnEOSE, OnClosed and OnNotice.*)
(*                                                                         *)
(* A section under subscriptionMutex is one step, and so are one send, one *)
(* Post and one callback; between two of them the other threads may run.   *)
(* The relay answers a request in order (relay -> inbox); the path between *)
(* them and Post's wake-up of the dispatcher have modules of their own     *)
(* (RelayLink, CallbackDispatcher).                                        *)
(***************************************************************************)
EXTENDS Integers, Sequences, FiniteSets

CONSTANTS
  Subs,         \* subscriptions the application may open
  Users,        \* application threads
  MaxQueue,     \* options.maxQueueLength, 0 when it is not set
  Throws,       \* options.overflowStrategy is QueueOverflowStrategy_Throw
  MayUpdate,    \* the application calls UpdateFilters
  SendMayFail,  \* SendText may fail
  SendMayBeLost, \* SendText may succeed for a message that WinHTTP could not send
  PostMayFail,  \* Post may fail after it has queued the task
  MaxMessages,  \* bound: messages the relay sends
  MaxCalls      \* bound: calls of the application

ASSUME SubscriptionsAssumption ==
  /\ Subs # {}
  /\ MaxQueue \in Nat /\ MaxMessages \in Nat /\ MaxCalls \in Nat
  /\ {Throws, MayUpdate, SendMayFail, SendMayBeLost, PostMayFail} \subseteq BOOLEAN

VARIABLES
  registered,         \* ids in state->subscriptions
  status,             \* SubscriptionEntry::status
  closeRequested,     \* SubscriptionEntry::closeRequested
  overflowClosed,     \* SubscriptionEntry::overflowClosed
  eventQueue,         \* SubscriptionEntry::eventQueue
  dispatchInProgress, \* SubscriptionEntry::dispatchInProgress
  session,            \* "live", "stopping" (StopReceiveLoop) or "gone"
  relay,              \* the relay's side of each subscription
  inbox,              \* messages on their way to the receive thread
  emitted,            \* number of messages sent, which is also the last id
  stage,              \* where the receive thread is
  handling,           \* the message it handles
  targets,            \* subscriptions it has yet to post for
  tasks,              \* ComCallbackDispatcher::queue_
  dispatcher,         \* where the dispatcher thread is
  task,               \* the task it runs
  call,               \* for each application thread, where it is
  subject,            \* the subscription it works on
  previous,           \* Close's previousStatus
  calls,              \* number of calls made
  callbacks,          \* history: callbacks invoked
  closesSent          \* history: CLOSE messages that SendText reported as sent

entryVars == <<registered, status, closeRequested, overflowClosed, eventQueue,
               dispatchInProgress>>
relayVars == <<relay, inbox, emitted>>
receiverVars == <<stage, handling, targets>>
dispatcherVars == <<tasks, dispatcher, task>>
userVars == <<call, subject, previous, calls>>
history == <<callbacks, closesSent>>
vars == <<entryVars, session, relayVars, receiverVars, dispatcherVars, userVars, history>>
-----------------------------------------------------------------------------
Statuses     == {"Pending", "Active", "Draining", "Closed"}
MessageKinds == {"EVENT", "EOSE", "CLOSED", "NOTICE"}
Message      == [kind : MessageKinds, sub : Subs, id : Nat]

\* A task of the dispatcher: a drain, or one callback for the message id.
Task == [kind : {"drain", "EOSE", "CLOSED", "NOTICE"}, sub : Subs, id : Nat]

SomeSub   == CHOOSE s \in Subs : TRUE
NoMessage == [kind |-> "NOTICE", sub |-> SomeSub, id |-> 0]
NoTask    == [kind |-> "NOTICE", sub |-> SomeSub, id |-> 0]

Stages == {"idle", "enqueue", "schedule", "unschedule", "activate", "close",
           "unrequest", "post"}
CallStages == {"idle", "request", "erase", "update", "repend", "close", "restore"}

Init ==
  /\ registered = {}
  /\ status = [s \in Subs |-> "Pending"]
  /\ closeRequested = [s \in Subs |-> FALSE]
  /\ overflowClosed = [s \in Subs |-> FALSE]
  /\ eventQueue = [s \in Subs |-> <<>>]
  /\ dispatchInProgress = [s \in Subs |-> FALSE]
  /\ session = "live"
  /\ relay = [s \in Subs |-> "none"] /\ inbox = <<>> /\ emitted = 0
  /\ stage = "idle" /\ handling = NoMessage /\ targets = {}
  /\ tasks = <<>> /\ dispatcher = "idle" /\ task = NoTask
  /\ call = [u \in Users |-> "idle"]
  /\ subject = [u \in Users |-> SomeSub]
  /\ previous = [u \in Users |-> "Pending"]
  /\ calls = 0
  /\ callbacks = [s \in Subs |-> <<>>]
  /\ closesSent = [s \in Subs |-> 0]
-----------------------------------------------------------------------------
(***************************************************************************)
(* The relay: stored events, EOSE, live events, and CLOSED, on its own     *)
(* account or in answer to a CLOSE.  A request it has already is replaced. *)
(***************************************************************************)
RelaySends(s, kind) ==
  /\ session = "live" /\ emitted < MaxMessages
  /\ CASE kind = "EVENT"  -> relay[s] \in {"stored", "live"} /\ UNCHANGED relay
       [] kind = "EOSE"   -> relay[s] = "stored" /\ relay' = [relay EXCEPT ![s] = "live"]
       [] kind = "CLOSED" -> relay[s] # "none"   /\ relay' = [relay EXCEPT ![s] = "none"]
       [] kind = "NOTICE" -> UNCHANGED relay
  /\ emitted' = emitted + 1
  /\ inbox' = Append(inbox, [kind |-> kind, sub |-> s, id |-> emitted + 1])
  /\ UNCHANGED <<entryVars, session, receiverVars, dispatcherVars, userVars, history>>
-----------------------------------------------------------------------------
(***************************************************************************)
(* The receive thread: HandleIncomingMessage.                              *)
(***************************************************************************)
\* A message is taken and its subscriptions are collected; for an id that is
\* not registered, nothing else happens.
Collected(message) ==
  IF message.kind = "NOTICE" THEN registered ELSE registered \intersect {message.sub}

FirstStage(message) ==
  CASE message.kind = "EVENT"  -> "enqueue"
    [] message.kind = "EOSE"   -> "activate"
    [] message.kind = "CLOSED" -> "close"
    [] message.kind = "NOTICE" -> "post"

HandleIncomingMessage ==
  /\ stage = "idle" /\ session = "live" /\ inbox # <<>>
  /\ inbox' = Tail(inbox)
  /\ IF Collected(Head(inbox)) = {}
       THEN UNCHANGED receiverVars
       ELSE /\ handling' = Head(inbox)
            /\ targets' = Collected(Head(inbox))
            /\ stage' = FirstStage(Head(inbox))
  /\ UNCHANGED <<entryVars, session, relay, emitted, dispatcherVars, userVars, history>>

IsFull(queue) == MaxQueue > 0 /\ Len(queue) >= MaxQueue

\* QueueOverflowStrategy_DropOldest.
MutantMakeRoom(queue) == IF IsFull(queue) THEN SubSeq(queue, 1, Len(queue) - 1) ELSE queue
MakeRoom(queue) == IF IsFull(queue) THEN Tail(queue) ELSE queue

\* QueueOverflowStrategy_Throw sets overflowClosed for good.
MutantMarkOverflow(s) == overflowClosed
MarkOverflow(s) == [overflowClosed EXCEPT ![s] = TRUE]

MutantNeedsDrain(s) == TRUE
NeedsDrain(s) == ~dispatchInProgress[s]

\* EnqueueEventForSubscription, one critical section: refused, overflowed, or
\* queued, and then a drain is scheduled unless one is in progress.
EnqueueEvent(s) ==
  /\ stage = "enqueue" /\ handling.sub = s
  /\ \/ /\ overflowClosed[s]
        /\ stage' = "idle" /\ targets' = {}
        /\ UNCHANGED entryVars
     \/ /\ ~overflowClosed[s] /\ Throws /\ IsFull(eventQueue[s])
        /\ overflowClosed' = MarkOverflow(s)
        /\ status' = [status EXCEPT ![s] = "Closed"]
        /\ eventQueue' = [eventQueue EXCEPT ![s] = <<>>]
        /\ dispatchInProgress' = [dispatchInProgress EXCEPT ![s] = FALSE]
        /\ closeRequested' = [closeRequested EXCEPT ![s] = FALSE]
        /\ stage' = "close"
        /\ UNCHANGED <<registered, targets>>
     \/ /\ ~overflowClosed[s] /\ ~(Throws /\ IsFull(eventQueue[s]))
        /\ eventQueue' = [eventQueue EXCEPT ![s] = Append(MakeRoom(@), handling.id)]
        /\ dispatchInProgress' = [dispatchInProgress EXCEPT ![s] = TRUE]
        /\ IF NeedsDrain(s) THEN stage' = "schedule" /\ UNCHANGED targets
                            ELSE stage' = "idle" /\ targets' = {}
        /\ UNCHANGED <<registered, status, closeRequested, overflowClosed>>
  /\ UNCHANGED <<session, relayVars, handling, dispatcherVars, userVars, history>>

\* ComCallbackDispatcher::Post appends the task.
Posted(new) == Append(tasks, new)

\* ScheduleSubscriptionDispatch, which clears the flag again when Post fails.
ScheduleDrain(s) ==
  /\ stage = "schedule" /\ handling.sub = s
  /\ tasks' = Posted([kind |-> "drain", sub |-> s, id |-> handling.id])
  /\ \/ stage' = "idle" /\ targets' = {}
     \/ PostMayFail /\ stage' = "unschedule" /\ UNCHANGED targets
  /\ UNCHANGED <<entryVars, session, relayVars, handling, dispatcher, task, userVars, history>>

UnscheduleDrain(s) ==
  /\ stage = "unschedule" /\ handling.sub = s
  /\ dispatchInProgress' = [dispatchInProgress EXCEPT ![s] = FALSE]
  /\ stage' = "idle" /\ targets' = {}
  /\ UNCHANGED <<registered, status, closeRequested, overflowClosed, eventQueue, session,
                 relayVars, handling, dispatcherVars, userVars, history>>

\* UpdateSubscriptionStatus for EOSE, whatever the status was ...
Activated(s) == [status EXCEPT ![s] = "Active"]

DispatchEndOfStoredEvents(s) ==
  /\ stage = "activate" /\ handling.sub = s
  /\ status' = Activated(s)
  /\ stage' = "post"
  /\ UNCHANGED <<registered, closeRequested, overflowClosed, eventQueue, dispatchInProgress,
                 session, relayVars, handling, targets, dispatcherVars, userVars, history>>

\* ... and for CLOSED, or for an overflow, in two critical sections.
MutantClosed(s) == status
MutantClosedName(s) == [status EXCEPT ![s] = handling.kind]
Closed(s) == [status EXCEPT ![s] = "Closed"]

DispatchClosed(s) ==
  /\ stage = "close" /\ handling.sub = s
  /\ status' = Closed(s)
  /\ stage' = "unrequest"
  /\ UNCHANGED <<registered, closeRequested, overflowClosed, eventQueue, dispatchInProgress,
                 session, relayVars, handling, targets, dispatcherVars, userVars, history>>

ForgetCloseRequest(s) ==
  /\ stage = "unrequest" /\ handling.sub = s
  /\ closeRequested' = [closeRequested EXCEPT ![s] = FALSE]
  /\ stage' = "post"
  /\ UNCHANGED <<registered, status, overflowClosed, eventQueue, dispatchInProgress,
                 session, relayVars, handling, targets, dispatcherVars, userVars, history>>

\* Post OnEOSE, OnClosed or OnNotice; the result of Post is not looked at.  An
\* event that overflowed posts OnClosed.
PostedKind == IF handling.kind = "EVENT" THEN "CLOSED" ELSE handling.kind

PostCallback(s) ==
  /\ stage = "post" /\ s \in targets
  /\ tasks' = Posted([kind |-> PostedKind, sub |-> s, id |-> handling.id])
  /\ targets' = targets \ {s}
  /\ stage' = IF targets' = {} THEN "idle" ELSE "post"
  /\ UNCHANGED <<entryVars, session, relayVars, handling, dispatcher, task, userVars, history>>

Handle(s) ==
  \/ EnqueueEvent(s) \/ ScheduleDrain(s) \/ UnscheduleDrain(s)
  \/ DispatchEndOfStoredEvents(s) \/ DispatchClosed(s) \/ ForgetCloseRequest(s)
  \/ PostCallback(s)

ReceiveThread == HandleIncomingMessage \/ \E s \in Subs : Handle(s)
-----------------------------------------------------------------------------
(***************************************************************************)
(* The dispatcher thread.                                                  *)
(***************************************************************************)
\* DrainQueue takes the next task.  A drain whose session is gone ends at once.
TakeTask ==
  /\ dispatcher = "idle" /\ tasks # <<>>
  /\ tasks' = Tail(tasks)
  /\ task' = Head(tasks)
  /\ dispatcher' = IF Head(tasks).kind # "drain" THEN "invoke"
                   ELSE IF session = "gone" THEN "idle" ELSE "pop"
  /\ UNCHANGED <<entryVars, session, relayVars, receiverVars, userVars, history>>

\* One turn of the drain task under the lock: the next event, or the end.
MutantPopped(queue) == queue
Popped(queue) == Tail(queue)

MutantDrainEnded(s) == dispatchInProgress
DrainEnded(s) == [dispatchInProgress EXCEPT ![s] = FALSE]

PopEvent(s) ==
  /\ dispatcher = "pop" /\ task.sub = s
  /\ IF eventQueue[s] # <<>> /\ ~overflowClosed[s]
       THEN /\ eventQueue' = [eventQueue EXCEPT ![s] = Popped(@)]
            /\ task' = [task EXCEPT !.id = Head(eventQueue[s])]
            /\ dispatcher' = "invoke"
            /\ UNCHANGED dispatchInProgress
       ELSE /\ dispatchInProgress' = DrainEnded(s)
            /\ dispatcher' = "idle"
            /\ UNCHANGED <<eventQueue, task>>
  /\ UNCHANGED <<registered, status, closeRequested, overflowClosed, session, relayVars,
                 receiverVars, tasks, userVars, history>>

\* The application's callback returns; a drain goes on with its next event.
CallbackKind == IF task.kind = "drain" THEN "EVENT" ELSE task.kind

Invoke(s) ==
  /\ dispatcher = "invoke" /\ task.sub = s
  /\ callbacks' = [callbacks EXCEPT ![s] =
                     Append(@, [kind |-> CallbackKind, sub |-> s, id |-> task.id])]
  /\ dispatcher' = IF task.kind = "drain" THEN "pop" ELSE "idle"
  /\ UNCHANGED <<entryVars, session, relayVars, receiverVars, tasks, task, userVars,
                 closesSent>>

DispatcherThread == TakeTask \/ \E s \in Subs : PopEvent(s) \/ Invoke(s)
-----------------------------------------------------------------------------
(***************************************************************************)
(* The application.  A call resolves the session and the entry and does    *)
(* its first critical section in one step: entries are only removed by an  *)
(* OpenSubscription that fails, before it has handed out its subscription. *)
(* Calls on a session that is being torn down are ClientRegistry's.        *)
(***************************************************************************)
Begin(u, s, at) ==
  /\ session = "live" /\ calls < MaxCalls /\ call[u] = "idle"
  /\ calls' = calls + 1
  /\ call' = [call EXCEPT ![u] = at]
  /\ subject' = [subject EXCEPT ![u] = s]

Return(u) == call' = [call EXCEPT ![u] = "idle"]

\* OpenSubscription has handed out the subscription.
Opened(s) == s \in registered /\ \A u \in Users : subject[u] = s => call[u] \notin {"request", "erase"}

\* An id is drawn at random, so it is never used again.
BeginOpen(u, s) ==
  /\ s \notin registered /\ relay[s] = "none" /\ closesSent[s] = 0
  /\ \A v \in Users : subject[v] = s => call[v] = "idle"
  /\ Begin(u, s, "request")
  /\ registered' = registered \union {s}
  /\ UNCHANGED <<status, closeRequested, overflowClosed, eventQueue, dispatchInProgress,
                 session, relayVars, receiverVars, dispatcherVars, previous, history>>

BeginUpdate(u, s) ==
  /\ MayUpdate /\ Opened(s)
  /\ Begin(u, s, "update")
  /\ UNCHANGED <<entryVars, session, relayVars, receiverVars, dispatcherVars, previous, history>>

\* Close decides, under the lock, whether there is anything to send.
MutantMayReclose(s) == ~closeRequested[s]
MayClose(s) == status[s] # "Closed" /\ ~closeRequested[s]

BeginClose(u, s) ==
  /\ Opened(s) /\ MayClose(s)
  /\ Begin(u, s, "close")
  /\ previous' = [previous EXCEPT ![u] = status[s]]
  /\ closeRequested' = [closeRequested EXCEPT ![s] = TRUE]
  /\ status' = [status EXCEPT ![s] = "Draining"]
  /\ UNCHANGED <<registered, overflowClosed, eventQueue, dispatchInProgress, session,
                 relayVars, receiverVars, dispatcherVars, history>>

\* SendText succeeds: the relay gets the message, or WinHttpWebSocketSend fails
\* with a Win32 code, which SendInternal does not recognize (it is not FAILED).
MayArrive(side) == relay' = side \/ (SendMayBeLost /\ UNCHANGED relay)

\* A REQ, from OpenSubscription or from UpdateFilters.
SendRequest(u) ==
  /\ call[u] \in {"request", "update"}
  /\ \/ /\ MayArrive([relay EXCEPT ![subject[u]] = "stored"])
        /\ call' = [call EXCEPT ![u] = IF @ = "update" THEN "repend" ELSE "idle"]
     \/ /\ SendMayFail
        /\ call' = [call EXCEPT ![u] = IF @ = "update" THEN "idle" ELSE "erase"]
        /\ UNCHANGED relay
  /\ UNCHANGED <<entryVars, session, inbox, emitted, receiverVars, dispatcherVars, subject,
                 previous, calls, history>>

SendClose(u) ==
  /\ call[u] = "close"
  /\ \/ /\ closesSent' = [closesSent EXCEPT ![subject[u]] = @ + 1]
        /\ MayArrive([relay EXCEPT ![subject[u]] = IF @ = "none" THEN @ ELSE "closing"])
        /\ Return(u)
     \/ /\ SendMayFail
        /\ call' = [call EXCEPT ![u] = "restore"]
        /\ UNCHANGED <<relay, closesSent>>
  /\ UNCHANGED <<entryVars, session, inbox, emitted, receiverVars, dispatcherVars, subject,
                 previous, calls, callbacks>>

\* What the three calls do under the lock after their send.
EraseEntry(u) ==
  /\ call[u] = "erase"
  /\ registered' = registered \ {subject[u]}
  /\ Return(u)
  /\ UNCHANGED <<status, closeRequested, overflowClosed, eventQueue, dispatchInProgress, session,
                 relayVars, receiverVars, dispatcherVars, subject, previous, calls, history>>

SetPending(u) ==
  /\ call[u] = "repend"
  /\ status' = [status EXCEPT ![subject[u]] = "Pending"]
  /\ Return(u)
  /\ UNCHANGED <<registered, closeRequested, overflowClosed, eventQueue, dispatchInProgress,
                 session, relayVars, receiverVars, dispatcherVars, subject, previous, calls,
                 history>>

Restored(u) == [status EXCEPT ![subject[u]] = previous[u]]

MutantUnrequested(u) == closeRequested
Unrequested(u) == [closeRequested EXCEPT ![subject[u]] = FALSE]

RestoreStatus(u) ==
  /\ call[u] = "restore"
  /\ closeRequested' = Unrequested(u)
  /\ status' = Restored(u)
  /\ Return(u)
  /\ UNCHANGED <<registered, overflowClosed, eventQueue, dispatchInProgress, session, relayVars,
                 receiverVars, dispatcherVars, subject, previous, calls, history>>

OpenSubscription(u) == \E s \in Subs : BeginOpen(u, s)
UpdateFilters(u)    == \E s \in Subs : BeginUpdate(u, s)
CloseSubscription(u) == \E s \in Subs : BeginClose(u, s)
Continue(u) == SendRequest(u) \/ SendClose(u) \/ EraseEntry(u) \/ SetPending(u) \/ RestoreStatus(u)

\* DisconnectRelay stops the receive thread, which finishes its message ...
StopReceiveLoop ==
  /\ session = "live" /\ \A u \in Users : call[u] = "idle"
  /\ session' = "stopping"
  /\ UNCHANGED <<entryVars, relayVars, receiverVars, dispatcherVars, userVars, history>>

\* ... joins it, and drops the last reference that the client has.
ReleaseSession ==
  /\ session = "stopping" /\ stage = "idle"
  /\ session' = "gone"
  /\ UNCHANGED <<entryVars, relayVars, receiverVars, dispatcherVars, userVars, history>>
-----------------------------------------------------------------------------
Quiet == session = "gone" /\ dispatcher = "idle" /\ tasks = <<>>
Done  == Quiet /\ UNCHANGED vars

Next ==
  \/ \E s \in Subs, kind \in MessageKinds : RelaySends(s, kind)
  \/ ReceiveThread
  \/ DispatcherThread
  \/ \E u \in Users : OpenSubscription(u) \/ UpdateFilters(u) \/ CloseSubscription(u)
                        \/ Continue(u)
  \/ StopReceiveLoop \/ ReleaseSession
  \/ Done

(***************************************************************************)
(* The receive thread and the dispatcher thread keep running, callbacks    *)
(* return and calls complete.  Nothing is owed by the relay or by what the *)
(* application decides to call.                                            *)
(***************************************************************************)
Fairness ==
  /\ WF_vars(ReceiveThread)
  /\ WF_vars(DispatcherThread)
  /\ \A u \in Users : WF_vars(Continue(u))
  /\ WF_vars(ReleaseSession)

Spec == Init /\ [][Next]_vars /\ Fairness
-----------------------------------------------------------------------------
EntryTypes ==
  /\ registered \subseteq Subs
  /\ status \in [Subs -> Statuses]
  /\ closeRequested \in [Subs -> BOOLEAN] /\ overflowClosed \in [Subs -> BOOLEAN]
  /\ eventQueue \in [Subs -> Seq(Nat)]
  /\ dispatchInProgress \in [Subs -> BOOLEAN]

RelayTypes ==
  /\ session \in {"live", "stopping", "gone"}
  /\ relay \in [Subs -> {"none", "stored", "live", "closing"}]
  /\ inbox \in Seq(Message) /\ emitted \in Nat

ReceiverTypes == stage \in Stages /\ handling \in Message /\ targets \subseteq Subs

DispatcherTypes ==
  tasks \in Seq(Task) /\ dispatcher \in {"idle", "pop", "invoke"} /\ task \in Task

UserTypes ==
  /\ call \in [Users -> CallStages] /\ subject \in [Users -> Subs]
  /\ previous \in [Users -> Statuses] /\ calls \in Nat

HistoryTypes ==
  /\ callbacks \in [Subs -> Seq(Message)]
  /\ closesSent \in [Subs -> Nat]

TypeOK == /\ EntryTypes /\ RelayTypes /\ ReceiverTypes
          /\ DispatcherTypes /\ UserTypes /\ HistoryTypes

Draining(s) == dispatcher # "idle" /\ task.kind = "drain" /\ task.sub = s
DrainPosted(s) == \E i \in DOMAIN tasks : tasks[i].kind = "drain" /\ tasks[i].sub = s
AboutToSchedule(s) == stage = "schedule" /\ handling.sub = s

(***************************************************************************)
(* An event never waits in a queue that nobody is going to empty: while    *)
(* the session exists, a subscription with queued events has a drain that  *)
(* runs, is posted, or is about to be posted by the receive thread.        *)
(***************************************************************************)
NoStrandedEvents ==
  \A s \in Subs :
    eventQueue[s] # <<>> /\ session # "gone" =>
      Draining(s) \/ DrainPosted(s) \/ AboutToSchedule(s)

(***************************************************************************)
(* dispatchInProgress keeps the drains of a subscription apart: of running,*)
(* posted and about to be posted there is at most one, as long as the      *)
(* entry has not overflowed.                                               *)
(***************************************************************************)
OneDrain ==
  \A s \in Subs : ~overflowClosed[s] /\ session # "gone" =>
    /\ \A i, j \in DOMAIN tasks :
         /\ tasks[i].kind = "drain" /\ tasks[i].sub = s
         /\ tasks[j].kind = "drain" /\ tasks[j].sub = s
         => i = j
    /\ ~(Draining(s) /\ DrainPosted(s))
    /\ AboutToSchedule(s) => ~Draining(s) /\ ~DrainPosted(s)

\* When OnEOSE runs the status is no longer Pending, and when OnClosed runs it
\* is Closed, so that a callback which reads get_Status finds what it expects.
StatusSeenByCallback ==
  dispatcher = "invoke" =>
    /\ task.kind = "EOSE"   => status[task.sub] # "Pending"
    /\ task.kind = "CLOSED" => status[task.sub] = "Closed"

(***************************************************************************)
(* A subscription that is Closed stays so (unless UpdateFilters asks       *)
(* again), and is not closed again: whichever threads call Close, however  *)
(* often, and whatever the relay sends meanwhile, it sends CLOSE once.     *)
(***************************************************************************)
ClosedIsFinal ==
  [][\A s \in Subs : /\ status[s] = "Closed" => status'[s] = "Closed"
                     /\ closesSent[s] > 0 => closesSent'[s] = closesSent[s]]_<<status, closesSent>>

\* A queued event is eventually gone from the queue, as long as the session is
\* there: delivered, dropped for a newer one, or discarded by an overflow.
QueueDrains ==
  \A s \in Subs : eventQueue[s] # <<>> ~> (eventQueue[s] = <<>> \/ session = "gone")
=============================================================================
