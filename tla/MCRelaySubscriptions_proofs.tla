--------------------- MODULE MCRelaySubscriptions_proofs ---------------------
(***************************************************************************)
(* Proofs about the properties of MCRelaySubscriptions, for any number of  *)
(* subscriptions and threads and any queue limit.                          *)
(***************************************************************************)
EXTENDS MCRelaySubscriptions, RelaySubscriptions_proofs

(***************************************************************************)
(* FailedCloseMayBeRepeated.  At rest it says nothing of the calls that    *)
(* got the entry there: while the relay serves a subscription its          *)
(* closeRequested is owed to a Close that is under way, and that will      *)
(* either tell the relay or take the flag back, or to a CLOSE whose send   *)
(* succeeded.                                                              *)
(***************************************************************************)
Requests(u, s)  == subject[u] = s /\ call[u] \in {"request", "erase"}
IsClosing(u, s) == subject[u] = s /\ call[u] \in {"close", "restore"}

HandlesClosed(s) == stage \in {"close", "unrequest"} /\ handling.sub = s /\ handling.kind = "CLOSED"

\* The relay has no REQ, or the one that it will get is being sent.
Unasked(s) ==
  s \notin registered \/ (\E u \in Users : Requests(u, s)) =>
    /\ relay[s] = "none" /\ ~ClosedWaits(s) /\ ~HandlesClosed(s)
    /\ status[s] # "Closed" /\ ~closeRequested[s]
    /\ \A u \in Users : ~IsClosing(u, s)

OneRequest(s) ==
  \A u \in Users : Requests(u, s) => s \in registered /\ \A v \in Users : Requests(v, s) => u = v

FlagsFollowRelay(s) ==
  /\ ClosedWaits(s) \/ HandlesClosed(s) => relay[s] = "none"
  /\ relay[s] \in {"stored", "live"} =>
       /\ status[s] # "Closed"
       /\ closeRequested[s] => closesSent[s] > 0 \/ \E u \in Users : IsClosing(u, s)
  /\ \A u \in Users : IsClosing(u, s) => previous[u] # "Closed"

PossibleInv(s) == overflowClosed[s] \/ (Unasked(s) /\ OneRequest(s) /\ FlagsFollowRelay(s))

ClosesFor ==
  /\ stage \in {"close", "unrequest"} /\ handling.kind # "CLOSED" => overflowClosed[handling.sub]
  /\ \A u \in Users : call[u] \notin {"update", "repend"}

PInv == TypeOK /\ ClosesFor /\ \A s \in Subs : PossibleInv(s)

LEMMA ClosesForStep ==
  ASSUME MayUpdate = FALSE, TypeOK, ClosesFor, [Next]_vars PROVE ClosesFor'
<1> USE DEF ClosesFor
<1>0. ASSUME UNCHANGED <<call, overflowClosed>>,
             \/ stage' \notin {"close", "unrequest"}
             \/ stage \in {"close", "unrequest"} /\ handling' = handling
      PROVE  ClosesFor'
  BY <1>0
<1>1. ASSUME HandleIncomingMessage PROVE ClosesFor'
  <2>1. UNCHANGED <<call, overflowClosed>> /\ stage = "idle" /\ inbox # <<>>
    BY <1>1 DEF HandleIncomingMessage, entryVars, userVars
  <2>2. stage' = "idle" \/ (handling' = Head(inbox) /\ stage' = FirstStage(handling'))
    BY <1>1 DEF HandleIncomingMessage, receiverVars
  <2>3. Head(inbox) \in Message
    BY <2>1 DEF TypeOK, RelayTypes
  <2>4. Head(inbox).kind \in MessageKinds
    BY <2>3 DEF Message
  <2>5. stage' \in {"close", "unrequest"} => handling'.kind = "CLOSED"
    BY <2>2, <2>4 DEF FirstStage, MessageKinds
  <2> QED BY <2>1, <2>5
<1>2. ASSUME NEW s \in Subs, EnqueueEvent(s) PROVE ClosesFor'
  <2>1. /\ UNCHANGED <<handling, call>> /\ handling.sub = s
        /\ \/ stage' \in {"idle", "schedule"}
           \/ overflowClosed' = [overflowClosed EXCEPT ![s] = TRUE]
    BY <1>2 DEF EnqueueEvent, MarkOverflow, userVars
  <2> QED BY <2>1 DEF TypeOK, EntryTypes
<1>3. ASSUME NEW s \in Subs, Handle(s), ~EnqueueEvent(s) PROVE ClosesFor'
  <2>1. /\ UNCHANGED <<handling, call, overflowClosed>>
        /\ stage' \notin {"close", "unrequest"} \/ stage = "close"
    BY <1>3 DEF Handle, ScheduleDrain, UnscheduleDrain, DispatchEndOfStoredEvents, DispatchClosed,
       ForgetCloseRequest, PostCallback, entryVars, userVars
  <2> QED BY <1>0, <2>1
<1>4. ASSUME NEW u \in Users, NEW s \in Subs, BeginOpen(u, s) \/ BeginUpdate(u, s) \/ BeginClose(u, s)
      PROVE  ClosesFor'
  <2>1. /\ UNCHANGED <<stage, handling, overflowClosed>>
        /\ \E at \in {"request", "close"} : call' = [call EXCEPT ![u] = at]
    BY <1>4 DEF BeginOpen, BeginUpdate, BeginClose, Begin, entryVars, receiverVars
  <2> QED BY <2>1 DEF TypeOK, UserTypes
<1>5. ASSUME NEW u \in Users, Continue(u) PROVE ClosesFor'
  <2>1. /\ UNCHANGED <<stage, handling, overflowClosed>>
        /\ \E at \in {"idle", "erase", "restore"} : call' = [call EXCEPT ![u] = at]
    BY <1>5 DEF Continue, SendRequest, SendClose, EraseEntry, SetPending, RestoreStatus, Return,
       entryVars, receiverVars
  <2> QED BY <2>1 DEF TypeOK, UserTypes
<1>6. ASSUME UNCHANGED <<stage, handling, call, overflowClosed>> PROVE ClosesFor'
  BY <1>6
<1>7. ASSUME NEW s \in Subs, NEW kind \in MessageKinds, RelaySends(s, kind) PROVE ClosesFor'
  BY <1>6, <1>7 DEF RelaySends, entryVars, receiverVars, userVars
<1>8. ASSUME NEW s \in Subs, PopEvent(s) \/ Invoke(s) PROVE ClosesFor'
  BY <1>6, <1>8 DEF PopEvent, Invoke, entryVars, receiverVars, userVars
<1>9. CASE TakeTask \/ StopReceiveLoop \/ ReleaseSession \/ UNCHANGED vars
  BY <1>6, <1>9 DEF TakeTask, StopReceiveLoop, ReleaseSession, vars, entryVars, receiverVars, userVars
<1> QED
  BY <1>1, <1>2, <1>3, <1>4, <1>5, <1>7, <1>8, <1>9
     DEF Next, ReceiveThread, DispatcherThread, OpenSubscription, UpdateFilters, CloseSubscription, Done

LEMMA PossibleInvStep ==
  ASSUME MayUpdate = FALSE, TypeOK, ClosesFor, [Next]_vars, NEW s \in Subs, PossibleInv(s)
  PROVE  PossibleInv(s)'
<1> USE DEF PossibleInv
<1>a. ASSUME inbox' = inbox PROVE ClosedWaits(s)' <=> ClosedWaits(s)
  BY <1>a DEF ClosedWaits
<1>b. overflowClosed[s] => overflowClosed'[s]
  <2>1. overflowClosed' = overflowClosed \/ \E t \in Subs : overflowClosed' = [overflowClosed EXCEPT ![t] = TRUE]
    <3>1. ASSUME NEW t \in Subs, EnqueueEvent(t)
          PROVE  overflowClosed' = overflowClosed \/ overflowClosed' = [overflowClosed EXCEPT ![t] = TRUE]
      BY <3>1 DEF EnqueueEvent, MarkOverflow, entryVars
    <3>2. ASSUME NEW t \in Subs, Handle(t), ~EnqueueEvent(t) PROVE overflowClosed' = overflowClosed
      BY <3>2 DEF Handle, ScheduleDrain, UnscheduleDrain, DispatchEndOfStoredEvents, DispatchClosed,
         ForgetCloseRequest, PostCallback, entryVars
    <3>3. ASSUME NEW u \in Users, NEW t \in Subs,
                 BeginOpen(u, t) \/ BeginUpdate(u, t) \/ BeginClose(u, t) \/ Continue(u)
          PROVE  overflowClosed' = overflowClosed
      BY <3>3 DEF BeginOpen, BeginUpdate, BeginClose, Continue, SendRequest, SendClose, EraseEntry,
         SetPending, RestoreStatus, entryVars
    <3>4. ASSUME NEW t \in Subs, NEW kind \in MessageKinds, RelaySends(t, kind) \/ PopEvent(t) \/ Invoke(t)
          PROVE  overflowClosed' = overflowClosed
      BY <3>4 DEF RelaySends, PopEvent, Invoke, entryVars
    <3>5. CASE HandleIncomingMessage \/ TakeTask \/ StopReceiveLoop \/ ReleaseSession \/ UNCHANGED vars
      BY <3>5 DEF HandleIncomingMessage, TakeTask, StopReceiveLoop, ReleaseSession, vars, entryVars
    <3>6. MessageKinds # {}
      BY DEF MessageKinds
    <3> QED
      BY <3>1, <3>2, <3>3, <3>4, <3>5, <3>6
         DEF Next, ReceiveThread, DispatcherThread, OpenSubscription, UpdateFilters, CloseSubscription, Done
  <2> QED BY <2>1 DEF TypeOK, EntryTypes
<1>d. closesSent[s] > 0 => closesSent'[s] > 0
  <2>1. closesSent' = closesSent \/ \E u \in Users : closesSent' = [closesSent EXCEPT ![subject[u]] = @ + 1]
    <3>1. ASSUME NEW u \in Users, SendClose(u)
          PROVE  closesSent' = closesSent \/ closesSent' = [closesSent EXCEPT ![subject[u]] = @ + 1]
      BY <3>1 DEF SendClose
    <3>2. ASSUME NEW t \in Subs, Handle(t) PROVE closesSent' = closesSent
      BY <3>2 DEF Handle, EnqueueEvent, ScheduleDrain, UnscheduleDrain, DispatchEndOfStoredEvents,
         DispatchClosed, ForgetCloseRequest, PostCallback, history
    <3>3. ASSUME NEW u \in Users, NEW t \in Subs,
                 \/ BeginOpen(u, t) \/ BeginUpdate(u, t) \/ BeginClose(u, t)
                 \/ SendRequest(u) \/ EraseEntry(u) \/ SetPending(u) \/ RestoreStatus(u)
          PROVE  closesSent' = closesSent
      BY <3>3 DEF BeginOpen, BeginUpdate, BeginClose, SendRequest, EraseEntry, SetPending,
         RestoreStatus, history
    <3>4. ASSUME NEW t \in Subs, NEW kind \in MessageKinds, RelaySends(t, kind) \/ PopEvent(t) \/ Invoke(t)
          PROVE  closesSent' = closesSent
      BY <3>4 DEF RelaySends, PopEvent, Invoke, history
    <3>5. CASE HandleIncomingMessage \/ TakeTask \/ StopReceiveLoop \/ ReleaseSession \/ UNCHANGED vars
      BY <3>5 DEF HandleIncomingMessage, TakeTask, StopReceiveLoop, ReleaseSession, vars, history
    <3>6. MessageKinds # {}
      BY DEF MessageKinds
    <3> QED
      BY <3>1, <3>2, <3>3, <3>4, <3>5, <3>6
         DEF Next, ReceiveThread, DispatcherThread, OpenSubscription, UpdateFilters, CloseSubscription,
             Continue, Done
  <2>2. closesSent \in [Subs -> Nat]
    BY DEF TypeOK, HistoryTypes
  <2> QED BY <2>1, <2>2
<1> SUFFICES ASSUME ~overflowClosed'[s] PROVE PossibleInv(s)'
  OBVIOUS
<1>c. ~overflowClosed[s] /\ Unasked(s) /\ OneRequest(s) /\ FlagsFollowRelay(s)
  BY <1>b
<1>0. ASSUME UNCHANGED <<registered, status, closeRequested, relay, inbox, call, subject, previous>>,
             HandlesClosed(s)' => HandlesClosed(s)
      PROVE  PossibleInv(s)'
  BY <1>0, <1>a, <1>c, <1>d DEF Unasked, OneRequest, FlagsFollowRelay, Requests, IsClosing
<1>1. ASSUME NEW t \in Subs, NEW kind \in MessageKinds, RelaySends(t, kind) PROVE PossibleInv(s)'
  <2> DEFINE m == [kind |-> kind, sub |-> t, id |-> emitted + 1]
  <2>1. UNCHANGED <<registered, status, closeRequested, stage, handling, call, subject, previous>>
    BY <1>1 DEF RelaySends, entryVars, receiverVars, userVars
  <2>2. m \in Message
    BY DEF Message, TypeOK, RelayTypes
  <2>3. ClosedWaits(s)' <=> ClosedWaits(s) \/ IsClosed(m, s)
    BY <1>1, <2>2, AppendToInbox DEF RelaySends
  <2>4. HandlesClosed(s)' <=> HandlesClosed(s)
    BY <2>1 DEF HandlesClosed
  <2>5. CASE IsClosed(m, s)
    <3>1. t = s /\ kind = "CLOSED"
      BY <2>5 DEF IsClosed
    <3>2. relay[s] # "none" /\ relay'[s] = "none"
      BY <1>1, <3>1 DEF RelaySends, TypeOK, RelayTypes
    <3> QED BY <1>c, <1>d, <2>1, <2>3, <2>4, <3>2 DEF Unasked, OneRequest, FlagsFollowRelay, Requests, IsClosing
  <2>6. CASE ~IsClosed(m, s)
    <3>1. \/ relay' = relay
          \/ kind = "EOSE" /\ relay[t] = "stored" /\ relay' = [relay EXCEPT ![t] = "live"]
          \/ kind = "CLOSED" /\ relay' = [relay EXCEPT ![t] = "none"]
      BY <1>1 DEF RelaySends, MessageKinds
    <3>2. kind = "CLOSED" => t # s
      BY <2>6 DEF IsClosed
    <3>3. relay'[s] = relay[s] \/ (relay[s] = "stored" /\ relay'[s] = "live")
      BY <3>1, <3>2 DEF TypeOK, RelayTypes
    <3> QED BY <1>c, <1>d, <2>1, <2>3, <2>4, <2>6, <3>3 DEF Unasked, OneRequest, FlagsFollowRelay, Requests, IsClosing
  <2> QED BY <2>5, <2>6
<1>2. ASSUME HandleIncomingMessage PROVE PossibleInv(s)'
  <2>1. UNCHANGED <<registered, status, closeRequested, relay, call, subject, previous>>
        /\ stage = "idle" /\ inbox # <<>> /\ inbox' = Tail(inbox)
    BY <1>2 DEF HandleIncomingMessage, entryVars, userVars
  <2>2. ClosedWaits(s) <=> ClosedWaits(s)' \/ IsClosed(Head(inbox), s)
    BY <2>1, TailOfInbox
  <2>3. stage' = "idle" \/ handling' = Head(inbox)
    BY <1>2, <2>1 DEF HandleIncomingMessage, receiverVars
  <2>4. HandlesClosed(s)' => ClosedWaits(s)
    BY <2>2, <2>3 DEF HandlesClosed, IsClosed
  <2> QED BY <1>c, <1>d, <2>1, <2>2, <2>4 DEF Unasked, OneRequest, FlagsFollowRelay, Requests, IsClosing
<1>3. ASSUME NEW t \in Subs, EnqueueEvent(t) PROVE PossibleInv(s)'
  <2>1. /\ UNCHANGED <<registered, relay, inbox, call, subject, previous>> /\ stage = "enqueue"
        /\ handling' = handling /\ handling.sub = t
    BY <1>3 DEF EnqueueEvent, relayVars, userVars, entryVars
  <2>2. CASE overflowClosed' = overflowClosed
    <3>1. UNCHANGED <<status, closeRequested>> /\ stage' \in {"idle", "schedule"}
      BY <1>3, <2>2 DEF EnqueueEvent, entryVars, MarkOverflow, TypeOK, EntryTypes
    <3>2. ~HandlesClosed(s)'
      BY <3>1 DEF HandlesClosed
    <3> QED BY <1>0, <2>1, <3>1, <3>2
  <2>3. CASE overflowClosed' = MarkOverflow(t)
    <3>1. t # s
      BY <2>3 DEF MarkOverflow, TypeOK, EntryTypes
    <3>2. status'[s] = status[s] /\ closeRequested'[s] = closeRequested[s]
      BY <1>3, <3>1 DEF EnqueueEvent, entryVars, TypeOK, EntryTypes
    <3>3. ~HandlesClosed(s)'
      BY <2>1, <3>1 DEF HandlesClosed
    <3> QED BY <1>a, <1>c, <1>d, <2>1, <3>2, <3>3 DEF Unasked, OneRequest, FlagsFollowRelay, Requests, IsClosing
  <2> QED BY <1>3, <2>2, <2>3 DEF EnqueueEvent, entryVars
<1>4. ASSUME NEW t \in Subs, DispatchEndOfStoredEvents(t) PROVE PossibleInv(s)'
  <2>1. /\ UNCHANGED <<registered, closeRequested, relay, inbox, call, subject, previous>> /\ stage' = "post"
        /\ status' = [status EXCEPT ![t] = "Active"]
    BY <1>4 DEF DispatchEndOfStoredEvents, Activated, relayVars, userVars
  <2>2. status'[s] = status[s] \/ status'[s] = "Active"
    BY <2>1 DEF TypeOK, EntryTypes
  <2>3. ~HandlesClosed(s)'
    BY <2>1 DEF HandlesClosed
  <2> QED BY <1>a, <1>c, <1>d, <2>1, <2>2, <2>3 DEF Unasked, OneRequest, FlagsFollowRelay, Requests, IsClosing
<1>5. ASSUME NEW t \in Subs, DispatchClosed(t) PROVE PossibleInv(s)'
  <2>1. /\ UNCHANGED <<registered, closeRequested, overflowClosed, relay, inbox, handling, call, subject, previous>>
        /\ stage = "close" /\ handling.sub = t /\ status' = [status EXCEPT ![t] = "Closed"]
    BY <1>5 DEF DispatchClosed, Closed, relayVars, userVars
  <2>2. HandlesClosed(s)' => HandlesClosed(s)
    BY <2>1 DEF HandlesClosed
  <2>3. CASE s = t
    <3>1. HandlesClosed(s)
      BY <1>c, <1>d, <2>1, <2>3 DEF HandlesClosed, ClosesFor
    <3> QED BY <1>a, <1>c, <1>d, <2>1, <2>2, <3>1 DEF Unasked, OneRequest, FlagsFollowRelay, Requests, IsClosing
  <2>4. CASE s # t
    <3>1. status'[s] = status[s]
      BY <2>1, <2>4 DEF TypeOK, EntryTypes
    <3> QED BY <1>a, <1>c, <1>d, <2>1, <2>2, <3>1 DEF Unasked, OneRequest, FlagsFollowRelay, Requests, IsClosing
  <2> QED BY <2>3, <2>4
<1>6. ASSUME NEW t \in Subs, ForgetCloseRequest(t) PROVE PossibleInv(s)'
  <2>1. /\ UNCHANGED <<registered, status, relay, inbox, call, subject, previous>> /\ stage' = "post"
        /\ closeRequested' = [closeRequested EXCEPT ![t] = FALSE]
    BY <1>6 DEF ForgetCloseRequest, relayVars, userVars
  <2>2. closeRequested'[s] => closeRequested[s]
    BY <2>1 DEF TypeOK, EntryTypes
  <2>3. ~HandlesClosed(s)'
    BY <2>1 DEF HandlesClosed
  <2> QED BY <1>a, <1>c, <1>d, <2>1, <2>2, <2>3 DEF Unasked, OneRequest, FlagsFollowRelay, Requests, IsClosing
<1>7. ASSUME NEW u \in Users, NEW t \in Subs, BeginOpen(u, t) PROVE PossibleInv(s)'
  <2>1. /\ UNCHANGED <<status, closeRequested, relay, inbox, stage, handling, previous>>
        /\ t \notin registered /\ registered' = registered \union {t}
        /\ \A v \in Users : subject[v] = t => call[v] = "idle"
        /\ call[u] = "idle" /\ call' = [call EXCEPT ![u] = "request"]
        /\ subject' = [subject EXCEPT ![u] = t]
    BY <1>7 DEF BeginOpen, Begin, relayVars, receiverVars
  <2>2. \A v \in Users : /\ IsClosing(v, s)' <=> IsClosing(v, s)
                         /\ Requests(v, s)' <=> Requests(v, s) \/ (v = u /\ s = t)
    BY <2>1 DEF IsClosing, Requests, TypeOK, UserTypes
  <2>3. HandlesClosed(s)' <=> HandlesClosed(s)
    BY <2>1 DEF HandlesClosed
  <2>4. CASE s = t
    <3>1. \A v \in Users : ~Requests(v, s)
      BY <2>1, <2>4 DEF Requests
    <3> QED BY <1>a, <1>c, <1>d, <2>1, <2>2, <2>3, <2>4, <3>1 DEF Unasked, OneRequest, FlagsFollowRelay
  <2>5. CASE s # t
    BY <1>a, <1>c, <1>d, <2>1, <2>2, <2>3, <2>5 DEF Unasked, OneRequest, FlagsFollowRelay
  <2> QED BY <2>4, <2>5
<1>8. ASSUME NEW u \in Users, NEW t \in Subs, BeginClose(u, t) PROVE PossibleInv(s)'
  <2>1. /\ UNCHANGED <<registered, relay, inbox, stage, handling>>
        /\ Opened(t) /\ MayClose(t)
        /\ closeRequested' = [closeRequested EXCEPT ![t] = TRUE]
        /\ status' = [status EXCEPT ![t] = "Draining"]
        /\ call[u] = "idle" /\ call' = [call EXCEPT ![u] = "close"]
        /\ subject' = [subject EXCEPT ![u] = t]
        /\ previous' = [previous EXCEPT ![u] = status[t]]
    BY <1>8 DEF BeginClose, Begin, relayVars, receiverVars
  <2>2. \A v \in Users : /\ Requests(v, s)' <=> Requests(v, s)
                         /\ IsClosing(v, s)' <=> IsClosing(v, s) \/ (v = u /\ s = t)
    BY <2>1 DEF IsClosing, Requests, TypeOK, UserTypes
  <2>3. HandlesClosed(s)' <=> HandlesClosed(s)
    BY <2>1 DEF HandlesClosed
  <2>4. /\ \A v \in Users : v # u => previous'[v] = previous[v]
        /\ s = t => previous'[u] # "Closed"
    BY <2>1 DEF MayClose, TypeOK, UserTypes, EntryTypes
  <2>5. ~IsClosing(u, s)
    BY <2>1 DEF IsClosing
  <2>6. \A v \in Users : IsClosing(v, s)' => previous'[v] # "Closed"
    BY <1>c, <1>d, <2>2, <2>4, <2>5 DEF FlagsFollowRelay
  <2>7. CASE s = t
    <3>1. s \in registered /\ \A v \in Users : ~Requests(v, s)
      BY <2>1, <2>7 DEF Opened, Requests
    <3>2. status'[s] = "Draining"
      BY <2>1, <2>7 DEF TypeOK, EntryTypes
    <3> QED BY <1>a, <1>c, <1>d, <2>1, <2>2, <2>3, <2>6, <2>7, <3>1, <3>2 DEF Unasked, OneRequest, FlagsFollowRelay
  <2>8. CASE s # t
    <3>1. status'[s] = status[s] /\ closeRequested'[s] = closeRequested[s]
      BY <2>1, <2>8 DEF TypeOK, EntryTypes
    <3> QED BY <1>a, <1>c, <1>d, <2>1, <2>2, <2>3, <2>6, <2>8, <3>1 DEF Unasked, OneRequest, FlagsFollowRelay
  <2> QED BY <2>7, <2>8
<1>9. ASSUME NEW u \in Users, SendRequest(u) PROVE PossibleInv(s)'
  <2>1. /\ UNCHANGED <<registered, status, closeRequested, inbox, stage, handling, subject, previous>>
        /\ call[u] = "request"
        /\ \/ /\ call' = [call EXCEPT ![u] = "idle"]
              /\ relay' = [relay EXCEPT ![subject[u]] = "stored"] \/ relay' = relay
           \/ call' = [call EXCEPT ![u] = "erase"] /\ relay' = relay
    BY <1>9 DEF SendRequest, MayArrive, ClosesFor, entryVars, receiverVars
  <2>2. HandlesClosed(s)' <=> HandlesClosed(s)
    BY <2>1 DEF HandlesClosed
  <2>3. \A v \in Users : /\ IsClosing(v, s)' <=> IsClosing(v, s)
                         /\ Requests(v, s)' <=> Requests(v, s) /\ (v # u \/ call'[u] = "erase")
    BY <2>1 DEF IsClosing, Requests, TypeOK, UserTypes
  <2>4. CASE call'[u] = "erase"
    <3>1. relay' = relay
      BY <2>1, <2>4 DEF TypeOK, UserTypes
    <3> QED BY <3>1, <1>a, <1>c, <1>d, <2>1, <2>2, <2>3, <2>4 DEF Unasked, OneRequest, FlagsFollowRelay
  <2>5. CASE call'[u] # "erase" /\ Requests(u, s)
    <3>1. s \in registered /\ \A v \in Users : ~Requests(v, s)'
      BY <1>c, <1>d, <2>3, <2>5 DEF OneRequest
    <3> QED BY <1>a, <1>c, <1>d, <2>1, <2>2, <2>3, <2>5, <3>1 DEF Unasked, OneRequest, FlagsFollowRelay
  <2>6. CASE ~Requests(u, s)
    <3>1. relay'[s] = relay[s]
      BY <2>1, <2>6 DEF Requests, TypeOK, RelayTypes
    <3> QED BY <1>a, <1>c, <1>d, <2>1, <2>2, <2>3, <2>6, <3>1 DEF Unasked, OneRequest, FlagsFollowRelay
  <2> QED BY <2>4, <2>5, <2>6
<1>10. ASSUME NEW u \in Users, SendClose(u) PROVE PossibleInv(s)'
  <2>1. /\ UNCHANGED <<registered, status, closeRequested, inbox, stage, handling, subject, previous>>
        /\ call[u] = "close"
        /\ \/ /\ call' = [call EXCEPT ![u] = "idle"]
              /\ closesSent' = [closesSent EXCEPT ![subject[u]] = @ + 1]
              /\ \/ relay' = [relay EXCEPT ![subject[u]] = IF @ = "none" THEN @ ELSE "closing"]
                 \/ relay' = relay
           \/ call' = [call EXCEPT ![u] = "restore"] /\ relay' = relay
    BY <1>10 DEF SendClose, MayArrive, Return, entryVars, receiverVars
  <2>2. HandlesClosed(s)' <=> HandlesClosed(s)
    BY <2>1 DEF HandlesClosed
  <2>3. \A v \in Users : Requests(v, s)' <=> Requests(v, s)
    BY <2>1 DEF Requests, TypeOK, UserTypes
  <2>4. CASE IsClosing(u, s) /\ call' = [call EXCEPT ![u] = "idle"]
    <3>1. (relay'[s] \in {"none", "closing"} \/ relay'[s] = relay[s]) /\ (relay[s] = "none" => relay'[s] = "none")
      BY <2>1, <2>4 DEF IsClosing, TypeOK, RelayTypes, UserTypes
    <3>3. closesSent'[s] > 0
      <4>1. call'[u] = "idle" /\ subject[u] = s
        BY <2>4 DEF IsClosing, TypeOK, UserTypes
      <4>2. closesSent' = [closesSent EXCEPT ![s] = @ + 1]
        BY <2>1, <4>1 DEF TypeOK, UserTypes
      <4>3. closesSent \in [Subs -> Nat]
        BY DEF TypeOK, HistoryTypes
      <4> QED BY <4>2, <4>3
    <3>2. \A v \in Users : IsClosing(v, s)' => IsClosing(v, s)
      BY <2>1, <2>4 DEF IsClosing, TypeOK, UserTypes
    <3> QED BY <1>a, <1>c, <1>d, <2>1, <2>2, <2>3, <3>1, <3>2, <3>3 DEF Unasked, OneRequest, FlagsFollowRelay
  <2>5. CASE ~IsClosing(u, s) \/ call' # [call EXCEPT ![u] = "idle"]
    <3>1. relay'[s] = relay[s]
      BY <2>1, <2>5 DEF IsClosing, TypeOK, RelayTypes, UserTypes
    <3>2. \A v \in Users : IsClosing(v, s)' <=> IsClosing(v, s)
      BY <2>1, <2>5 DEF IsClosing, TypeOK, UserTypes
    <3> QED BY <1>a, <1>c, <1>d, <2>1, <2>2, <2>3, <3>1, <3>2 DEF Unasked, OneRequest, FlagsFollowRelay
  <2> QED BY <2>4, <2>5
<1>11. ASSUME NEW u \in Users, EraseEntry(u) PROVE PossibleInv(s)'
  <2>1. /\ UNCHANGED <<status, closeRequested, relay, inbox, stage, handling, subject, previous>>
        /\ call[u] = "erase" /\ call' = [call EXCEPT ![u] = "idle"]
        /\ registered' = registered \ {subject[u]}
    BY <1>11 DEF EraseEntry, Return, relayVars, receiverVars
  <2>2. HandlesClosed(s)' <=> HandlesClosed(s)
    BY <2>1 DEF HandlesClosed
  <2>3. \A v \in Users : /\ IsClosing(v, s)' <=> IsClosing(v, s)
                         /\ Requests(v, s)' <=> Requests(v, s) /\ v # u
    BY <2>1 DEF IsClosing, Requests, TypeOK, UserTypes
  <2>4. CASE Requests(u, s)
    <3>1. \A v \in Users : ~Requests(v, s)'
      BY <1>c, <1>d, <2>3, <2>4 DEF OneRequest
    <3> QED BY <1>a, <1>c, <1>d, <2>1, <2>2, <2>3, <2>4, <3>1 DEF Unasked, OneRequest, FlagsFollowRelay
  <2>5. CASE ~Requests(u, s)
    <3>1. s # subject[u]
      BY <2>1, <2>5 DEF Requests
    <3> QED BY <1>a, <1>c, <1>d, <2>1, <2>2, <2>3, <2>5, <3>1 DEF Unasked, OneRequest, FlagsFollowRelay
  <2> QED BY <2>4, <2>5
<1>12. ASSUME NEW u \in Users, RestoreStatus(u) PROVE PossibleInv(s)'
  <2>1. /\ UNCHANGED <<registered, relay, inbox, stage, handling, subject, previous>>
        /\ call[u] = "restore" /\ call' = [call EXCEPT ![u] = "idle"]
        /\ closeRequested' = [closeRequested EXCEPT ![subject[u]] = FALSE]
        /\ status' = [status EXCEPT ![subject[u]] = previous[u]]
    BY <1>12 DEF RestoreStatus, Return, Restored, Unrequested, relayVars, receiverVars
  <2>2. HandlesClosed(s)' <=> HandlesClosed(s)
    BY <2>1 DEF HandlesClosed
  <2>3. \A v \in Users : /\ Requests(v, s)' <=> Requests(v, s)
                         /\ IsClosing(v, s)' <=> IsClosing(v, s) /\ v # u
    BY <2>1 DEF IsClosing, Requests, TypeOK, UserTypes
  <2>4. CASE IsClosing(u, s)
    <3>1. status'[s] = previous[u] /\ previous[u] # "Closed" /\ ~closeRequested'[s]
      BY <1>c, <1>d, <2>1, <2>4 DEF FlagsFollowRelay, IsClosing, TypeOK, EntryTypes
    <3> QED BY <1>a, <1>c, <1>d, <2>1, <2>2, <2>3, <3>1 DEF Unasked, OneRequest, FlagsFollowRelay
  <2>5. CASE ~IsClosing(u, s)
    <3>1. status'[s] = status[s] /\ closeRequested'[s] = closeRequested[s]
      BY <2>1, <2>5 DEF IsClosing, TypeOK, EntryTypes
    <3> QED BY <1>a, <1>c, <1>d, <2>1, <2>2, <2>3, <2>5, <3>1 DEF Unasked, OneRequest, FlagsFollowRelay
  <2> QED BY <2>4, <2>5
<1>13. ASSUME NEW t \in Subs, ScheduleDrain(t) \/ UnscheduleDrain(t) \/ PostCallback(t) PROVE PossibleInv(s)'
  <2>1. /\ UNCHANGED <<registered, status, closeRequested, relay, inbox, call, subject, previous>>
        /\ stage' \notin {"close", "unrequest"}
    BY <1>13 DEF ScheduleDrain, UnscheduleDrain, PostCallback, entryVars, relayVars, userVars
  <2> QED BY <1>0, <2>1 DEF HandlesClosed
<1>14. ASSUME NEW t \in Subs, PopEvent(t) \/ Invoke(t) PROVE PossibleInv(s)'
  BY <1>0, <1>14 DEF PopEvent, Invoke, entryVars, relayVars, receiverVars, userVars, HandlesClosed
<1>15. CASE TakeTask \/ StopReceiveLoop \/ ReleaseSession \/ UNCHANGED vars
  BY <1>0, <1>15 DEF TakeTask, StopReceiveLoop, ReleaseSession, vars, entryVars, relayVars, receiverVars,
     userVars, HandlesClosed
<1>16. ASSUME NEW u \in Users, NEW t \in Subs, BeginUpdate(u, t) PROVE FALSE
  BY <1>16 DEF BeginUpdate
<1>17. ASSUME NEW u \in Users, SetPending(u) PROVE FALSE
  BY <1>17 DEF SetPending, ClosesFor
<1> QED
  BY <1>1, <1>2, <1>3, <1>4, <1>5, <1>6, <1>7, <1>8, <1>9, <1>10, <1>11, <1>12, <1>13, <1>14, <1>15,
     <1>16, <1>17
     DEF Next, ReceiveThread, DispatcherThread, Handle, OpenSubscription, UpdateFilters,
         CloseSubscription, Continue, Done

(***************************************************************************)
(* Unless UpdateFilters reopens subscriptions: whichever sends and posts   *)
(* fail, whichever sends are lost and whatever overflows, a subscription   *)
(* that the relay serves and that has not overflowed is not taken for      *)
(* Closed once no call is under way, and can be closed unless the send of  *)
(* a CLOSE succeeded (Close, RestoreStatus, DispatchClosed).               *)
(***************************************************************************)
THEOREM FailedCloseMayBeRepeatedHolds ==
  ASSUME MayUpdate = FALSE PROVE Spec => []FailedCloseMayBeRepeated
<1>1. ASSUME Init PROVE PInv
  <2>1. TypeOK /\ ClosesFor
    BY <1>1, InitTypeOK DEF Init, ClosesFor
  <2>2. ASSUME NEW s \in Subs PROVE PossibleInv(s)
    BY <1>1 DEF Init, PossibleInv, Unasked, OneRequest, FlagsFollowRelay, Requests, IsClosing,
       HandlesClosed, ClosedWaits
  <2> QED BY <2>1, <2>2 DEF PInv
<1>2. ASSUME PInv, [Next]_vars PROVE PInv'
  <2>1. TypeOK'
    BY <1>2, EntryTypesStep, RelayTypesStep, ReceiverTypesStep, DispatcherTypesStep, UserTypesStep,
       HistoryTypesStep DEF PInv, TypeOK
  <2>2. ClosesFor'
    BY <1>2, ClosesForStep DEF PInv
  <2>3. ASSUME NEW s \in Subs PROVE PossibleInv(s)'
    BY <1>2, PossibleInvStep DEF PInv
  <2> QED BY <2>1, <2>2, <2>3 DEF PInv
<1>3. PInv => FailedCloseMayBeRepeated
  BY DEF PInv, FailedCloseMayBeRepeated, AtRest, Serves, PossibleInv, FlagsFollowRelay, MayClose, IsClosing
<1> QED BY <1>1, <1>2, <1>3, PTL DEF Spec
=============================================================================
