------------------------ MODULE MCRelaySubscriptions ------------------------
(***************************************************************************)
(* RelaySubscriptions for TLC: the properties that look back over the      *)
(* whole history of a subscription, and what it implements.                *)
(***************************************************************************)
EXTENDS RelaySubscriptions, SequencesExt

(***************************************************************************)
(* RelaySubscriptions seen as SubscriptionStream.  A message arrives while *)
(* the receive thread handles it, waits in eventQueue or in the task that  *)
(* was posted for it, and is told by the callback the dispatcher invokes.  *)
(* Once the session is gone only a drain that is running finds the queue.  *)
(***************************************************************************)
Arriving(s) ==
  IF s \in targets /\ stage \notin {"schedule", "unschedule"}
    THEN {[kind |-> IF stage = "enqueue" THEN "EVENT" ELSE PostedKind, id |-> handling.id]}
    ELSE {}

QueuedEvents(s) ==
  IF session = "gone" /\ ~Draining(s) THEN {}
  ELSE {[kind |-> "EVENT", id |-> eventQueue[s][i]] : i \in DOMAIN eventQueue[s]}

PostedCallbacks(s) ==
  {[kind |-> t.kind, id |-> t.id] : t \in {t \in Range(tasks) : t.kind # "drain" /\ t.sub = s}}

Telling(s) ==
  IF dispatcher = "invoke" /\ task.sub = s THEN {[kind |-> CallbackKind, id |-> task.id]} ELSE {}

Stream == INSTANCE SubscriptionStream WITH
  Items <- [kind : MessageKinds, id : 1 .. MaxMessages],
  Limit <- MaxQueue, Reopens <- MayUpdate,
  arriving <- [s \in Subs |-> Arriving(s)],
  waiting <- [s \in Subs |-> QueuedEvents(s) \union PostedCallbacks(s)],
  telling <- [s \in Subs |-> Telling(s)],
  told <- [s \in Subs |-> [i \in DOMAIN callbacks[s] |->
             [kind |-> callbacks[s][i].kind, id |-> callbacks[s][i].id]]],
  overflowed <- overflowClosed, abandoned <- session = "gone"

(***************************************************************************)
(* The locks, the flags and the two paths to the dispatcher keep what      *)
(* SubscriptionStream promises: no event lost, repeated or out of order    *)
(* but where the options say so, OnEOSE and OnClosed after the events that *)
(* came before them, no event after OnClosed, and nothing lost to          *)
(* DisconnectRelay but events that wait when the session goes.             *)
(***************************************************************************)
ImplementsStream == Stream!Spec
-----------------------------------------------------------------------------
\* Nothing is under way between the relay and the application's threads.
AtRest == /\ session = "live" /\ inbox = <<>> /\ stage = "idle"
          /\ \A u \in Users : call[u] = "idle"

Serves(s) == relay[s] \in {"stored", "live"} /\ ~overflowClosed[s]

(***************************************************************************)
(* The flags that make Close do nothing never get ahead of what was sent:  *)
(* a subscription that the relay serves is not taken for Closed, and       *)
(* unless the send of a CLOSE succeeded, Close on it sends one, also when  *)
(* an earlier Close has failed.  (An overflow closes the subscription      *)
(* without telling the relay.)                                             *)
(***************************************************************************)
FailedCloseMayBeRepeated ==
  \A s \in Subs : AtRest /\ Serves(s) =>
    status[s] # "Closed" /\ (MayClose(s) \/ closesSent[s] > 0)
=============================================================================
