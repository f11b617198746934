------------------------- MODULE SubscriptionStream -------------------------
(***************************************************************************)
(* What the subscriptions of a session promise the application's           *)
(* callbacks, with no word of locks, tasks or flags.                       *)
(*                                                                         *)
(* A message arrives, waits, and is told.  Callbacks come one at a time.   *)
(* Events are told in the order received; EOSE, CLOSED and NOTICE are told *)
(* in the order received and never before an event that was received       *)
(* before them (an event may be told before an older EOSE, CLOSED or       *)
(* NOTICE).  Nothing that arrives is lost, with three exceptions: a full   *)
(* queue gives up its oldest event or, if so asked, closes the             *)
(* subscription; a closed one gets no more events; and a session that is   *)
(* gone may leave its waiting events untold.                               *)
(***************************************************************************)
EXTENDS Integers, Sequences, FiniteSets

CONSTANTS
  Subs,     \* subscriptions
  Items,    \* what may be told: records of a kind and a number
  Limit,    \* events that may wait, 0 for no limit
  Throws,   \* at the limit the subscription closes
  Reopens   \* the application may ask again after CLOSED

VARIABLES
  arriving,   \* for each subscription, the message that is being received
  waiting,    \* messages not told yet
  telling,    \* the callback that is running
  told,       \* callbacks that were made, in their order
  overflowed, \* the subscription was closed at the limit
  abandoned   \* the session is gone

vars == <<arriving, waiting, telling, told, overflowed, abandoned>>

Init ==
  /\ arriving = [s \in Subs |-> {}] /\ waiting = [s \in Subs |-> {}]
  /\ telling = [s \in Subs |-> {}]  /\ told = [s \in Subs |-> <<>>]
  /\ overflowed = [s \in Subs |-> FALSE]
  /\ abandoned = FALSE
-----------------------------------------------------------------------------
Events(items) == {m \in items : m.kind = "EVENT"}
Heard(s) == waiting[s] \union telling[s] \union {told[s][i] : i \in DOMAIN told[s]}
Newer(m, items) == \A n \in items : n.id < m.id
Oldest(events) == {m \in events : \A n \in events : m.id <= n.id}

\* One message arrives, for the subscriptions it concerns.
Arrive(targets, m) ==
  /\ \A s \in Subs : arriving[s] = {}
  /\ arriving' = [s \in Subs |-> IF s \in targets THEN {m} ELSE {}]
  /\ ~abandoned /\ \A s \in targets : Newer(m, Heard(s))
  /\ UNCHANGED <<waiting, telling, told, overflowed, abandoned>>

AtLimit(s) == Limit > 0 /\ Cardinality(Events(waiting[s])) >= Limit
IsClosed(s) == ~Reopens /\ \E m \in Heard(s) : m.kind = "CLOSED"

\* What arrived waits; at the limit the oldest event goes.
Accept(s, m) ==
  /\ m.kind = "EVENT" => ~overflowed[s] /\ ~(AtLimit(s) /\ Throws) /\ ~IsClosed(s)
  /\ arriving' = [arriving EXCEPT ![s] = {}]
  /\ waiting' = [waiting EXCEPT ![s] =
       {m} \union IF m.kind = "EVENT" /\ AtLimit(s) THEN @ \ Oldest(Events(@)) ELSE @]
  /\ UNCHANGED <<telling, told, overflowed, abandoned>>

\* An event that finds no room closes the subscription, which is told in its
\* place; the events that wait are given up.
Overflow(s, m) ==
  /\ m.kind = "EVENT" /\ ~overflowed[s] /\ AtLimit(s) /\ Throws
  /\ overflowed' = [overflowed EXCEPT ![s] = TRUE]
  /\ waiting' = [waiting EXCEPT ![s] = @ \ Events(@)]
  /\ arriving' = [arriving EXCEPT ![s] = {[m EXCEPT !.kind = "CLOSED"]}]
  /\ UNCHANGED <<telling, told, abandoned>>

Refuse(s, m) ==
  /\ m.kind = "EVENT" /\ overflowed[s]
  /\ arriving' = [arriving EXCEPT ![s] = {}]
  /\ UNCHANGED <<waiting, telling, told, overflowed, abandoned>>

\* The next callback begins when no other one is running.
MayOvertake(m, n) == m.kind = "EVENT" /\ n.kind # "EVENT"

BeginTell(s, m) ==
  /\ \A r \in Subs : telling[r] = {}
  /\ \A n \in waiting[s] : n.id < m.id => MayOvertake(m, n)
  /\ waiting' = [waiting EXCEPT ![s] = @ \ {m}]
  /\ telling' = [telling EXCEPT ![s] = {m}]
  /\ UNCHANGED <<arriving, told, overflowed, abandoned>>

EndTell(s, m) ==
  /\ telling' = [telling EXCEPT ![s] = {}]
  /\ told' = [told EXCEPT ![s] = Append(@, m)]
  /\ UNCHANGED <<arriving, waiting, overflowed, abandoned>>

\* The session goes, between two messages, with or without its waiting events.
Abandon(lost) ==
  /\ ~abandoned /\ \A s \in Subs : arriving[s] = {}
  /\ abandoned' = TRUE
  /\ waiting' = [s \in Subs |->
       IF s \in lost THEN waiting[s] \ Events(waiting[s]) ELSE waiting[s]]
  /\ UNCHANGED <<arriving, telling, told, overflowed>>
-----------------------------------------------------------------------------
Next ==
  \/ \E targets \in SUBSET Subs, m \in Items : Arrive(targets, m)
  \/ \E s \in Subs :
       \/ \E m \in arriving[s] : Accept(s, m) \/ Overflow(s, m) \/ Refuse(s, m)
       \/ \E m \in waiting[s] : BeginTell(s, m)
       \/ \E m \in telling[s] : EndTell(s, m)
  \/ \E lost \in SUBSET Subs : Abandon(lost)

Spec == Init /\ [][Next]_vars
=============================================================================
