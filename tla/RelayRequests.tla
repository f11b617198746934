---------------------------- MODULE RelayRequests ----------------------------
(***************************************************************************)
(* Requests that wait for the relay's OK: PublishEvent and RespondAuth on  *)
(* the application's threads, WaitForOkResult, and what the receive thread *)
(* does with OK and AUTH messages (DispatchOkMessage,                      *)
(* DispatchAuthRequired), for one relay session.                           *)
(*                                                                         *)
(* The session remembers one OK, the last one, under lastOkMutex with a    *)
(* version number, and one challenge, under authMutex.                     *)
(***************************************************************************)
EXTENDS Integers, Sequences, FiniteSets

CONSTANTS
  Callers,         \* application threads
  Events,          \* ids of the events they send
  AuthCallers,     \* those that may call RespondAuth, too
  GivesTag,        \* its AUTH event may carry a challenge tag already
  AnswersInOrder,  \* the relay answers requests in the order it got them
  DeadlineMayPass, \* the relay may take longer than the timeout
  MaxCalls,        \* bound: calls of the application
  MaxChallenges    \* bound: AUTH messages of the relay

ASSUME RequestsAssumption ==
  /\ Events # {} /\ AuthCallers \subseteq Callers /\ MaxCalls \in Nat /\ MaxChallenges \in Nat
  /\ GivesTag \in BOOLEAN /\ AnswersInOrder \in BOOLEAN /\ DeadlineMayPass \in BOOLEAN

VARIABLES
  lastOk,        \* lastOkEventId and lastOkSuccess, or NoOk
  lastOkVersion, \* lastOkVersion
  challenge,     \* pendingAuthChallenge: the number of an AUTH message, or 0
  stopRequested, \* RelaySessionData::stopRequested
  stopper,       \* StopReceiveLoop: "none", "joining" or "done"
  receiver,      \* where the receive thread is
  unanswered,    \* requests the relay has yet to answer, oldest first
  issued,        \* number of AUTH messages received
  at,            \* for each caller, where it is
  kind,          \* "publish" or "auth"
  event,         \* the event it sends
  stored,        \* RespondAuth's challengeValue
  version,       \* WaitForOkResult's initialVersion
  awake,         \* waiting callers that have been notified
  result,        \* what the last call returned
  calls,         \* number of calls made
  answers,       \* history: for each caller, the outcomes the session received
                 \* for its event since its call took the version
  used           \* history: challenges forgotten after a success

slotVars     == <<lastOk, lastOkVersion>>
sessionVars  == <<stopRequested, stopper>>
relayVars    == <<receiver, unanswered, issued>>
callerVars   == <<at, kind, event, stored, version, result, calls>>
vars == <<slotVars, challenge, sessionVars, relayVars, callerVars, awake, answers,
          used>>
-----------------------------------------------------------------------------
NoOk == [event |-> CHOOSE e \in Events : TRUE, success |-> FALSE]

\* A caller in "stopcheck" or "blocking" holds lastOkMutex.
Places  == {"idle", "read", "rewrite", "snapshot", "send", "check", "stopcheck",
            "blocking", "waiting", "clear", "callback"}
Receiving == {"check", "receive", "notify", "ended"}
Results == {"none", "ok", "rejected", "timeout", "disconnected", "failed"}

Init ==
  /\ lastOk = NoOk /\ lastOkVersion = 0 /\ challenge = 0
  /\ stopRequested = FALSE /\ stopper = "none"
  /\ receiver = "check" /\ unanswered = <<>> /\ issued = 0
  /\ at = [c \in Callers |-> "idle"]
  /\ kind = [c \in Callers |-> "publish"]
  /\ event = [c \in Callers |-> NoOk.event]
  /\ stored = [c \in Callers |-> 0] /\ version = [c \in Callers |-> 0]
  /\ result = [c \in Callers |-> "none"]
  /\ calls = 0 /\ awake = {} /\ answers = [c \in Callers |-> {}] /\ used = {}

LastOkMutexFree == \A c \in Callers : at[c] \notin {"stopcheck", "blocking"}
-----------------------------------------------------------------------------
(***************************************************************************)
(* The receive thread: RunReceiveLoop looks at the stop flag, then waits   *)
(* for a message, which it handles to the end, or times out.  A failure    *)
(* ends it: it sets the stop flag itself, and notifies nobody.             *)
(***************************************************************************)
ReceiverStep(from, to) == receiver = from /\ receiver' = to

CheckLoop ==
  /\ ReceiverStep("check", IF stopRequested THEN "ended" ELSE "receive")
  /\ UNCHANGED <<slotVars, challenge, sessionVars, unanswered, issued, callerVars,
                 awake, answers, used>>

ReceiveTimesOut ==
  /\ ReceiverStep("receive", "check")
  /\ UNCHANGED <<slotVars, challenge, sessionVars, unanswered, issued, callerVars,
                 awake, answers, used>>

ReceiveFails ==
  /\ ReceiverStep("receive", "ended")
  /\ stopRequested' = TRUE
  /\ UNCHANGED <<slotVars, challenge, stopper, unanswered, issued, callerVars,
                 awake, answers, used>>

Waiting == {c \in Callers : at[c] = "waiting"}

\* The callers whose call has taken its version and not returned.
Asking == {c \in Callers : at[c] \in {"send", "check", "stopcheck", "blocking", "waiting"}}

Without(i) == SubSeq(unanswered, 1, i - 1) \o SubSeq(unanswered, i + 1, Len(unanswered))

\* DispatchOkMessage stores the OK and counts it, under the lock ...
MutantCountedDown == lastOkVersion - 1
Counted == lastOkVersion + 1

DispatchOkMessage(i, success) ==
  /\ ReceiverStep("receive", "notify") /\ LastOkMutexFree
  /\ i \in DOMAIN unanswered /\ (AnswersInOrder => i = 1)
  /\ unanswered' = Without(i)
  /\ lastOk' = [event |-> unanswered[i], success |-> success]
  /\ lastOkVersion' = Counted
  /\ answers' = [c \in Callers |->
                   IF c \in Asking /\ event[c] = unanswered[i] THEN answers[c] \union {success}
                                                               ELSE answers[c]]
  /\ UNCHANGED <<challenge, sessionVars, issued, callerVars, awake, used>>

\* ... and wakes every waiting caller after it.
MutantNotified == IF lastOk.success THEN Waiting ELSE {}
Notified == Waiting

NotifyOk ==
  /\ ReceiverStep("notify", "check")
  /\ awake' = awake \union Notified
  /\ UNCHANGED <<slotVars, challenge, sessionVars, unanswered, issued, callerVars,
                 answers, used>>

\* DispatchAuthRequired replaces the challenge; OnAuthRequired, which it posts, is
\* left to CallbackDispatcher and RelayExchange.
DispatchAuthRequired ==
  /\ ReceiverStep("receive", "check") /\ issued < MaxChallenges
  /\ issued' = issued + 1
  /\ challenge' = issued + 1
  /\ UNCHANGED <<slotVars, sessionVars, unanswered, callerVars, awake, answers,
                 used>>
-----------------------------------------------------------------------------
(***************************************************************************)
(* StopReceiveLoop: the flag, the join, and only then the notification,    *)
(* which is made without the lock.                                         *)
(***************************************************************************)
StopReceiveLoop ==
  /\ stopper = "none"
  /\ stopRequested' = TRUE /\ stopper' = "joining"
  /\ UNCHANGED <<slotVars, challenge, relayVars, callerVars, awake, answers, used>>

NotifyStopped ==
  /\ stopper = "joining" /\ receiver = "ended"
  /\ stopper' = "done"
  /\ awake' = awake \union Waiting
  /\ UNCHANGED <<slotVars, challenge, stopRequested, relayVars, callerVars, answers, used>>
-----------------------------------------------------------------------------
(***************************************************************************)
(* The application's calls.                                                *)
(***************************************************************************)
Goto(c, place) == at' = [at EXCEPT ![c] = place]
Return(c, outcome) == Goto(c, "idle") /\ result' = [result EXCEPT ![c] = outcome]

Begin(c, what, e, place) ==
  /\ stopper = "none" /\ at[c] = "idle" /\ calls < MaxCalls
  /\ calls' = calls + 1
  /\ kind' = [kind EXCEPT ![c] = what]
  /\ event' = [event EXCEPT ![c] = e]
  /\ result' = [result EXCEPT ![c] = "none"]
  /\ Goto(c, place)
  /\ UNCHANGED <<slotVars, challenge, sessionVars, relayVars, version, awake,
                 answers, used>>

PublishEvent(c, e) == Begin(c, "publish", e, "snapshot") /\ UNCHANGED stored

\* A tag names a challenge the application was told of; 0 is no tag.
RespondAuth(c, e, tag) ==
  /\ c \in AuthCallers /\ (tag = 0 \/ GivesTag)
  /\ Begin(c, "auth", e, "read")
  /\ stored' = [stored EXCEPT ![c] = tag]

\* RespondAuth answers the challenge of its event's tag, or else the stored one.
\* It fails without either, when the two differ, and when the stored one has
\* expired.
ReadChallenge(c) ==
  LET value == IF stored[c] # 0 THEN stored[c] ELSE challenge
  IN  /\ at[c] = "read"
      /\ \/ /\ value # 0 /\ challenge \in {0, value}
            /\ stored' = [stored EXCEPT ![c] = value]
            /\ Goto(c, "rewrite") /\ UNCHANGED result
         \/ /\ value = 0 \/ challenge # 0
            /\ Return(c, "failed") /\ UNCHANGED stored
      /\ UNCHANGED <<slotVars, challenge, sessionVars, relayVars, kind, event,
                     version, calls, awake, answers, used>>

\* The signer is asked for its key, then the copy is written back.
RewriteChallenge(c) ==
  /\ at[c] = "rewrite"
  /\ challenge' = stored[c]
  /\ Goto(c, "snapshot")
  /\ UNCHANGED <<slotVars, sessionVars, relayVars, kind, event, stored, version,
                 result, calls, awake, answers, used>>

\* Both calls sign, which may fail, note the version, and send.
SigningFails(c) ==
  /\ at[c] = "snapshot"
  /\ Return(c, "failed")
  /\ UNCHANGED <<slotVars, challenge, sessionVars, relayVars, kind, event, stored,
                 version, calls, awake, answers, used>>

MutantInitialVersion == 0
InitialVersion == lastOkVersion

TakeVersion(c) ==
  /\ at[c] = "snapshot" /\ LastOkMutexFree
  /\ version' = [version EXCEPT ![c] = InitialVersion]
  /\ answers' = [answers EXCEPT ![c] = {}]
  /\ Goto(c, "send")
  /\ UNCHANGED <<slotVars, challenge, sessionVars, relayVars, kind, event, stored,
                 result, calls, awake, used>>

Send(c) ==
  /\ at[c] = "send"
  /\ \/ /\ unanswered' = Append(unanswered, event[c])
        /\ Goto(c, "check") /\ UNCHANGED result
     \/ Return(c, "failed") /\ UNCHANGED unanswered
  /\ UNCHANGED <<slotVars, challenge, sessionVars, receiver, issued, kind, event,
                 stored, version, calls, awake, answers, used>>

\* What a call does with its answer: RespondAuth has more to do.
Answer(c, success) ==
  IF kind[c] = "auth"
    THEN /\ Goto(c, IF success THEN "clear" ELSE "callback")
         /\ result' = [result EXCEPT ![c] = IF success THEN "ok" ELSE "rejected"]
    ELSE Return(c, IF success THEN "ok" ELSE "rejected")

\* One turn of WaitForOkResult's loop, under lastOkMutex: an OK that is newer
\* than the version seen and for this event is the answer ...
IsAnswer(c) == lastOkVersion > version[c] /\ lastOk.event = event[c]

CheckAnswer(c) ==
  /\ at[c] = "check" /\ LastOkMutexFree
  /\ \/ IsAnswer(c) /\ Answer(c, lastOk.success) /\ UNCHANGED version
     \/ /\ ~IsAnswer(c)
        /\ version' = [version EXCEPT ![c] = lastOkVersion]
        /\ Goto(c, "stopcheck") /\ UNCHANGED result
  /\ UNCHANGED <<slotVars, challenge, sessionVars, relayVars, kind, event, stored,
                 calls, awake, answers, used>>

\* ... a stopped session ends the wait, and so does the deadline ...
CheckStop(c) ==
  /\ at[c] = "stopcheck"
  /\ \/ stopRequested /\ Return(c, "disconnected")
     \/ ~stopRequested /\ DeadlineMayPass /\ Return(c, "timeout")
     \/ ~stopRequested /\ Goto(c, "blocking") /\ UNCHANGED result
  /\ UNCHANGED <<slotVars, challenge, sessionVars, relayVars, kind, event, stored,
                 version, calls, awake, answers, used>>

\* ... otherwise wait_until releases the lock and blocks ...
Block(c) ==
  /\ at[c] = "blocking"
  /\ Goto(c, "waiting")
  /\ awake' = awake \ {c}
  /\ UNCHANGED <<slotVars, challenge, sessionVars, relayVars, kind, event, stored,
                 version, result, calls, answers, used>>

\* Mutant: a caller waits for its answer only.
MutantDeadlinePasses == FALSE
DeadlinePasses == DeadlineMayPass /\ LastOkMutexFree

\* ... until it is notified, or until the deadline, after which nothing is read again.
Wake(c) ==
  /\ at[c] = "waiting"
  /\ \/ c \in awake /\ Goto(c, "check") /\ UNCHANGED result
     \/ DeadlinePasses /\ Return(c, "timeout")
  /\ UNCHANGED <<slotVars, challenge, sessionVars, relayVars, kind, event, stored,
                 version, calls, awake, answers, used>>

\* RespondAuth after a success forgets the challenge ...
MutantForgotten(c) == challenge
Forgotten(c) == 0

ClearChallenge(c) ==
  /\ at[c] = "clear"
  /\ challenge' = Forgotten(c)
  /\ used' = used \union {stored[c]}
  /\ Goto(c, "callback")
  /\ UNCHANGED <<slotVars, sessionVars, relayVars, kind, event, stored, version,
                 result, calls, awake, answers>>

\* ... and calls OnAuthSucceeded or OnAuthFailed itself before it returns.
EndAuthCallback(c) ==
  /\ at[c] = "callback"
  /\ Goto(c, "idle")
  /\ UNCHANGED <<slotVars, challenge, sessionVars, relayVars, kind, event, stored,
                 version, result, calls, awake, answers, used>>

Continue(c) ==
  \/ ReadChallenge(c) \/ RewriteChallenge(c) \/ SigningFails(c) \/ TakeVersion(c) \/ Send(c) \/ CheckAnswer(c)
  \/ CheckStop(c) \/ Block(c) \/ Wake(c) \/ ClearChallenge(c) \/ EndAuthCallback(c)
-----------------------------------------------------------------------------
\* A stopped session may be left with nothing to do.
Idle == stopRequested /\ stopper = "done" /\ (\A c \in Callers : at[c] = "idle") /\ UNCHANGED vars

Receive ==
  \/ \E i \in DOMAIN unanswered, success \in BOOLEAN : DispatchOkMessage(i, success)
  \/ CheckLoop \/ ReceiveTimesOut \/ ReceiveFails \/ NotifyOk \/ DispatchAuthRequired

Next ==
  \/ Receive
  \/ StopReceiveLoop \/ NotifyStopped
  \/ \E c \in Callers, e \in Events : PublishEvent(c, e) \/ \E tag \in 0..issued : RespondAuth(c, e, tag)
  \/ \E c \in Callers : Continue(c)
  \/ Idle

(***************************************************************************)
(* Threads keep running, and a receive comes back, with nothing if need    *)
(* be; whether and when the relay answers is its affair.                   *)
(***************************************************************************)
Fairness ==
  /\ WF_vars(CheckLoop \/ ReceiveTimesOut \/ NotifyOk) /\ WF_vars(NotifyStopped)
  /\ \A c \in Callers : WF_vars(Continue(c))

Spec == Init /\ [][Next]_vars /\ Fairness
-----------------------------------------------------------------------------
TypeOK ==
  /\ lastOk \in [event : Events, success : BOOLEAN] /\ lastOkVersion \in Nat
  /\ challenge \in 0..MaxChallenges
  /\ stopRequested \in BOOLEAN /\ stopper \in {"none", "joining", "done"}
  /\ receiver \in Receiving /\ unanswered \in Seq(Events)
  /\ issued \in 0..MaxChallenges
  /\ at \in [Callers -> Places] /\ kind \in [Callers -> {"publish", "auth"}]
  /\ event \in [Callers -> Events] /\ stored \in [Callers -> 0..MaxChallenges]
  /\ version \in [Callers -> Nat] /\ result \in [Callers -> Results]
  /\ calls \in Nat /\ awake \subseteq Callers
  /\ answers \in [Callers -> SUBSET BOOLEAN] /\ used \subseteq 1..MaxChallenges

(***************************************************************************)
(* A call that reports an answer reports one that the relay gave for its   *)
(* event while the call was waiting: never another event's, and never one  *)
(* that was already there when the call began (an earlier attempt's).      *)
(***************************************************************************)
AnswerIsOwnAndFresh ==
  \A c \in Callers :
    /\ result[c] = "ok" => TRUE \in answers[c]
    /\ result[c] = "rejected" => FALSE \in answers[c]

(***************************************************************************)
(* A caller does not sleep over an OK: one that waits while the slot holds *)
(* a newer OK than it has seen has been notified, or the receive thread is *)
(* about to.  The OK may come between its look at the slot and its wait,   *)
(* and other callers look at it first.                                     *)
(***************************************************************************)
NoSleepOverAnswer ==
  \A c \in Callers :
    at[c] = "waiting" /\ lastOkVersion # version[c] => c \in awake \/ receiver = "notify"

(***************************************************************************)
(* An OK for the event of a call ends that call, whichever other answers   *)
(* come: the application does not have to wait for the deadline.  It does, *)
(* when another OK takes the slot before the caller has looked.            *)
(***************************************************************************)
AnswerEndsCall == \A c \in Callers : answers[c] # {} /\ c \in Asking ~> c \notin Asking

(***************************************************************************)
(* With the deadline, every call returns, also when the relay never        *)
(* answers, when the receive thread ends by itself and tells nobody, or    *)
(* when the session is stopped between the check and the wait.             *)
(***************************************************************************)
CallsReturn == \A c \in Callers : at[c] # "idle" ~> at[c] = "idle"

\* A challenge that was forgotten because an answer to it was accepted is not
\* used again: it does not come back into the store.
UsedChallengeGone == challenge \notin used
=============================================================================
