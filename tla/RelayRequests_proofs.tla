------------------------ MODULE RelayRequests_proofs ------------------------
(***************************************************************************)
(* Proofs about RelayRequests, for any number of callers, events and       *)
(* challenges, a relay that answers in any order, and any deadlines.       *)
(***************************************************************************)
EXTENDS RelayRequests, SequenceTheorems, TLAPS

(***************************************************************************)
(* The inductive invariant for the answers.  A call has no result until it *)
(* ends; an authentication has its challenge from the moment it was read   *)
(* to the moment it is forgotten.                                          *)
(***************************************************************************)
NoResultYet ==
  \A c \in Callers :
    at[c] \in {"read", "rewrite", "snapshot"} \/ c \in Asking => result[c] = "none"

HasChallenge ==
  \A c \in Callers :
    /\ at[c] \in {"read", "rewrite", "clear"} => kind[c] = "auth"
    /\ kind[c] = "auth" /\ (at[c] \in {"rewrite", "snapshot", "clear"} \/ c \in Asking) =>
         stored[c] # 0

\* An OK that is newer than the version a call has seen came during the call.
NewerIsRecorded ==
  \A c \in Asking :
    /\ version[c] <= lastOkVersion
    /\ IsAnswer(c) => lastOk.success \in answers[c]

AInv == TypeOK /\ NoResultYet /\ HasChallenge /\ NewerIsRecorded /\ AnswerIsOwnAndFresh

(***************************************************************************)
(* The inductive invariant for the challenges, with one thread that        *)
(* answers them and leaves the tag to the library: what is stored, and     *)
(* what the call carries, was issued and was never forgotten.              *)
(***************************************************************************)
Answering == {c \in Callers :
  kind[c] = "auth" /\ (at[c] \in {"rewrite", "snapshot", "clear"} \/ c \in Asking)}

ChallengesFresh ==
  /\ challenge \in 0..issued /\ used \subseteq 1..issued
  /\ challenge \notin used
  /\ \A c \in Answering : c \in AuthCallers /\ stored[c] \in (0..issued) \ used
  /\ \A c \in Callers : at[c] = "read" => c \in AuthCallers /\ stored[c] = 0

UInv == AInv /\ ChallengesFresh
-----------------------------------------------------------------------------
USE RequestsAssumption

\* TypeOK in two parts, which the steps are easier to prove for.
RelayTypes ==
  /\ lastOk \in [event : Events, success : BOOLEAN] /\ lastOkVersion \in Nat
  /\ challenge \in 0..MaxChallenges
  /\ stopRequested \in BOOLEAN /\ stopper \in {"none", "joining", "done"}
  /\ receiver \in Receiving /\ unanswered \in Seq(Events)
  /\ issued \in 0..MaxChallenges
  /\ awake \subseteq Callers
  /\ answers \in [Callers -> SUBSET BOOLEAN] /\ used \subseteq 1..MaxChallenges
CallerTypes ==
  /\ at \in [Callers -> Places] /\ kind \in [Callers -> {"publish", "auth"}]
  /\ event \in [Callers -> Events] /\ stored \in [Callers -> 0..MaxChallenges]
  /\ version \in [Callers -> Nat] /\ result \in [Callers -> Results]
  /\ calls \in Nat

LEMMA TypeParts == TypeOK <=> RelayTypes /\ CallerTypes
BY Zenon DEF TypeOK, RelayTypes, CallerTypes

LEMMA WithoutType ==
  ASSUME unanswered \in Seq(Events), NEW i \in DOMAIN unanswered
  PROVE  Without(i) \in Seq(Events)
<1>1. i \in 1..Len(unanswered) /\ Len(unanswered) \in Nat
  OBVIOUS
<1>2. SubSeq(unanswered, 1, i - 1) \in Seq(Events)
  BY <1>1, SubSeqProperties
<1>3. SubSeq(unanswered, i + 1, Len(unanswered)) \in Seq(Events)
  BY <1>1, SubSeqProperties
<1> QED BY <1>2, <1>3, ConcatProperties DEF Without

LEMMA RelayTypesStep == AInv /\ [Next]_vars => RelayTypes'
<1> SUFFICES ASSUME AInv, [Next]_vars PROVE RelayTypes'
  OBVIOUS
<1> USE DEF RelayTypes, slotVars, sessionVars, relayVars, ReceiverStep
<1>0. RelayTypes /\ CallerTypes
  BY TypeParts DEF AInv
<1>1. ASSUME NEW i \in DOMAIN unanswered, NEW success \in BOOLEAN, DispatchOkMessage(i, success)
      PROVE  RelayTypes'
  <2>1. unanswered[i] \in Events /\ Without(i) \in Seq(Events)
    BY <1>0, WithoutType
  <2>2. /\ lastOk' \in [event : Events, success : BOOLEAN] /\ lastOkVersion' \in Nat
        /\ unanswered' \in Seq(Events)
    BY <1>0, <1>1, <2>1 DEF DispatchOkMessage, Counted
  <2>3. answers' \in [Callers -> SUBSET BOOLEAN]
    BY <1>0, <1>1 DEF DispatchOkMessage
  <2> QED BY <1>0, <1>1, <2>2, <2>3 DEF DispatchOkMessage, Receiving
<1>2. CASE CheckLoop \/ ReceiveTimesOut \/ ReceiveFails
  BY <1>0, <1>2 DEF CheckLoop, ReceiveTimesOut, ReceiveFails, Receiving
<1>3. CASE NotifyOk \/ NotifyStopped \/ StopReceiveLoop
  BY <1>0, <1>3 DEF NotifyOk, NotifyStopped, StopReceiveLoop, Notified, Waiting, Receiving
<1>4. CASE DispatchAuthRequired
  BY <1>0, <1>4 DEF DispatchAuthRequired, Receiving
<1>5. ASSUME NEW c \in Callers, NEW e \in Events, NEW tag,
             PublishEvent(c, e) \/ RespondAuth(c, e, tag)
      PROVE  RelayTypes'
  BY <1>0, <1>5 DEF PublishEvent, RespondAuth, Begin
<1>6. ASSUME NEW c \in Callers, RewriteChallenge(c) \/ ClearChallenge(c) PROVE RelayTypes'
  <2>1. stored[c] \in 0..MaxChallenges /\ (at[c] = "clear" => stored[c] # 0)
    BY <1>0 DEF CallerTypes, AInv, HasChallenge
  <2>2. challenge' \in 0..MaxChallenges /\ used' \subseteq 1..MaxChallenges
    <3>1. CASE RewriteChallenge(c)
      BY <1>0, <2>1, <3>1 DEF RewriteChallenge
    <3>2. CASE ClearChallenge(c)
      <4>1. stored[c] \in 1..MaxChallenges
        BY <2>1, <3>2 DEF ClearChallenge
      <4>2. challenge' = 0 /\ used' = used \union {stored[c]}
        BY <3>2 DEF ClearChallenge, Forgotten
      <4>3. used' \subseteq 1..MaxChallenges
        BY Zenon, <1>0, <4>1, <4>2
      <4>4. 0 \in 0..MaxChallenges
        OBVIOUS
      <4> QED BY Zenon, <4>2, <4>3, <4>4
    <3> QED BY <1>6, <3>1, <3>2
  <2>3. UNCHANGED <<slotVars, sessionVars, relayVars, awake, answers>>
    BY <1>6 DEF RewriteChallenge, ClearChallenge
  <2> QED BY <1>0, <2>2, <2>3
<1>7. ASSUME NEW c \in Callers, Send(c) PROVE RelayTypes'
  <2>1. event[c] \in Events
    BY <1>0 DEF CallerTypes
  <2>2. unanswered' \in Seq(Events)
    BY <1>0, <1>7, <2>1 DEF Send
  <2>3. UNCHANGED <<slotVars, challenge, sessionVars, receiver, issued, awake, answers, used>>
    BY <1>7 DEF Send
  <2> QED BY <1>0, <2>2, <2>3
<1>8. ASSUME NEW c \in Callers, TakeVersion(c) \/ Block(c) PROVE RelayTypes'
  BY <1>0, <1>8 DEF TakeVersion, Block
<1>9. ASSUME NEW c \in Callers,
             \/ ReadChallenge(c) \/ SigningFails(c) \/ CheckAnswer(c) \/ CheckStop(c) \/ Wake(c)
             \/ EndAuthCallback(c)
      PROVE  RelayTypes'
  BY <1>0, <1>9 DEF ReadChallenge, SigningFails, CheckAnswer, CheckStop, Wake, EndAuthCallback
<1>10. CASE UNCHANGED vars
  BY <1>0, <1>10 DEF vars
<1> QED
  BY <1>1, <1>2, <1>3, <1>4, <1>5, <1>6, <1>7, <1>8, <1>9, <1>10
     DEF Next, Receive, Continue, Idle

LEMMA CallerTypesStep == TypeOK /\ [Next]_vars => CallerTypes'
<1> SUFFICES ASSUME TypeOK, [Next]_vars PROVE CallerTypes'
  OBVIOUS
<1> USE DEF CallerTypes, callerVars, Goto, Return
<1>0. CallerTypes /\ RelayTypes
  BY TypeParts
<1>1. ASSUME NEW c \in Callers, NEW e \in Events, PublishEvent(c, e) PROVE CallerTypes'
  BY <1>0, <1>1 DEF PublishEvent, Begin, Places, Results
<1>2. ASSUME NEW c \in Callers, NEW e \in Events, NEW tag \in 0..issued, RespondAuth(c, e, tag)
      PROVE  CallerTypes'
  <2>1. stored' \in [Callers -> 0..MaxChallenges]
    BY <1>0, <1>2 DEF RespondAuth, RelayTypes
  <2>2. Begin(c, "auth", e, "read")
    BY <1>2 DEF RespondAuth
  <2> QED BY <1>0, <2>1, <2>2 DEF Begin, Places, Results
<1>3. ASSUME NEW c \in Callers, ReadChallenge(c) PROVE CallerTypes'
  <2>1. stored' \in [Callers -> 0..MaxChallenges]
    BY <1>0, <1>3, ZenonT(30) DEF ReadChallenge, RelayTypes
  <2>2. at' \in [Callers -> Places]
    BY <1>0, <1>3 DEF ReadChallenge, Places
  <2>3. result' \in [Callers -> Results]
    BY <1>0, <1>3 DEF ReadChallenge, Results
  <2> QED BY <1>0, <1>3, <2>1, <2>2, <2>3 DEF ReadChallenge
<1>4. ASSUME NEW c \in Callers, RewriteChallenge(c) \/ SigningFails(c) \/ TakeVersion(c)
      PROVE  CallerTypes'
  <2>1. at' \in [Callers -> Places]
    BY <1>0, <1>4 DEF RewriteChallenge, SigningFails, TakeVersion, Places
  <2>2. result' \in [Callers -> Results]
    BY <1>0, <1>4 DEF RewriteChallenge, SigningFails, TakeVersion, Results
  <2>3. version' \in [Callers -> Nat]
    BY <1>0, <1>4 DEF RewriteChallenge, SigningFails, TakeVersion, InitialVersion, RelayTypes
  <2>4. UNCHANGED <<kind, event, stored, calls>>
    BY <1>4 DEF RewriteChallenge, SigningFails, TakeVersion
  <2> QED BY <1>0, <2>1, <2>2, <2>3, <2>4
<1>5. ASSUME NEW c \in Callers, Send(c) \/ CheckStop(c) \/ Block(c) \/ Wake(c) PROVE CallerTypes'
  BY <1>0, <1>5, ZenonT(30) DEF Send, CheckStop, Block, Wake, Places, Results
<1>6. ASSUME NEW c \in Callers, CheckAnswer(c) PROVE CallerTypes'
  <2>1. at' \in [Callers -> Places] /\ result' \in [Callers -> Results]
    BY <1>0, <1>6 DEF CheckAnswer, Answer, Places, Results
  <2>2. version' \in [Callers -> Nat]
    BY <1>0, <1>6 DEF CheckAnswer, RelayTypes
  <2> QED BY <1>0, <1>6, <2>1, <2>2 DEF CheckAnswer
<1>7. ASSUME NEW c \in Callers, ClearChallenge(c) \/ EndAuthCallback(c) PROVE CallerTypes'
  BY <1>0, <1>7 DEF ClearChallenge, EndAuthCallback, Places
<1>8. CASE Receive \/ StopReceiveLoop \/ NotifyStopped \/ UNCHANGED vars
  BY <1>0, <1>8 DEF Receive, DispatchOkMessage, CheckLoop, ReceiveTimesOut, ReceiveFails,
     NotifyOk, DispatchAuthRequired, StopReceiveLoop, NotifyStopped, vars
<1> QED
  BY <1>1, <1>2, <1>3, <1>4, <1>5, <1>6, <1>7, <1>8 DEF Next, Continue, Idle

LEMMA TypeStep == AInv /\ [Next]_vars => TypeOK'
<1>1. ASSUME AInv, [Next]_vars PROVE (RelayTypes /\ CallerTypes)'
  BY <1>1, RelayTypesStep, CallerTypesStep DEF AInv
<1>2. (TypeOK <=> RelayTypes /\ CallerTypes)'
  BY Zenon DEF TypeOK, RelayTypes, CallerTypes
<1> QED BY <1>1, <1>2

-----------------------------------------------------------------------------
LEMMA CallStateStep == AInv /\ [Next]_vars => NoResultYet' /\ HasChallenge'
<1> SUFFICES ASSUME AInv, [Next]_vars PROVE NoResultYet' /\ HasChallenge'
  OBVIOUS
<1> USE DEF NoResultYet, HasChallenge, Asking, callerVars, Goto, Return
<1>0. NoResultYet /\ HasChallenge /\ CallerTypes /\ RelayTypes
  BY TypeParts DEF AInv
<1>1. ASSUME NEW c \in Callers, NEW e \in Events, NEW tag,
             PublishEvent(c, e) \/ RespondAuth(c, e, tag)
      PROVE  NoResultYet' /\ HasChallenge'
  BY <1>0, <1>1 DEF PublishEvent, RespondAuth, Begin, CallerTypes
<1>2. ASSUME NEW c \in Callers, ReadChallenge(c) PROVE NoResultYet' /\ HasChallenge'
  BY <1>0, <1>2 DEF ReadChallenge, CallerTypes
<1>3. ASSUME NEW c \in Callers, RewriteChallenge(c) \/ SigningFails(c) \/ TakeVersion(c)
      PROVE  NoResultYet' /\ HasChallenge'
  BY <1>0, <1>3 DEF RewriteChallenge, SigningFails, TakeVersion, CallerTypes
<1>4. ASSUME NEW c \in Callers, Send(c) \/ CheckStop(c) \/ Block(c) \/ Wake(c)
      PROVE  NoResultYet' /\ HasChallenge'
  <2>1. c \in Asking /\ UNCHANGED <<kind, stored>>
    BY <1>4 DEF Send, CheckStop, Block, Wake
  <2>2. \/ /\ \E place \in {"check", "blocking", "waiting"} : at' = [at EXCEPT ![c] = place]
           /\ result' = result
        \/ /\ at' = [at EXCEPT ![c] = "idle"]
           /\ \E outcome \in Results : result' = [result EXCEPT ![c] = outcome]
    <3>1. CASE Send(c) \/ Block(c)
      BY <3>1 DEF Send, Block, Results
    <3>2. CASE CheckStop(c) \/ Wake(c)
      BY <3>2 DEF CheckStop, Wake, Results
    <3> QED BY <1>4, <3>1, <3>2
  <2> QED BY <1>0, <2>1, <2>2 DEF CallerTypes
<1>5. ASSUME NEW c \in Callers, CheckAnswer(c) PROVE NoResultYet' /\ HasChallenge'
  BY <1>0, <1>5 DEF CheckAnswer, Answer, CallerTypes
<1>6. ASSUME NEW c \in Callers, ClearChallenge(c) \/ EndAuthCallback(c)
      PROVE  NoResultYet' /\ HasChallenge'
  BY <1>0, <1>6 DEF ClearChallenge, EndAuthCallback, CallerTypes
<1>7. CASE Receive \/ StopReceiveLoop \/ NotifyStopped \/ UNCHANGED vars
  BY <1>0, <1>7 DEF Receive, DispatchOkMessage, CheckLoop, ReceiveTimesOut, ReceiveFails,
     NotifyOk, DispatchAuthRequired, StopReceiveLoop, NotifyStopped, vars
<1> QED
  BY <1>1, <1>2, <1>3, <1>4, <1>5, <1>6, <1>7 DEF Next, Continue, Idle

\* A step of one call: what it must keep for the caller, the other callers keep.
LEMMA OtherCallsKeep ==
  ASSUME AInv, NEW c \in Callers, UNCHANGED <<lastOk, lastOkVersion>>,
         \A b \in Callers \ {c} : /\ at'[b] = at[b] /\ event'[b] = event[b]
                                  /\ version'[b] = version[b] /\ result'[b] = result[b]
                                  /\ answers'[b] = answers[b],
         c \in Asking' => /\ version'[c] <= lastOkVersion
                          /\ IsAnswer(c)' => lastOk.success \in answers'[c],
         result'[c] = "ok" => TRUE \in answers'[c],
         result'[c] = "rejected" => FALSE \in answers'[c]
  PROVE  NewerIsRecorded' /\ AnswerIsOwnAndFresh'
BY DEF AInv, NewerIsRecorded, AnswerIsOwnAndFresh, IsAnswer, Asking

LEMMA AnswersStep == AInv /\ [Next]_vars => NewerIsRecorded' /\ AnswerIsOwnAndFresh'
<1> SUFFICES ASSUME AInv, [Next]_vars PROVE NewerIsRecorded' /\ AnswerIsOwnAndFresh'
  OBVIOUS
<1> USE DEF slotVars, callerVars, Goto, Return
<1>0. /\ NewerIsRecorded /\ AnswerIsOwnAndFresh /\ NoResultYet /\ CallerTypes /\ RelayTypes
  BY TypeParts DEF AInv
<1>1. ASSUME NEW i \in DOMAIN unanswered, NEW success \in BOOLEAN, DispatchOkMessage(i, success)
      PROVE  NewerIsRecorded' /\ AnswerIsOwnAndFresh'
  <2>1. /\ lastOk'.event = unanswered[i] /\ lastOk'.success = success
        /\ lastOkVersion' = lastOkVersion + 1
        /\ UNCHANGED <<at, event, version, result>>
    BY <1>1 DEF DispatchOkMessage, Counted
  <2>2. /\ \A c \in Callers : answers[c] \subseteq answers'[c]
        /\ \A c \in Asking : event[c] = unanswered[i] => success \in answers'[c]
    BY <1>0, <1>1 DEF DispatchOkMessage, Asking
  <2>3. Asking' = Asking /\ Asking \subseteq Callers
    BY <2>1 DEF Asking
  <2>4. ASSUME NEW c \in Asking
        PROVE  version'[c] <= lastOkVersion' /\ (IsAnswer(c)' => lastOk'.success \in answers'[c])
    <3>1. version[c] <= lastOkVersion /\ version[c] \in Nat /\ lastOkVersion \in Nat
      BY <1>0, <2>3 DEF NewerIsRecorded, CallerTypes, RelayTypes
    <3>2. version'[c] <= lastOkVersion'
      BY <2>1, <3>1
    <3>3. IsAnswer(c)' => lastOk'.success \in answers'[c]
      BY <2>1, <2>2 DEF IsAnswer
    <3> QED BY <3>2, <3>3
  <2> QED BY <1>0, <2>1, <2>2, <2>3, <2>4 DEF NewerIsRecorded, AnswerIsOwnAndFresh
<1>2. ASSUME NEW c \in Callers, NEW e \in Events, NEW tag,
             PublishEvent(c, e) \/ RespondAuth(c, e, tag)
      PROVE  NewerIsRecorded' /\ AnswerIsOwnAndFresh'
  <2>1. Begin(c, "publish", e, "snapshot") \/ Begin(c, "auth", e, "read")
    BY <1>2 DEF PublishEvent, RespondAuth
  <2>2. c \notin Asking' /\ result'[c] = "none"
    BY <1>0, <2>1 DEF Begin, Asking, CallerTypes
  <2>3. \A b \in Callers \ {c} : /\ at'[b] = at[b] /\ event'[b] = event[b]
                                 /\ version'[b] = version[b] /\ result'[b] = result[b]
                                 /\ answers'[b] = answers[b]
    BY <1>0, <2>1 DEF Begin, CallerTypes
  <2>4. UNCHANGED <<lastOk, lastOkVersion>>
    BY <2>1 DEF Begin
  <2> QED BY <2>2, <2>3, <2>4, OtherCallsKeep
<1>3. ASSUME NEW c \in Callers, ReadChallenge(c) \/ RewriteChallenge(c) \/ SigningFails(c)
      PROVE  NewerIsRecorded' /\ AnswerIsOwnAndFresh'
  BY <1>0, <1>3, ZenonT(30) DEF ReadChallenge, RewriteChallenge, SigningFails, CallerTypes, NewerIsRecorded,
     AnswerIsOwnAndFresh, IsAnswer, Asking
<1>4. ASSUME NEW c \in Callers, TakeVersion(c) PROVE NewerIsRecorded' /\ AnswerIsOwnAndFresh'
  <2>1. result'[c] = "none" /\ version'[c] = lastOkVersion /\ lastOkVersion \in Nat
    BY <1>0, <1>4 DEF TakeVersion, InitialVersion, NoResultYet, CallerTypes, RelayTypes
  <2>2. \A b \in Callers \ {c} : /\ at'[b] = at[b] /\ event'[b] = event[b]
                                 /\ version'[b] = version[b] /\ result'[b] = result[b]
                                 /\ answers'[b] = answers[b]
    BY <1>0, <1>4 DEF TakeVersion, CallerTypes, RelayTypes
  <2>3. UNCHANGED <<lastOk, lastOkVersion>>
    BY <1>4 DEF TakeVersion
  <2>4. version'[c] <= lastOkVersion /\ ~IsAnswer(c)'
    BY <2>1, <2>3 DEF IsAnswer
  <2> QED BY <2>1, <2>2, <2>3, <2>4, OtherCallsKeep
<1>5. ASSUME NEW c \in Callers, Send(c) \/ CheckStop(c) \/ Block(c) \/ Wake(c)
      PROVE  NewerIsRecorded' /\ AnswerIsOwnAndFresh'
  BY <1>0, <1>5, ZenonT(30) DEF Send, CheckStop, Block, Wake, CallerTypes, NewerIsRecorded,
     AnswerIsOwnAndFresh, IsAnswer, Asking
<1>6. ASSUME NEW c \in Callers, CheckAnswer(c) PROVE NewerIsRecorded' /\ AnswerIsOwnAndFresh'
  <2>1. UNCHANGED <<lastOk, lastOkVersion, event, answers>> /\ c \in Asking
    BY <1>6 DEF CheckAnswer, Asking
  <2>2. \A b \in Callers \ {c} : /\ at'[b] = at[b] /\ version'[b] = version[b]
                                 /\ result'[b] = result[b]
    BY <1>0, <1>6 DEF CheckAnswer, Answer, CallerTypes
  <2>3. lastOkVersion \in Nat /\ lastOk.success \in BOOLEAN
    BY <1>0 DEF RelayTypes
  <2>4. CASE IsAnswer(c)
    <3>1. lastOk.success \in answers[c]
      BY <1>0, <2>1, <2>4 DEF NewerIsRecorded
    <3>2. at'[c] \in {"clear", "callback", "idle"}
      BY <1>0, <1>6, <2>4 DEF CheckAnswer, Answer, CallerTypes
    <3>3. result'[c] = IF lastOk.success THEN "ok" ELSE "rejected"
      BY <1>0, <1>6, <2>4 DEF CheckAnswer, Answer, CallerTypes
    <3>4. c \notin Asking'
      BY <3>2 DEF Asking
    <3> QED BY <2>1, <2>2, <2>3, <3>1, <3>3, <3>4, OtherCallsKeep
  <2>5. CASE ~IsAnswer(c)
    <3>1. version'[c] = lastOkVersion /\ result'[c] = result[c]
      BY <1>0, <1>6, <2>5 DEF CheckAnswer, CallerTypes
    <3>2. version'[c] <= lastOkVersion /\ ~IsAnswer(c)'
      BY <2>1, <2>3, <3>1 DEF IsAnswer
    <3> QED BY <1>0, <2>1, <2>2, <3>1, <3>2, OtherCallsKeep DEF AnswerIsOwnAndFresh
  <2> QED BY <2>4, <2>5
<1>7. ASSUME NEW c \in Callers, ClearChallenge(c) \/ EndAuthCallback(c)
      PROVE  NewerIsRecorded' /\ AnswerIsOwnAndFresh'
  BY <1>0, <1>7 DEF ClearChallenge, EndAuthCallback, CallerTypes, NewerIsRecorded,
     AnswerIsOwnAndFresh, IsAnswer, Asking
<1>8. CASE CheckLoop \/ ReceiveTimesOut \/ ReceiveFails \/ NotifyOk \/ DispatchAuthRequired
             \/ StopReceiveLoop \/ NotifyStopped \/ UNCHANGED vars
  BY <1>0, <1>8 DEF CheckLoop, ReceiveTimesOut, ReceiveFails, NotifyOk, DispatchAuthRequired,
     StopReceiveLoop, NotifyStopped, vars, NewerIsRecorded, AnswerIsOwnAndFresh, IsAnswer, Asking
<1> QED
  BY <1>1, <1>2, <1>3, <1>4, <1>5, <1>6, <1>7, <1>8 DEF Next, Receive, Continue, Idle

LEMMA AnswersInvariant == Spec => []AInv
<1>1. Init => TypeOK
  <2> SUFFICES ASSUME Init PROVE TypeOK
    OBVIOUS
  <2>1. NoOk \in [event : Events, success : BOOLEAN] /\ NoOk.event \in Events
    BY DEF NoOk
  <2>2. RelayTypes
    <3>1. <<>> \in Seq(Events) /\ [c \in Callers |-> {}] \in [Callers -> SUBSET BOOLEAN]
      OBVIOUS
    <3>2. unanswered \in Seq(Events) /\ answers \in [Callers -> SUBSET BOOLEAN]
      BY <3>1 DEF Init
    <3>3. stopRequested \in BOOLEAN
      BY Zenon DEF Init
    <3> QED BY <2>1, <3>2, <3>3 DEF Init, RelayTypes, Receiving
  <2>3. CallerTypes
    BY <2>1 DEF Init, CallerTypes, Places, Results
  <2> QED BY <2>2, <2>3, TypeParts
<1>2. Init => NoResultYet /\ HasChallenge /\ NewerIsRecorded /\ AnswerIsOwnAndFresh
  BY DEF Init, NoResultYet, HasChallenge, NewerIsRecorded, AnswerIsOwnAndFresh, Asking
<1>3. AInv /\ [Next]_vars => AInv'
  BY TypeStep, CallStateStep, AnswersStep DEF AInv
<1> QED
  BY <1>1, <1>2, <1>3, PTL DEF Spec, AInv

\* The variables of RelayRequests keep their types: in particular only a real
\* challenge is ever counted as used.
THEOREM TypeCorrect == Spec => []TypeOK
<1>1. AInv => TypeOK
  BY DEF AInv
<1> QED
  BY <1>1, AnswersInvariant, PTL

(***************************************************************************)
(* Although the session remembers a single OK, which any answer to any     *)
(* request overwrites, a call that reports an answer reports one that the  *)
(* relay gave for its own event after the call had taken its version.      *)
(***************************************************************************)
THEOREM AnswerIsOwnAndFreshHolds == Spec => []AnswerIsOwnAndFresh
<1>1. AInv => AnswerIsOwnAndFresh
  BY DEF AInv
<1> QED
  BY <1>1, AnswersInvariant, PTL
-----------------------------------------------------------------------------
(***************************************************************************)
(* A caller that has looked at the slot has seen the last OK until it lets *)
(* go of the lock.                                                         *)
(***************************************************************************)
HasSeenLast ==
  \A c \in Callers : at[c] \in {"stopcheck", "blocking"} => version[c] = lastOkVersion

WInv == HasSeenLast /\ NoSleepOverAnswer

LEMMA SleepStep == TypeOK /\ WInv /\ [Next]_vars => WInv'
<1> SUFFICES ASSUME TypeOK, WInv, [Next]_vars PROVE WInv'
  OBVIOUS
<1> USE DEF WInv, HasSeenLast, NoSleepOverAnswer, slotVars, sessionVars, callerVars, ReceiverStep,
            Goto, Return
<1>0. CallerTypes
  BY TypeParts
<1>1. ASSUME NEW i \in DOMAIN unanswered, NEW success \in BOOLEAN, DispatchOkMessage(i, success)
      PROVE  WInv'
  BY <1>1 DEF DispatchOkMessage, LastOkMutexFree
<1>2. CASE NotifyOk \/ NotifyStopped
  BY <1>2 DEF NotifyOk, NotifyStopped, Notified, Waiting, relayVars
<1>3. CASE \/ CheckLoop \/ ReceiveTimesOut \/ ReceiveFails \/ DispatchAuthRequired
           \/ StopReceiveLoop \/ UNCHANGED vars
  BY <1>3 DEF CheckLoop, ReceiveTimesOut, ReceiveFails, DispatchAuthRequired, StopReceiveLoop,
     relayVars, vars
<1>4. ASSUME NEW c \in Callers, NEW e \in Events, NEW tag,
             PublishEvent(c, e) \/ RespondAuth(c, e, tag)
      PROVE  WInv'
  BY <1>0, <1>4 DEF PublishEvent, RespondAuth, Begin, CallerTypes, relayVars
<1>5. ASSUME NEW c \in Callers, CheckAnswer(c) PROVE WInv'
  BY <1>0, <1>5 DEF CheckAnswer, Answer, CallerTypes, relayVars
<1>6. ASSUME NEW c \in Callers, Block(c) PROVE WInv'
  BY <1>0, <1>6 DEF Block, CallerTypes, relayVars
<1>7. ASSUME NEW c \in Callers, CheckStop(c) \/ Wake(c) PROVE WInv'
  BY <1>0, <1>7 DEF CheckStop, Wake, CallerTypes, relayVars
<1>8. ASSUME NEW c \in Callers,
             ReadChallenge(c) \/ RewriteChallenge(c) \/ SigningFails(c) \/ TakeVersion(c)
      PROVE  WInv'
  BY <1>0, <1>8 DEF ReadChallenge, RewriteChallenge, SigningFails, TakeVersion, CallerTypes, relayVars
<1>9. ASSUME NEW c \in Callers, Send(c) \/ ClearChallenge(c) \/ EndAuthCallback(c) PROVE WInv'
  BY <1>0, <1>9 DEF Send, ClearChallenge, EndAuthCallback, CallerTypes, relayVars
<1> QED
  BY <1>1, <1>2, <1>3, <1>4, <1>5, <1>6, <1>7, <1>8, <1>9 DEF Next, Receive, Continue, Idle

(***************************************************************************)
(* No notification is lost between WaitForOkResult's look at the slot and  *)
(* its wait, for any number of callers: the look, the version and the wait *)
(* are under one lock, and the OK is stored under it before the            *)
(* notification.                                                           *)
(***************************************************************************)
THEOREM NoSleepOverAnswerHolds == Spec => []NoSleepOverAnswer
<1>1. Init => WInv
  BY DEF Init, WInv, HasSeenLast, NoSleepOverAnswer
<1>2. TypeOK /\ WInv /\ [Next]_vars => WInv'
  BY SleepStep
<1>3. WInv => NoSleepOverAnswer
  BY DEF WInv
<1> QED
  BY <1>1, <1>2, <1>3, TypeCorrect, PTL DEF Spec
-----------------------------------------------------------------------------
LEMMA FreshStep ==
  ASSUME GivesTag = FALSE, \A c, d \in AuthCallers : c = d
  PROVE  UInv /\ [Next]_vars => ChallengesFresh'
<1> SUFFICES ASSUME UInv, [Next]_vars PROVE ChallengesFresh'
  OBVIOUS
<1> USE DEF ChallengesFresh, Answering, slotVars, relayVars, callerVars, Goto, Return
<1>0. ChallengesFresh /\ HasChallenge /\ CallerTypes /\ issued \in Nat
  BY TypeParts DEF UInv, AInv, RelayTypes
<1>1. ASSUME NEW c \in Callers, NEW e \in Events, PublishEvent(c, e) PROVE ChallengesFresh'
  BY <1>0, <1>1 DEF PublishEvent, Begin, Asking, CallerTypes
<1>2. ASSUME NEW c \in Callers, NEW e \in Events, NEW tag, RespondAuth(c, e, tag)
      PROVE  ChallengesFresh'
  BY <1>0, <1>2 DEF RespondAuth, Begin, Asking, CallerTypes
<1>3. ASSUME NEW c \in Callers, ReadChallenge(c) PROVE ChallengesFresh'
  BY <1>0, <1>3 DEF ReadChallenge, Asking, CallerTypes
<1>4. ASSUME NEW c \in Callers, RewriteChallenge(c) PROVE ChallengesFresh'
  <2>1. c \in Answering
    BY <1>0, <1>4 DEF RewriteChallenge, HasChallenge
  <2>2. challenge' = stored[c] /\ Answering' \subseteq Answering
        /\ UNCHANGED <<stored, used, issued>>
    BY <1>0, <1>4, <2>1 DEF RewriteChallenge, Asking, CallerTypes
  <2>3. at' = [at EXCEPT ![c] = "snapshot"]
    BY <1>4 DEF RewriteChallenge
  <2> QED BY <1>0, <2>1, <2>2, <2>3 DEF CallerTypes
<1>5. ASSUME NEW c \in Callers, ClearChallenge(c) PROVE ChallengesFresh'
  <2>1. c \in Answering /\ stored[c] # 0 /\ challenge' = 0 /\ used' = used \union {stored[c]}
        /\ UNCHANGED <<stored, issued, kind>> /\ at' = [at EXCEPT ![c] = "callback"]
    BY <1>0, <1>5 DEF ClearChallenge, Forgotten, HasChallenge
  <2>2. Answering' = {}
    BY <1>0, <2>1 DEF Asking, CallerTypes
  <2>3. stored[c] \in 1..issued
    BY <1>0, <2>1
  <2>4. /\ challenge' \in 0..issued' /\ used' \subseteq 1..issued' /\ challenge' \notin used'
    <3>1. challenge' \in 0..issued' /\ challenge' \notin used'
      BY <1>0, <2>1, <2>3
    <3>2. used' \subseteq 1..issued'
      BY Zenon, <1>0, <2>1, <2>3
    <3> QED BY <3>1, <3>2
  <2>5. \A b \in Callers : at'[b] = "read" => b \in AuthCallers /\ stored'[b] = 0
    BY <1>0, <2>1 DEF CallerTypes
  <2> HIDE DEF Answering
  <2> QED BY <2>2, <2>4, <2>5
<1>6. ASSUME UNCHANGED <<challenge, issued, used, stored>>, Answering' \subseteq Answering,
             \A b \in Callers : at'[b] = "read" => at[b] = "read"
      PROVE  ChallengesFresh'
  BY <1>0, <1>6
<1>7. ASSUME NEW c \in Callers,
             \/ SigningFails(c) \/ TakeVersion(c) \/ Send(c) \/ CheckStop(c) \/ Block(c) \/ Wake(c)
             \/ EndAuthCallback(c)
      PROVE  ChallengesFresh'
  <2>1. UNCHANGED <<challenge, issued, used, stored, kind>>
    BY <1>7 DEF SigningFails, TakeVersion, Send, CheckStop, Block, Wake, EndAuthCallback
  <2>2. /\ \/ at[c] = "snapshot" \/ c \in Asking \/ at[c] = "callback"
        /\ \/ at' = [at EXCEPT ![c] = "idle"]
           \/ /\ at[c] # "callback"
              /\ \E place \in {"send", "check", "blocking", "waiting"} : at' = [at EXCEPT ![c] = place]
    <3>1. CASE SigningFails(c) \/ TakeVersion(c) \/ EndAuthCallback(c)
      BY <3>1 DEF SigningFails, TakeVersion, EndAuthCallback
    <3>2. CASE Send(c) \/ Block(c)
      BY <3>2 DEF Send, Block, Asking
    <3>3. CASE CheckStop(c) \/ Wake(c)
      BY <3>3 DEF CheckStop, Wake, Asking
    <3> QED BY <1>7, <3>1, <3>2, <3>3
  <2>3. Answering' \subseteq Answering /\ \A b \in Callers : at'[b] = "read" => at[b] = "read"
    BY <1>0, <2>1, <2>2 DEF Asking, CallerTypes
  <2> QED BY <1>6, <2>1, <2>3
<1>8. ASSUME NEW c \in Callers, CheckAnswer(c) PROVE ChallengesFresh'
  <2>1. UNCHANGED <<challenge, issued, used, stored, kind>> /\ c \in Asking
    BY <1>8 DEF CheckAnswer, Asking
  <2>2. \E place \in {"clear", "callback", "idle", "stopcheck"} :
          at' = [at EXCEPT ![c] = place]
    BY <1>8 DEF CheckAnswer, Answer
  <2>3. Answering' \subseteq Answering /\ \A b \in Callers : at'[b] = "read" => at[b] = "read"
    BY <1>0, <2>1, <2>2 DEF Asking, CallerTypes
  <2> QED BY <1>6, <2>1, <2>3
<1>9. CASE DispatchAuthRequired
  BY <1>0, <1>9 DEF DispatchAuthRequired, Asking
<1>10. CASE (\E i \in DOMAIN unanswered, success \in BOOLEAN : DispatchOkMessage(i, success))
              \/ CheckLoop \/ ReceiveTimesOut \/ ReceiveFails \/ NotifyOk
              \/ StopReceiveLoop \/ NotifyStopped \/ UNCHANGED vars
  BY <1>6, <1>10 DEF DispatchOkMessage, CheckLoop, ReceiveTimesOut, ReceiveFails, NotifyOk,
     StopReceiveLoop, NotifyStopped, vars, Asking
<1> QED
  BY <1>1, <1>2, <1>3, <1>4, <1>5, <1>7, <1>8, <1>9, <1>10 DEF Next, Receive, Continue, Idle

(***************************************************************************)
(* When one thread answers the relay's challenges and leaves the choice of *)
(* the challenge to the library, a challenge that was accepted and         *)
(* forgotten never comes back into the store, however many other threads   *)
(* publish and however many challenges arrive meanwhile.                   *)
(***************************************************************************)
THEOREM UsedChallengeGoneHolds ==
  ASSUME GivesTag = FALSE, \A c, d \in AuthCallers : c = d
  PROVE  Spec => []UsedChallengeGone
<1>1. Init => ChallengesFresh
  BY DEF Init, ChallengesFresh, Answering, Asking
<1>2. UInv /\ [Next]_vars /\ AInv' => UInv'
  BY FreshStep DEF UInv
<1>3. UInv => UsedChallengeGone
  BY DEF UInv, ChallengesFresh, UsedChallengeGone
<1> QED
  BY <1>1, <1>2, <1>3, AnswersInvariant, PTL DEF Spec, UInv
=============================================================================
