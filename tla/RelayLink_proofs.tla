-------------------------- MODULE RelayLink_proofs --------------------------
(***************************************************************************)
(* Proofs about RelayLink, for any payload types, result codes, timeout    *)
(* and bounds.                                                             *)
(***************************************************************************)
EXTENDS RelayLink, SequenceTheorems, TLAPS

(***************************************************************************)
(* A message built from frames is a well-formed record.                    *)
(***************************************************************************)
LEMMA MessageType ==
  ASSUME NEW frames \in Seq(Frame)
  PROVE  Message(frames) \in MessageRecord
<1>1. InitialType \in Types
  BY LinkAssumption DEF InitialType
<1>2. ASSUME frames # <<>> PROVE frames[1].type \in Types
  <2>1. frames[1] \in Frame
    BY <1>2
  <2>2. QED
    BY <2>1 DEF Frame
<1>3. QED
  BY <1>1, <1>2 DEF Message, MessageRecord

(***************************************************************************)
(* Closing the transport, or leaving it alone, keeps it well-typed.        *)
(***************************************************************************)
LEMMA CloseLinkType ==
  ASSUME TypeOK, CloseLink \/ UNCHANGED <<link, wire>>
  PROVE  link' \in {"none", "up", "lost", "closed"} /\ wire' \in Seq(Frame)
<1>1. CASE CloseLink
  BY <1>1 DEF CloseLink, TypeOK
<1>2. CASE UNCHANGED <<link, wire>>
  BY <1>2 DEF TypeOK
<1>3. QED
  BY <1>1, <1>2

(***************************************************************************)
(* What Receive changes stays well-typed.                                  *)
(***************************************************************************)
LEMMA TakeType ==
  ASSUME TypeOK, ReaderTakes
  PROVE  /\ messageEvent' \in BOOLEAN
         /\ messageQueue' \in Seq(MessageRecord) /\ received' \in Seq(MessageRecord)
<1>1. messageEvent' \in BOOLEAN
  BY Zenon DEF ReaderTakes, EventAfterTake, TypeOK
<1>2. CASE messageQueue = <<>>
  <2>1. messageQueue' = messageQueue /\ received' = received
    BY <1>2 DEF ReaderTakes
  <2>2. QED
    BY <1>1, <2>1 DEF TypeOK
<1>3. CASE messageQueue # <<>>
  <2>1. messageQueue' = Tail(messageQueue) /\ received' = Append(received, Head(messageQueue))
    BY <1>3 DEF ReaderTakes
  <2>2. QED
    BY <1>1, <1>3, <2>1 DEF TypeOK
<1>4. QED
  BY <1>2, <1>3

(***************************************************************************)
(* Type correctness of the connection: WinHttpWebSocket, its work item,    *)
(* the receive thread and the client thread keep their variables in range. *)
(***************************************************************************)
THEOREM TypeCorrect == Spec => []TypeOK
<1> USE DEF WorkStages, ReaderStages, ClientStages
<1>1. Init => TypeOK
  <2> SUFFICES ASSUME Init PROVE TypeOK
    OBVIOUS
  <2>1. /\ handle \in BOOLEAN /\ stopRequested \in BOOLEAN
        /\ messageEvent \in BOOLEAN /\ sessionStop \in BOOLEAN
    BY Zenon DEF Init
  <2>2. QED
    BY <2>1 DEF Init, TypeOK
<1>2. TypeOK /\ [Next]_vars => TypeOK'
  <2> SUFFICES ASSUME TypeOK, [Next]_vars PROVE TypeOK'
    OBVIOUS
  <2> USE DEF TypeOK, peerVars, socketVars, workVars, sessionVars
  <2>1. CASE LinkLost
    BY <2>1 DEF LinkLost
  <2>2. ASSUME NEW kind \in DataKinds \union ControlKinds, NEW type \in Types,
               RelaySends(kind, type)
        PROVE  TypeOK'
    BY <2>2 DEF RelaySends, Frame
  <2>3. CASE WorkStarts
    BY <2>3 DEF WorkStarts
  <2>4. CASE WorkChecksStop
    BY <2>4 DEF WorkChecksStop
  <2>5. CASE WorkReceives
    <3>1. Head(wire) \in Frame /\ Tail(wire) \in Seq(Frame)
      BY <2>5 DEF WorkReceives
    <3>2. accumulator' \in Seq(Frame)
      BY <2>5, <3>1 DEF WorkReceives, Accumulate
    <3>3. QED
      BY <2>5, <3>1, <3>2 DEF WorkReceives
  <2>6. CASE WorkEnqueues
    BY <2>6, MessageType DEF WorkEnqueues, Signal
  <2>7. ASSUME NEW code \in ErrorCodes \union TimeoutCodes, WorkReceiveErrs(code)
        PROVE  TypeOK'
    BY <2>7 DEF WorkReceiveErrs
  <2>8. CASE RunReceiveLoop
    <3>1. CASE ReaderTakes
      <4>1. /\ messageEvent' \in BOOLEAN
            /\ messageQueue' \in Seq(MessageRecord) /\ received' \in Seq(MessageRecord)
        BY <3>1, TakeType
      <4>2. reader' \in ReaderStages /\ sessionState' \in {"Disconnected", "Connected", "Faulted"}
        BY <3>1 DEF ReaderTakes
      <4>3. UNCHANGED <<peerVars, handle, stopRequested, workVars, sessionStop, client>>
        BY <3>1 DEF ReaderTakes
      <4>4. QED
        BY <4>1, <4>2, <4>3
    <3>2. QED
      BY <2>8, <3>1 DEF RunReceiveLoop, ReaderChecksStop, ReaderSignalled,
                        ReaderTimesOut, ReaderExits
  <2>9. CASE Connect \/ StartReceiveLoop \/ StopReceiveLoop
    BY <2>9 DEF Connect, StartReceiveLoop, StopReceiveLoop
  <2>10. CASE AbortCloses \/ AbortSetsStop \/ JoinReader \/ Shutdown \/ ShutdownDrains
    <3>1. CASE AbortCloses
      BY <3>1, CloseLinkType DEF AbortCloses
    <3>2. CASE Shutdown
      BY <3>2, CloseLinkType DEF Shutdown
    <3>3. CASE AbortSetsStop \/ JoinReader
      BY <3>3 DEF AbortSetsStop, JoinReader
    <3>4. CASE ShutdownDrains
      <4>1. messageQueue' \in Seq(MessageRecord)
        BY <3>4 DEF ShutdownDrains
      <4>2. /\ handle' \in BOOLEAN /\ messageEvent' \in BOOLEAN
            /\ work' \in WorkStages /\ client' \in ClientStages
        BY <3>4, Zenon DEF ShutdownDrains
      <4>3. UNCHANGED <<peerVars, stopRequested, accumulator, faults, sessionVars>>
        BY <3>4 DEF ShutdownDrains
      <4>4. QED
        BY <4>1, <4>2, <4>3
    <3>5. QED
      BY <2>10, <3>1, <3>2, <3>3, <3>4
  <2>11. ASSUME NEW code \in ErrorCodes \union {0}, Close(code)
         PROVE  TypeOK'
    BY <2>11 DEF Close, CloseLink, Failed
  <2>12. CASE UNCHANGED vars
    BY <2>12 DEF vars
  <2>13. QED
    BY <2>1, <2>2, <2>3, <2>4, <2>5, <2>6, <2>7, <2>8, <2>9, <2>10, <2>11, <2>12
       DEF Next, Network, ReceiveLoop, Disconnect, Released
<1>3. QED
  BY <1>1, <1>2, PTL DEF Spec
-----------------------------------------------------------------------------
(***************************************************************************)
(* What the wake-ups and the release rest on: the event is set exactly     *)
(* while the queue is not empty; only the receive thread empties the queue *)
(* while it runs; it does not run before StartReceiveLoop nor after the    *)
(* join; and a handle exists exactly between Connect and the release.      *)
(***************************************************************************)
EventMatchesQueue == messageEvent <=> messageQueue # <<>>

ReaderLifetime ==
  /\ client \in {"new", "connected"} => reader = "none"
  /\ client \in {"stopped", "destroying", "draining", "released"} => reader \in {"none", "ended"}

HandleLifetime ==
  /\ ~handle <=> client \in {"new", "released"}
  /\ ~handle => work \in {"none", "done"}

IInv ==
  /\ TypeOK /\ EventMatchesQueue /\ WakesToAMessage
  /\ ReaderLifetime /\ HandleLifetime

(***************************************************************************)
(* IInv is inductive.                                                      *)
(***************************************************************************)
LEMMA LinkInvariant == Spec => []IInv
<1> USE DEF EventMatchesQueue, WakesToAMessage, ReaderLifetime, HandleLifetime
<1>1. Init => EventMatchesQueue /\ WakesToAMessage /\ ReaderLifetime /\ HandleLifetime
  BY DEF Init
<1>2. TypeOK /\ TypeOK' /\ IInv /\ [Next]_vars => IInv'
  <2> SUFFICES ASSUME TypeOK, TypeOK', IInv, [Next]_vars PROVE IInv'
    OBVIOUS
  <2> USE DEF IInv, peerVars, socketVars, workVars, sessionVars
  <2>1. CASE LinkLost
    BY <2>1 DEF LinkLost
  <2>2. ASSUME NEW kind \in DataKinds \union ControlKinds, NEW type \in Types,
               RelaySends(kind, type)
        PROVE  IInv'
    BY <2>2 DEF RelaySends
  <2>3. CASE WorkStarts \/ WorkChecksStop
    BY <2>3 DEF WorkStarts, WorkChecksStop
  <2>4. CASE WorkReceives
    BY <2>4 DEF WorkReceives
  <2>5. CASE WorkEnqueues
    <3>1. messageQueue' # <<>>
      BY <2>5 DEF WorkEnqueues, TypeOK
    <3>2. QED
      BY <2>5, <3>1 DEF WorkEnqueues, Signal
  <2>6. ASSUME NEW code \in ErrorCodes \union TimeoutCodes, WorkReceiveErrs(code)
        PROVE  IInv'
    BY <2>6 DEF WorkReceiveErrs
  <2>7. CASE ReaderTakes
    BY <2>7 DEF ReaderTakes, EventAfterTake, TypeOK
  <2>8. CASE ReaderChecksStop \/ ReaderSignalled \/ ReaderTimesOut \/ ReaderExits
    BY <2>8 DEF ReaderChecksStop, ReaderSignalled, ReaderTimesOut, ReaderExits
  <2>9. CASE Connect \/ StartReceiveLoop \/ StopReceiveLoop
    BY <2>9 DEF Connect, StartReceiveLoop, StopReceiveLoop
  <2>10. CASE AbortCloses \/ AbortSetsStop \/ JoinReader \/ Shutdown \/ ShutdownDrains
    <3>1. CASE AbortCloses \/ AbortSetsStop \/ JoinReader \/ Shutdown
      BY <3>1 DEF AbortCloses, AbortSetsStop, JoinReader, Shutdown, CloseLink
    <3>2. CASE ShutdownDrains
      <4>1. work' \in {"none", "done"}
        BY <3>2 DEF ShutdownDrains, WorkDrained
      <4>2. QED
        BY <3>2, <4>1 DEF ShutdownDrains
    <3>3. QED
      BY <2>10, <3>1, <3>2
  <2>11. ASSUME NEW code \in ErrorCodes \union {0}, Close(code)
         PROVE  IInv'
    BY <2>11 DEF Close, CloseLink
  <2>12. CASE UNCHANGED vars
    BY <2>12 DEF vars
  <2>13. QED
    BY <2>1, <2>2, <2>3, <2>4, <2>5, <2>6, <2>7, <2>8, <2>9, <2>10, <2>11, <2>12
       DEF Next, Network, ReceiveLoop, RunReceiveLoop, Disconnect, Released
<1>3. QED
  BY <1>1, <1>2, TypeCorrect, PTL DEF Spec, IInv

(***************************************************************************)
(* However the thread-pool thread, the receive thread and a teardown       *)
(* interleave, WinHttpWebSocket::Receive never finds the queue empty after *)
(* its wait was satisfied.                                                 *)
(***************************************************************************)
THEOREM WakesToAMessageHolds == Spec => []WakesToAMessage
<1>1. IInv => WakesToAMessage
  BY DEF IInv
<1>2. QED
  BY <1>1, LinkInvariant, PTL

(***************************************************************************)
(* Hence RunReceiveLoop never reports a fault: the branch that sets        *)
(* RelaySessionState_Faulted cannot be reached, whatever happens to the    *)
(* connection.                                                             *)
(***************************************************************************)
THEOREM NeverFaulted == Spec => [](sessionState # "Faulted")
<1>1. Init => sessionState # "Faulted"
  BY DEF Init
<1>2. IInv /\ sessionState # "Faulted" /\ [Next]_vars => (sessionState # "Faulted")'
  BY DEF IInv, WakesToAMessage, Next, vars, peerVars, socketVars, workVars, sessionVars,
         Network, LinkLost, RelaySends, ReceiveLoop, WorkStarts, WorkChecksStop, WorkReceives,
         WorkEnqueues, WorkReceiveErrs, RunReceiveLoop, ReaderChecksStop, ReaderSignalled,
         ReaderTimesOut, ReaderTakes, ReaderExits, Connect, StartReceiveLoop, StopReceiveLoop,
         Disconnect, AbortCloses, AbortSetsStop, JoinReader, Shutdown, ShutdownDrains, Close,
         Released
<1>3. QED
  BY <1>1, <1>2, LinkInvariant, PTL DEF Spec

(***************************************************************************)
(* The socket object is released only after the receive thread was joined  *)
(* and the work item drained, and neither runs while there is no handle.   *)
(***************************************************************************)
THEOREM ReleaseIsSafe == Spec => []ThreadsGoneBeforeRelease
<1>1. IInv => ThreadsGoneBeforeRelease
  BY DEF IInv, ReaderLifetime, HandleLifetime, ThreadsGoneBeforeRelease
<1>2. QED
  BY <1>1, LinkInvariant, PTL
-----------------------------------------------------------------------------
(***************************************************************************)
(* The way of a frame: the wire, the message being put together, the queue *)
(* and the messages received.  Line is the queue behind what was received, *)
(* which Receive leaves as it is.  While the socket exists, the data       *)
(* frames on the way are all of the relay's, up to the newest of them and, *)
(* on a working connection, up to those that are still on the wire.        *)
(***************************************************************************)
Line == received \o messageQueue
LineIds == UNION {Ids(Line[i].frames) : i \in DOMAIN Line}
OnTheWay == LineIds \union Ids(accumulator)
Passed == Len(sent) - Len(wire)

WireInOrder ==
  /\ \A n \in DOMAIN sent : sent[n].id = n
  /\ Len(wire) <= Len(sent) /\ \A i \in DOMAIN wire : wire[i] = sent[Passed + i]
  /\ wire # <<>> => link = "up"
  /\ client = "new" => link = "none" /\ sent = <<>>
  /\ client \in {"draining", "released"} => link # "up"

PutTogether ==
  /\ Ascending(accumulator)
  /\ \A j \in DOMAIN accumulator :
       /\ IsDataSent(accumulator[j])
       /\ accumulator[j].kind = "final" => work = "enqueue" /\ j = Len(accumulator)

LineInOrder ==
  /\ \A i \in DOMAIN Line : IsPart(Line[i].frames)
  /\ \A i, k \in DOMAIN Line : i < k => \A m \in Ids(Line[i].frames), n \in Ids(Line[k].frames) : m < n
  /\ \A m \in LineIds, n \in Ids(accumulator) : m < n

NoneMissing ==
  /\ \A n \in OnTheWay : n <= Passed
  /\ client # "released" =>
       /\ link = "up" => \A n \in 1..Passed : IsData(sent[n]) => n \in OnTheWay
       /\ \A m \in OnTheWay, n \in DOMAIN sent : n < m /\ IsData(sent[n]) => n \in OnTheWay

FrameInv == WireInOrder /\ PutTogether /\ LineInOrder /\ NoneMissing /\ FramesInOrder
-----------------------------------------------------------------------------
\* What was sent stays where it is.
SentStays == \A n \in DOMAIN sent : n \in DOMAIN sent' /\ sent'[n] = sent[n]

LEMMA AppendAt ==
  ASSUME NEW S, NEW q \in Seq(S), NEW e \in S
  PROVE  /\ DOMAIN q = 1..Len(q) /\ Len(q) \in Nat
         /\ DOMAIN Append(q, e) = 1..(Len(q) + 1) /\ Len(Append(q, e)) = Len(q) + 1
         /\ \A i \in DOMAIN q : i \in DOMAIN Append(q, e) /\ Append(q, e)[i] = q[i] /\ i < Len(q) + 1
         /\ Append(q, e)[Len(q) + 1] = e
         /\ \A i \in DOMAIN Append(q, e) : i \in DOMAIN q \/ i = Len(q) + 1
OBVIOUS

LEMMA StillSent ==
  ASSUME SentStays, NEW frames
  PROVE  /\ IsDataSent(frames) => IsDataSent(frames)'
         /\ IsPart(frames) => IsPart(frames)'
<1>1. \A frame : IsDataSent(frame) => IsDataSent(frame)'
  BY DEF SentStays, IsDataSent
<1> QED BY <1>1 DEF IsPart

LEMMA ConcatFront ==
  ASSUME NEW S, NEW r \in Seq(S), NEW q \in Seq(S)
  PROVE  /\ r \o q \in Seq(S) /\ DOMAIN r \subseteq DOMAIN (r \o q)
         /\ \A i \in DOMAIN r : (r \o q)[i] = r[i]
         /\ \A i \in DOMAIN (r \o q) : i \notin DOMAIN r => \A k \in DOMAIN r : k < i
<1>1. /\ r \o q \in Seq(S) /\ DOMAIN (r \o q) = 1..(Len(r) + Len(q))
      /\ DOMAIN r = 1..Len(r) /\ Len(r) \in Nat /\ Len(q) \in Nat
      /\ \A i \in DOMAIN r : (r \o q)[i] = r[i]
  OBVIOUS
<1>2. DOMAIN r \subseteq DOMAIN (r \o q)
  BY <1>1
<1>3. \A i \in DOMAIN (r \o q) : i \notin DOMAIN r => \A k \in DOMAIN r : k < i
  BY <1>1
<1> QED BY <1>1, <1>2, <1>3

LEMMA LineOf ==
  ASSUME TypeOK
  PROVE  Line \in Seq(MessageRecord) /\ \A i \in DOMAIN Line : Line[i].frames \in Seq(Frame)
<1>1. received \in Seq(MessageRecord) /\ messageQueue \in Seq(MessageRecord)
  BY DEF TypeOK
<1>2. Line \in Seq(MessageRecord)
  BY <1>1, ConcatFront DEF Line
<1>3. \A i \in DOMAIN Line : Line[i] \in MessageRecord
  BY <1>2
<1> QED BY <1>2, <1>3 DEF MessageRecord

\* A first message that moves to the end of the sequence before.
LEMMA HeadMoves ==
  ASSUME NEW S, NEW q \in Seq(S), q # <<>>, NEW r \in Seq(S)
  PROVE  Append(r, Head(q)) \o Tail(q) = r \o q
<1>1. Head(q) \in S /\ Tail(q) \in Seq(S) /\ <<Head(q)>> \in Seq(S)
  OBVIOUS
<1>2. <<Head(q)>> \o Tail(q) = q
  <2> DEFINE t == Tail(q)
             h == <<Head(q)>>
  <2>1. /\ h \in Seq(S) /\ Len(h) = 1 /\ h[1] = q[1] /\ Len(q) \in Nat \ {0}
        /\ t \in Seq(S) /\ Len(t) = Len(q) - 1 /\ \A i \in 1..Len(t) : t[i] = q[i + 1]
    OBVIOUS
  <2> HIDE DEF h, t
  <2>2. /\ h \o t \in Seq(S) /\ Len(h \o t) = Len(q)
        /\ \A i \in 1..Len(h \o t) : (h \o t)[i] = IF i <= 1 THEN h[i] ELSE t[i - 1]
    <3>1. /\ h \o t \in Seq(S) /\ Len(h \o t) = Len(h) + Len(t)
          /\ \A i \in 1..Len(h) + Len(t) : (h \o t)[i] = IF i <= Len(h) THEN h[i] ELSE t[i - Len(h)]
      BY <2>1, ConcatProperties
    <3>2. Len(h) = 1 /\ Len(h) + Len(t) = Len(q)
      BY <2>1
    <3> QED BY <3>1, <3>2
  <2>3. ASSUME NEW i \in 1..Len(h \o t) PROVE (h \o t)[i] = q[i]
    <3>1. CASE i = 1
      BY <2>1, <2>2, <3>1
    <3>2. CASE i # 1
      <4>1. i - 1 \in 1..Len(t) /\ i - 1 + 1 = i /\ ~(i <= 1)
        BY <2>1, <2>2, <3>2
      <4> QED BY <2>1, <2>2, <4>1
    <3> QED BY <3>1, <3>2
  <2>4. h \o t = q
    BY <2>2, <2>3, SeqEqual
  <2> QED BY <2>4 DEF h, t
<1>3. Append(r, Head(q)) = r \o <<Head(q)>>
  BY <1>1, AppendIsConcat
<1>4. (r \o <<Head(q)>>) \o Tail(q) = r \o (<<Head(q)>> \o Tail(q))
  BY <1>1, ConcatAssociative
<1> QED BY <1>2, <1>3, <1>4

\* Receive moves a message within the line, and EnqueueMessage appends one.
LEMMA TakeKeepsLine == ASSUME TypeOK, ReaderTakes PROVE Line' = Line
<1>1. received \in Seq(MessageRecord) /\ messageQueue \in Seq(MessageRecord)
  BY DEF TypeOK
<1>2. CASE UNCHANGED <<received, messageQueue>>
  BY <1>2 DEF Line
<1>3. CASE messageQueue # <<>> /\ messageQueue' = Tail(messageQueue) /\ received' = Append(received, Head(messageQueue))
  BY <1>1, <1>3, HeadMoves DEF Line
<1> QED BY <1>2, <1>3 DEF ReaderTakes

LEMMA EnqueueExtendsLine ==
  ASSUME TypeOK, WorkEnqueues
  PROVE  Message(accumulator) \in MessageRecord /\ Line' = Append(Line, Message(accumulator))
<1> DEFINE m == Message(accumulator)
<1>1. received \in Seq(MessageRecord) /\ messageQueue \in Seq(MessageRecord) /\ m \in MessageRecord
  BY MessageType DEF TypeOK
<1>2. messageQueue' = Append(messageQueue, m) /\ received' = received
  BY DEF WorkEnqueues, sessionVars
<1> HIDE DEF m
<1>3. <<m>> \in Seq(MessageRecord) /\ received \o messageQueue \in Seq(MessageRecord)
  BY <1>1
<1>4. Append(messageQueue, m) = messageQueue \o <<m>>
  BY <1>1, AppendIsConcat
<1>5. Append(received \o messageQueue, m) = (received \o messageQueue) \o <<m>>
  BY <1>1, <1>3, AppendIsConcat
<1>6. (received \o messageQueue) \o <<m>> = received \o (messageQueue \o <<m>>)
  BY <1>1, <1>3, ConcatAssociative
<1> QED BY <1>1, <1>2, <1>4, <1>5, <1>6 DEF Line, m
-----------------------------------------------------------------------------
(***************************************************************************)
(* What holds of the frames and messages stays true when nothing moves but *)
(* what is sent.                                                           *)
(***************************************************************************)
LEMMA LineStays ==
  ASSUME SentStays, Line' = Line, accumulator' = accumulator, LineInOrder PROVE LineInOrder'
<1>1. \A i \in DOMAIN Line : IsPart(Line[i].frames)'
  BY StillSent DEF LineInOrder
<1>2. \A i \in DOMAIN Line' : IsPart(Line[i].frames)'
  <2>1. ASSUME NEW i, i \in DOMAIN Line' PROVE IsPart(Line[i].frames)'
    BY <1>1, <2>1 DEF IsPart, IsDataSent, Ascending
  <2> QED BY <2>1
<1> QED BY <1>2 DEF LineInOrder, LineIds, Ids

LEMMA ReceivedStays ==
  ASSUME TypeOK, SentStays, received' = received, FramesInOrder PROVE FramesInOrder'
<1>1. ASSUME NEW i \in DOMAIN received PROVE IsPart(received[i].frames)'
  BY <1>1, StillSent DEF FramesInOrder
<1>2. ASSUME NEW i \in DOMAIN received, NEW m \in Ids(received[i].frames), NEW n \in 1..m, IsData(sent'[n])
      PROVE  \E k \in DOMAIN received : n \in Ids(received[k].frames)
  <2>1. m \in DOMAIN sent
    BY <1>2 DEF FramesInOrder, IsPart, IsDataSent, Ids
  <2>2. n \in DOMAIN sent
    <3>1. sent \in Seq(Frame)
      BY DEF TypeOK
    <3> QED BY <1>2, <2>1, <3>1
  <2>3. sent'[n] = sent[n]
    BY <2>2 DEF SentStays
  <2> QED BY <1>2, <2>3 DEF FramesInOrder
<1>3. \A i \in DOMAIN received' : IsPart(received[i].frames)'
  <2>1. ASSUME NEW i, i \in DOMAIN received' PROVE IsPart(received[i].frames)'
    BY <1>1, <2>1 DEF IsPart, IsDataSent, Ascending
  <2> QED BY <2>1
<1>4. \A i, k \in DOMAIN received : i < k =>
        \A m \in Ids(received[i].frames), n \in Ids(received[k].frames) : m < n
  BY DEF FramesInOrder
<1> QED BY <1>2, <1>3, <1>4 DEF FramesInOrder, Ids

LEMMA NothingMoves ==
  ASSUME TypeOK, FrameInv, UNCHANGED <<sent, accumulator, received, messageQueue>>,
         work = "enqueue" => work' = "enqueue",
         \/ UNCHANGED <<wire, link>>
         \/ wire' = <<>> /\ link' # "up" /\ client # "new",
         client' = "new" => client = "new",
         client = "released" => client' = "released",
         client' \in {"draining", "released"} => link' # "up"
  PROVE  FrameInv'
<1>1. SentStays /\ Line' = Line
  BY DEF SentStays, Line
<1>2. LineInOrder' /\ FramesInOrder'
  BY <1>1, LineStays, ReceivedStays DEF FrameInv
<1>3. PutTogether'
  BY DEF FrameInv, PutTogether, IsDataSent, Ascending
<1>4. /\ Len(sent) \in Nat /\ Len(wire) \in Nat /\ Len(wire) <= Len(sent)
      /\ wire' = wire \/ (Len(wire') = 0 /\ DOMAIN wire' = {})
  BY DEF TypeOK, FrameInv, WireInOrder
<1>5. WireInOrder'
  BY <1>4 DEF FrameInv, WireInOrder, Passed
<1>6. Passed \in Nat /\ Passed <= Passed' /\ Passed' \in Nat
  BY <1>4 DEF Passed
<1>7. OnTheWay' = OnTheWay
  BY <1>1 DEF OnTheWay, LineIds, Ids
<1>8. \A n \in OnTheWay : n <= Passed'
  <2>1. OnTheWay \subseteq DOMAIN sent
    BY DEF OnTheWay, LineIds, Ids, FrameInv, LineInOrder, IsPart, PutTogether, IsDataSent
  <2>2. \A n \in DOMAIN sent : n \in Nat
    BY DEF TypeOK
  <2> QED BY <1>6, <2>1, <2>2 DEF FrameInv, NoneMissing
<1>9. NoneMissing'
  BY <1>7, <1>8 DEF FrameInv, NoneMissing, Passed
<1> QED BY <1>2, <1>3, <1>5, <1>9 DEF FrameInv

LEMMA OnTheWayIsSent == ASSUME TypeOK, FrameInv PROVE OnTheWay \subseteq DOMAIN sent /\ DOMAIN sent \subseteq Nat
<1>1. OnTheWay \subseteq DOMAIN sent
  BY DEF OnTheWay, LineIds, Ids, FrameInv, LineInOrder, IsPart, PutTogether, IsDataSent
<1>2. DOMAIN sent \subseteq Nat
  BY DEF TypeOK
<1> QED BY <1>1, <1>2

LEMMA SendsFrame ==
  ASSUME TypeOK, FrameInv, NEW kind \in DataKinds \union ControlKinds, NEW type \in Types,
         RelaySends(kind, type)
  PROVE  FrameInv'
<1> DEFINE frame == [kind |-> kind, type |-> type, id |-> Len(sent) + 1]
<1>1. /\ UNCHANGED <<link, client, accumulator, work, received, messageQueue>> /\ link = "up"
      /\ sent' = Append(sent, frame) /\ wire' = Append(wire, frame)
  BY DEF RelaySends, workVars, sessionVars, socketVars
<1>2. sent \in Seq(Frame) /\ wire \in Seq(Frame) /\ frame \in Frame /\ frame.id = Len(sent) + 1
  <2>1. sent \in Seq(Frame) /\ wire \in Seq(Frame) /\ Len(sent) + 1 \in Nat
    BY DEF TypeOK
  <2> QED BY <2>1 DEF Frame
<1> HIDE DEF frame
<1>3. /\ DOMAIN sent = 1..Len(sent) /\ Len(sent) \in Nat /\ Len(sent') = Len(sent) + 1
      /\ DOMAIN sent' = 1..(Len(sent) + 1)
      /\ sent'[Len(sent) + 1] = frame /\ \A n \in DOMAIN sent : n \in DOMAIN sent' /\ sent'[n] = sent[n]
      /\ \A n \in DOMAIN sent' : n \in DOMAIN sent \/ n = Len(sent) + 1
  BY <1>1, <1>2, AppendAt
<1>4. /\ DOMAIN wire = 1..Len(wire) /\ Len(wire) \in Nat /\ Len(wire') = Len(wire) + 1
      /\ wire'[Len(wire) + 1] = frame /\ \A n \in DOMAIN wire : wire'[n] = wire[n]
      /\ \A n \in DOMAIN wire' : n \in DOMAIN wire \/ n = Len(wire) + 1
  BY <1>1, <1>2, AppendAt
<1>5. SentStays /\ Line' = Line
  BY <1>1, <1>3 DEF SentStays, Line
<1>6. LineInOrder' /\ FramesInOrder'
  BY <1>1, <1>5, LineStays, ReceivedStays DEF FrameInv
<1>7. PutTogether'
  <2>1. \A j \in DOMAIN accumulator : IsDataSent(accumulator[j])'
    <3>1. ASSUME NEW j \in DOMAIN accumulator PROVE IsDataSent(accumulator[j])'
      BY <1>1, <1>5, <3>1, StillSent DEF FrameInv, PutTogether
    <3> QED BY <1>1, <3>1 DEF IsDataSent
  <2> QED BY <1>1, <2>1 DEF FrameInv, PutTogether, Ascending, IsDataSent
<1>8. Passed' = Passed /\ Passed \in Nat
  BY <1>3, <1>4 DEF Passed, FrameInv, WireInOrder
<1>9. WireInOrder'
  <2>1. \A n \in DOMAIN sent' : sent'[n].id = n
    BY <1>2, <1>3 DEF FrameInv, WireInOrder
  <2>2. ASSUME NEW n \in DOMAIN wire' PROVE wire'[n] = sent'[Passed + n]
    <3>1. CASE n \in DOMAIN wire
      <4>1. Passed + n \in DOMAIN sent
        BY <1>3, <1>4, <3>1 DEF Passed, FrameInv, WireInOrder
      <4> QED BY <1>3, <1>4, <3>1, <4>1 DEF FrameInv, WireInOrder
    <3>2. CASE n = Len(wire) + 1
      <4>1. Passed + n = Len(sent) + 1
        BY <1>3, <1>4, <3>2 DEF Passed
      <4> QED BY <1>3, <1>4, <3>2, <4>1
    <3> QED BY <1>4, <3>1, <3>2
  <2>3. Len(wire') <= Len(sent')
    BY <1>3, <1>4 DEF FrameInv, WireInOrder
  <2>4. client' # "new" /\ link' = "up" /\ client' \notin {"draining", "released"}
    BY <1>1 DEF FrameInv, WireInOrder
  <2>5. \A i \in DOMAIN wire' : wire'[i] = sent'[Passed' + i]
    BY <1>8, <2>2
  <2> QED BY <2>1, <2>3, <2>4, <2>5 DEF WireInOrder
<1>10. OnTheWay' = OnTheWay
  BY <1>1, <1>5 DEF OnTheWay, LineIds, Ids
<1>11. NoneMissing'
  <2>1. ASSUME client # "released", NEW n \in 1..Passed, IsData(sent'[n]) PROVE n \in OnTheWay
    <3>1. n \in DOMAIN sent
      BY <1>3, <1>4, <1>8, <2>1 DEF Passed
    <3> QED BY <1>1, <1>3, <2>1, <3>1 DEF FrameInv, NoneMissing
  <2>2. ASSUME client # "released", NEW m \in OnTheWay, NEW n \in DOMAIN sent', n < m, IsData(sent'[n])
        PROVE  n \in OnTheWay
    <3>1. m \in DOMAIN sent
      BY OnTheWayIsSent
    <3>2. n \in DOMAIN sent
      BY <1>3, <2>2, <3>1
    <3> QED BY <1>3, <2>2, <3>2 DEF FrameInv, NoneMissing
  <2> QED BY <1>1, <1>8, <1>10, <2>1, <2>2 DEF FrameInv, NoneMissing
<1> QED BY <1>6, <1>7, <1>9, <1>11 DEF FrameInv

LEMMA ReceivesFrame == ASSUME TypeOK, FrameInv, WorkReceives PROVE FrameInv'
<1> DEFINE frame == Head(wire)
<1>1. /\ UNCHANGED <<link, client, sent, received, messageQueue>> /\ wire # <<>> /\ wire' = Tail(wire)
      /\ work = "receive" /\ accumulator' = Accumulate(frame)
      /\ work' = "enqueue" <=> frame.kind = "final"
  BY DEF WorkReceives, workVars, sessionVars, socketVars
<1>2. /\ sent \in Seq(Frame) /\ wire \in Seq(Frame) /\ accumulator \in Seq(Frame) /\ frame \in Frame
      /\ link = "up"
  BY <1>1 DEF TypeOK, FrameInv, WireInOrder
<1>3. /\ DOMAIN sent = 1..Len(sent) /\ Len(sent) \in Nat /\ Len(wire) \in Nat \ {0} /\ Len(wire) <= Len(sent)
      /\ Len(wire') = Len(wire) - 1 /\ DOMAIN wire' = 1..(Len(wire) - 1) /\ 1 \in DOMAIN wire
      /\ \A n \in DOMAIN wire' : n + 1 \in DOMAIN wire /\ wire'[n] = wire[n + 1]
      /\ frame = wire[1]
  <2>1. Len(wire) <= Len(sent)
    BY DEF FrameInv, WireInOrder
  <2> QED BY <1>1, <1>2, <2>1
<1>4. Passed \in Nat /\ Passed' = Passed + 1 /\ Passed + 1 \in DOMAIN sent
  BY <1>1, <1>3 DEF Passed
<1>5. frame = sent[Passed + 1] /\ frame.id = Passed + 1
  BY <1>3, <1>4 DEF FrameInv, WireInOrder
<1> HIDE DEF frame
<1>6. SentStays /\ Line' = Line
  BY <1>1 DEF SentStays, Line
<1>7. FramesInOrder'
  BY <1>1, <1>6, ReceivedStays DEF FrameInv
<1>8. WireInOrder'
  <2>1. ASSUME NEW n \in DOMAIN wire' PROVE wire'[n] = sent[Passed' + n]
    <3>1. Passed' + n = Passed + (n + 1)
      BY <1>3, <1>4
    <3> QED BY <1>3, <3>1 DEF FrameInv, WireInOrder
  <2> QED BY <1>1, <1>2, <1>3, <2>1 DEF FrameInv, WireInOrder
<1>9. OnTheWay \subseteq DOMAIN sent /\ DOMAIN sent \subseteq Nat /\ \A n \in OnTheWay : n <= Passed
  BY OnTheWayIsSent DEF FrameInv, NoneMissing
<1>10. CASE IsData(frame)
  <2>1. accumulator' = Append(accumulator, frame)
    BY <1>1, <1>10 DEF Accumulate
  <2>2. /\ DOMAIN accumulator = 1..Len(accumulator) /\ Len(accumulator) \in Nat /\ Len(accumulator') = Len(accumulator) + 1
        /\ DOMAIN accumulator' = 1..(Len(accumulator) + 1)
        /\ accumulator'[Len(accumulator) + 1] = frame
        /\ \A j \in DOMAIN accumulator : j \in DOMAIN accumulator' /\ accumulator'[j] = accumulator[j] /\ j < Len(accumulator) + 1
        /\ \A j \in DOMAIN accumulator' : j \in DOMAIN accumulator \/ j = Len(accumulator) + 1
    BY <1>2, <2>1, AppendAt
  <2>3. \A j \in DOMAIN accumulator : accumulator[j].id \in OnTheWay
    BY DEF OnTheWay, Ids
  <2>4. Ids(accumulator)' = Ids(accumulator) \union {Passed + 1}
    BY <1>5, <2>2 DEF Ids
  <2>5. OnTheWay' = OnTheWay \union {Passed + 1} /\ LineIds' = LineIds
    BY <1>6, <2>4 DEF OnTheWay, LineIds, Ids
  <2>6. Ascending(accumulator)'
    <3>1. ASSUME NEW j \in DOMAIN accumulator', NEW k \in DOMAIN accumulator', j < k
          PROVE  accumulator'[j].id < accumulator'[k].id
      <4>1. j \in DOMAIN accumulator
        BY <2>2, <3>1
      <4>2. CASE k \in DOMAIN accumulator
        BY <2>2, <3>1, <4>1, <4>2 DEF FrameInv, PutTogether, Ascending
      <4>3. CASE k = Len(accumulator) + 1
        BY <1>4, <1>5, <1>9, <2>2, <2>3, <4>1, <4>3
      <4> QED BY <2>2, <4>2, <4>3
    <3> QED BY <3>1 DEF Ascending
  <2>7. PutTogether'
    <3>1. ASSUME NEW j \in DOMAIN accumulator'
          PROVE  /\ IsDataSent(accumulator'[j])
                 /\ accumulator'[j].kind = "final" => work' = "enqueue" /\ j = Len(accumulator')
      <4>1. CASE j \in DOMAIN accumulator
        BY <1>1, <2>2, <4>1 DEF FrameInv, PutTogether
      <4>2. CASE j = Len(accumulator) + 1
        BY <1>1, <1>4, <1>5, <1>10, <2>2, <4>2 DEF IsDataSent
      <4> QED BY <2>2, <4>1, <4>2
    <3> QED BY <1>1, <2>6, <3>1 DEF PutTogether, IsDataSent
  <2>8. LineInOrder'
    <3>1. \A m \in LineIds, n \in Ids(accumulator)' : m < n
      <4>1. \A m \in LineIds : m \in Nat /\ m <= Passed
        BY <1>9 DEF OnTheWay
      <4> QED BY <1>4, <2>4, <4>1 DEF FrameInv, LineInOrder
    <3>2. \A i \in DOMAIN Line : IsPart(Line[i].frames)'
      <4>1. ASSUME NEW i, i \in DOMAIN Line PROVE IsPart(Line[i].frames)'
        BY <1>1, <1>6, <4>1 DEF FrameInv, LineInOrder, IsPart, IsDataSent, Ascending
      <4> QED BY <1>6, <4>1 DEF IsPart, IsDataSent, Ascending
    <3>3. \A i, k \in DOMAIN Line : i < k => \A m \in Ids(Line[i].frames), n \in Ids(Line[k].frames) : m < n
      BY DEF FrameInv, LineInOrder
    <3> QED BY <1>6, <2>5, <3>1, <3>2, <3>3 DEF LineInOrder, Ids
  <2>9. NoneMissing'
    <3>1. \A n \in OnTheWay' : n <= Passed'
      BY <1>4, <1>9, <2>5
    <3>2. ASSUME client # "released", NEW n \in 1..Passed', IsData(sent[n]) PROVE n \in OnTheWay'
      <4>1. n \in 1..Passed \/ n = Passed + 1
        BY <1>4, <3>2
      <4> QED BY <1>2, <2>5, <3>2, <4>1 DEF FrameInv, NoneMissing
    <3>3. ASSUME client # "released", NEW m \in OnTheWay', NEW n \in DOMAIN sent, n < m, IsData(sent[n])
          PROVE  n \in OnTheWay'
      <4>1. n \in 1..Passed'
        BY <1>3, <1>4, <1>9, <2>5, <3>1, <3>3
      <4> QED BY <3>2, <3>3, <4>1
    <3> QED BY <1>1, <3>1, <3>2, <3>3 DEF NoneMissing
  <2> QED BY <1>7, <1>8, <2>7, <2>8, <2>9 DEF FrameInv
<1>11. CASE ~IsData(frame)
  <2>1. accumulator' = accumulator /\ work' # "enqueue"
    BY <1>1, <1>11 DEF Accumulate, IsData, DataKinds
  <2>2. OnTheWay' = OnTheWay
    BY <1>6, <2>1 DEF OnTheWay, LineIds, Ids
  <2>3. LineInOrder'
    BY <1>6, <2>1, LineStays DEF FrameInv
  <2>4. PutTogether'
    BY <1>1, <2>1 DEF FrameInv, PutTogether, IsDataSent, Ascending
  <2>5. \A n \in OnTheWay : n <= Passed'
    BY <1>4, <1>9
  <2>6. ASSUME client # "released", NEW n \in 1..Passed', IsData(sent[n]) PROVE n \in OnTheWay
    <3>1. n \in 1..Passed
      BY <1>4, <1>5, <1>11, <2>6
    <3> QED BY <1>2, <2>6, <3>1 DEF FrameInv, NoneMissing
  <2>7. NoneMissing'
    BY <1>1, <2>2, <2>5, <2>6 DEF FrameInv, NoneMissing
  <2> QED BY <1>7, <1>8, <2>3, <2>4, <2>7 DEF FrameInv
<1> QED BY <1>10, <1>11

LEMMA EnqueuesMessage == ASSUME TypeOK, FrameInv, WorkEnqueues PROVE FrameInv'
<1> DEFINE m == Message(accumulator)
<1>1. /\ UNCHANGED <<link, wire, sent, client, received>> /\ work = "enqueue" /\ work' = "check"
      /\ accumulator' = <<>> /\ m.frames = accumulator
  BY DEF WorkEnqueues, peerVars, sessionVars, Message
<1>2. Line \in Seq(MessageRecord) /\ m \in MessageRecord /\ Line' = Append(Line, m)
  BY LineOf, EnqueueExtendsLine
<1>3. /\ \A i \in DOMAIN Line : i \in DOMAIN Line' /\ Line'[i] = Line[i] /\ i < Len(Line) + 1
      /\ Line'[Len(Line) + 1] = m /\ Len(Line) + 1 \in DOMAIN Line' /\ Len(Line) \in Nat
      /\ \A i \in DOMAIN Line' : i \in DOMAIN Line \/ i = Len(Line) + 1
      /\ DOMAIN Line \subseteq Nat
  <2> HIDE DEF m
  <2> QED BY <1>2, AppendAt
<1> HIDE DEF m
<1>4. FramesInOrder' /\ SentStays
  BY <1>1, ReceivedStays DEF FrameInv, SentStays
<1>5. WireInOrder'
  BY <1>1 DEF FrameInv, WireInOrder, Passed
<1>6. Ids(accumulator)' = {}
  BY <1>1 DEF Ids
<1>7. PutTogether'
  BY <1>1 DEF PutTogether, Ascending
<1>8. LineIds' = LineIds \union Ids(accumulator)
  <2>1. \A i \in DOMAIN Line : Ids(Line'[i].frames) = Ids(Line[i].frames)
    BY <1>3
  <2>2. Ids(Line'[Len(Line) + 1].frames) = Ids(accumulator)
    BY <1>1, <1>3
  <2>3. LineIds' = UNION {Ids(Line'[i].frames) : i \in DOMAIN Line'}
    BY DEF LineIds, Ids
  <2> QED BY <1>3, <2>1, <2>2, <2>3 DEF LineIds
<1>9. OnTheWay' = OnTheWay
  BY <1>6, <1>8 DEF OnTheWay
<1>10. NoneMissing'
  BY <1>1, <1>9 DEF FrameInv, NoneMissing, Passed
<1>11. IsPart(accumulator)
  BY <1>1 DEF FrameInv, PutTogether, IsPart
<1>12. LineInOrder'
  <2>1. ASSUME NEW i \in DOMAIN Line' PROVE IsPart(Line'[i].frames)
    BY <1>1, <1>3, <1>11 DEF FrameInv, LineInOrder
  <2>2. ASSUME NEW i \in DOMAIN Line', NEW k \in DOMAIN Line', i < k,
               NEW a \in Ids(Line'[i].frames), NEW b \in Ids(Line'[k].frames)
        PROVE  a < b
    <3>1. i \in DOMAIN Line
      BY <1>3, <2>2
    <3>2. CASE k \in DOMAIN Line
      BY <1>3, <2>2, <3>1, <3>2 DEF FrameInv, LineInOrder
    <3>3. CASE k = Len(Line) + 1
      <4>1. a \in LineIds /\ b \in Ids(accumulator)
        BY <1>1, <1>3, <2>2, <3>1, <3>3 DEF LineIds
      <4> QED BY <4>1 DEF FrameInv, LineInOrder
    <3> QED BY <1>3, <3>2, <3>3
  <2>3. \A i \in DOMAIN Line' : IsPart(Line[i].frames)'
    <3>1. ASSUME NEW i, i \in DOMAIN Line' PROVE IsPart(Line[i].frames)'
      BY <1>1, <2>1, <3>1 DEF IsPart, IsDataSent, Ascending
    <3> QED BY <3>1
  <2> QED BY <1>6, <2>2, <2>3 DEF LineInOrder, Ids
<1> QED BY <1>4, <1>5, <1>7, <1>10, <1>12 DEF FrameInv

LEMMA TakesMessage == ASSUME TypeOK, TypeOK', IInv, FrameInv, ReaderTakes PROVE FrameInv'
<1>1. /\ UNCHANGED <<link, wire, sent, client, accumulator, work>> /\ reader = "signalled"
      /\ messageQueue # <<>> => received' = Append(received, Head(messageQueue))
  BY DEF ReaderTakes, peerVars, workVars
<1>2. messageQueue # <<>> /\ client # "released"
  BY <1>1 DEF IInv, WakesToAMessage, ReaderLifetime
<1>3. SentStays /\ Line' = Line
  BY <1>1, TakeKeepsLine DEF SentStays
<1>4. LineInOrder' /\ WireInOrder' /\ PutTogether'
  BY <1>1, <1>3, LineStays DEF FrameInv, WireInOrder, Passed, PutTogether, Ascending, IsDataSent
<1>5. OnTheWay' = OnTheWay
  BY <1>1, <1>3 DEF OnTheWay, LineIds, Ids
<1>6. NoneMissing'
  BY <1>1, <1>5 DEF FrameInv, NoneMissing, Passed
<1>7. /\ DOMAIN received' \subseteq DOMAIN Line /\ \A i \in DOMAIN received' : received'[i] = Line[i]
      /\ \A i \in DOMAIN Line : i \notin DOMAIN received' => \A k \in DOMAIN received' : k < i
      /\ DOMAIN Line \subseteq Nat
  <2>1. /\ DOMAIN received' \subseteq DOMAIN Line' /\ \A i \in DOMAIN received' : Line'[i] = received'[i]
        /\ \A i \in DOMAIN Line' : i \notin DOMAIN received' => \A k \in DOMAIN received' : k < i
    <3>1. received' \in Seq(MessageRecord) /\ messageQueue' \in Seq(MessageRecord)
      BY DEF TypeOK
    <3> QED BY <3>1, ConcatFront DEF Line
  <2>2. DOMAIN Line \subseteq Nat
    <3>1. Line \in Seq(MessageRecord)
      BY LineOf
    <3> QED BY <3>1
  <2> QED BY <1>3, <2>1, <2>2
<1>8. FramesInOrder'
  <2>1. ASSUME NEW i \in DOMAIN received' PROVE IsPart(received'[i].frames)
    BY <1>7, <2>1 DEF FrameInv, LineInOrder
  <2>2. ASSUME NEW i \in DOMAIN received', NEW k \in DOMAIN received', i < k,
               NEW a \in Ids(received'[i].frames), NEW b \in Ids(received'[k].frames)
        PROVE  a < b
    BY <1>7, <2>2 DEF FrameInv, LineInOrder
  <2>3. ASSUME NEW i \in DOMAIN received', NEW a \in Ids(received'[i].frames), NEW n \in 1..a, IsData(sent[n])
        PROVE  \E k \in DOMAIN received' : n \in Ids(received'[k].frames)
    <3>1. i \in DOMAIN Line /\ a \in Ids(Line[i].frames) /\ a \in LineIds
      BY <1>7, <2>3 DEF LineIds
    <3>2. a \in DOMAIN sent /\ DOMAIN sent \subseteq Nat /\ n \in DOMAIN sent
      <4>1. a \in DOMAIN sent /\ DOMAIN sent \subseteq Nat
        BY <3>1, OnTheWayIsSent DEF OnTheWay
      <4>2. sent \in Seq(Frame)
        BY DEF TypeOK
      <4> QED BY <2>3, <4>1, <4>2
    <3>3. CASE n = a
      BY <2>3, <3>3
    <3>4. CASE n # a
      <4>1. n < a
        BY <2>3, <3>2, <3>4
      <4>2. n \in OnTheWay
        BY <1>2, <2>3, <3>1, <3>2, <4>1 DEF FrameInv, NoneMissing, OnTheWay
      <4>3. n \notin Ids(accumulator)
        BY <3>1, <3>2, <4>1 DEF FrameInv, LineInOrder
      <4>4. PICK k \in DOMAIN Line : n \in Ids(Line[k].frames)
        BY <4>2, <4>3 DEF OnTheWay, LineIds
      <4>5. ~(i < k)
        BY <3>1, <3>2, <4>1, <4>4 DEF FrameInv, LineInOrder
      <4>6. k \in DOMAIN received'
        BY <1>7, <2>3, <4>4, <4>5
      <4> QED BY <1>7, <4>4, <4>6
    <3> QED BY <3>3, <3>4
  <2>4. \A i \in DOMAIN received' : IsPart(received[i].frames)'
    <3>1. ASSUME NEW i, i \in DOMAIN received' PROVE IsPart(received[i].frames)'
      BY <1>1, <2>1, <3>1 DEF IsPart, IsDataSent, Ascending
    <3> QED BY <3>1
  <2> QED BY <1>1, <2>2, <2>3, <2>4 DEF FramesInOrder, Ids
<1> QED BY <1>4, <1>6, <1>8 DEF FrameInv

LEMMA LinkUp == ASSUME TypeOK, FrameInv, Connect PROVE FrameInv'
<1>1. /\ UNCHANGED <<wire, sent, accumulator, received, messageQueue>> /\ client = "new"
      /\ work' \in {work, "submitted"}
      /\ \/ link' = "up" /\ client' = "connected" /\ work' = "submitted"
         \/ link' = link /\ client' = "released" /\ work' = work
  BY DEF Connect
<1>2. CASE link' = link /\ client' = "released" /\ work' = work
  <2>1. link # "up"
    BY <1>1 DEF FrameInv, WireInOrder
  <2> QED BY <1>1, <1>2, <2>1, NothingMoves
<1>3. CASE link' = "up" /\ client' = "connected" /\ work' = "submitted"
  <2>1. sent = <<>> /\ DOMAIN sent = {} /\ Len(sent) = 0 /\ Len(wire) \in Nat
    BY <1>1 DEF FrameInv, WireInOrder, TypeOK
  <2>2. wire = <<>> /\ Len(wire) = 0
    BY <2>1 DEF FrameInv, WireInOrder, TypeOK
  <2>3. SentStays /\ Line' = Line /\ Passed' = 0
    BY <1>1, <2>1, <2>2 DEF SentStays, Line, Passed
  <2>4. LineInOrder' /\ FramesInOrder'
    BY <1>1, <2>3, LineStays, ReceivedStays DEF FrameInv
  <2>5. OnTheWay = {} /\ OnTheWay' = {}
    <3>1. OnTheWay' = OnTheWay
      BY <1>1, <2>3 DEF OnTheWay, LineIds, Ids
    <3>2. OnTheWay \subseteq DOMAIN sent
      BY OnTheWayIsSent
    <3> QED BY <2>1, <3>1, <3>2
  <2>6. NoneMissing'
    BY <2>3, <2>5 DEF NoneMissing
  <2>7. WireInOrder'
    BY <1>1, <1>3, <2>1, <2>2 DEF WireInOrder
  <2>8. PutTogether'
    <3>1. DOMAIN accumulator = {}
      BY <2>5 DEF OnTheWay, Ids
    <3> QED BY <1>1, <1>3, <3>1 DEF PutTogether, Ascending
  <2> QED BY <2>4, <2>6, <2>7, <2>8 DEF FrameInv
<1> QED BY <1>1, <1>2, <1>3

LEMMA Drains == ASSUME TypeOK, FrameInv, ShutdownDrains PROVE FrameInv'
<1>1. /\ UNCHANGED <<link, wire, sent, accumulator, received>> /\ messageQueue' = <<>>
      /\ work # "enqueue" /\ work' # "enqueue" /\ client' = "released" /\ client = "draining"
  BY DEF ShutdownDrains, WorkDrained, peerVars, sessionVars
<1>2. SentStays
  BY <1>1 DEF SentStays
<1>3. FramesInOrder' /\ WireInOrder' /\ PutTogether'
  BY <1>1, <1>2, ReceivedStays
     DEF FrameInv, WireInOrder, Passed, PutTogether, Ascending, IsDataSent
<1>4. DOMAIN Line' \subseteq DOMAIN Line /\ \A i \in DOMAIN Line' : Line'[i] = Line[i]
  <2>1. received \in Seq(MessageRecord) /\ messageQueue \in Seq(MessageRecord)
    BY DEF TypeOK
  <2>2. received \o <<>> = received
    BY <2>1, ConcatEmptySeq
  <2>3. Line' = received
    BY <1>1, <2>2 DEF Line
  <2>4. DOMAIN received \subseteq DOMAIN Line /\ \A i \in DOMAIN received : Line[i] = received[i]
    BY <2>1, ConcatFront DEF Line
  <2> QED BY <2>3, <2>4
<1>5. LineIds' \subseteq LineIds
  BY <1>4 DEF LineIds, Ids
<1>6. LineInOrder'
  <2>1. \A i \in DOMAIN Line' : IsPart(Line'[i].frames)
    BY <1>4 DEF FrameInv, LineInOrder
  <2>2. \A i \in DOMAIN Line' : IsPart(Line[i].frames)'
    <3>1. ASSUME NEW i, i \in DOMAIN Line' PROVE IsPart(Line[i].frames)'
      BY <1>1, <2>1, <3>1 DEF IsPart, IsDataSent, Ascending
    <3> QED BY <3>1
  <2>3. ASSUME NEW i \in DOMAIN Line', NEW k \in DOMAIN Line', i < k,
               NEW a \in Ids(Line'[i].frames), NEW b \in Ids(Line'[k].frames)
        PROVE  a < b
    BY <1>4, <2>3 DEF FrameInv, LineInOrder
  <2>4. \A m \in LineIds', n \in Ids(accumulator) : m < n
    BY <1>5 DEF FrameInv, LineInOrder
  <2> QED BY <1>1, <2>2, <2>3, <2>4 DEF LineInOrder, Ids
<1>7. NoneMissing'
  <2>1. OnTheWay' \subseteq OnTheWay /\ Passed' = Passed
    BY <1>1, <1>5 DEF OnTheWay, Ids, Passed
  <2> QED BY <1>1, <2>1 DEF FrameInv, NoneMissing
<1> QED BY <1>3, <1>6, <1>7 DEF FrameInv

LEMMA FrameInvStep ==
  ASSUME TypeOK, TypeOK', IInv, FrameInv, [Next]_vars PROVE FrameInv'
<1> USE DEF peerVars, socketVars, workVars, sessionVars
<1>1. CASE LinkLost
  <2>1. client # "new" /\ client \notin {"draining", "released"}
    BY <1>1 DEF LinkLost, FrameInv, WireInOrder
  <2> QED BY <1>1, <2>1, NothingMoves DEF LinkLost
<1>2. ASSUME NEW kind \in DataKinds \union ControlKinds, NEW type \in Types, RelaySends(kind, type)
      PROVE  FrameInv'
  BY <1>2, SendsFrame
<1>3. ASSUME \/ WorkStarts \/ WorkChecksStop
             \/ \E code \in ErrorCodes \union TimeoutCodes : WorkReceiveErrs(code)
             \/ ReaderChecksStop \/ ReaderSignalled \/ ReaderTimesOut \/ ReaderExits
             \/ StartReceiveLoop \/ StopReceiveLoop \/ AbortSetsStop \/ JoinReader
             \/ UNCHANGED vars
      PROVE  FrameInv'
  <2>1. /\ UNCHANGED <<sent, accumulator, received, messageQueue, wire, link>>
        /\ work = "enqueue" => work' = "enqueue"
        /\ \/ client' = client
           \/ client # "released" /\ client' \notin {"new", "draining", "released"}
    <3>1. CASE \E code \in ErrorCodes \union TimeoutCodes : WorkReceiveErrs(code)
      BY <3>1 DEF WorkReceiveErrs
    <3>2. CASE WorkStarts \/ WorkChecksStop \/ UNCHANGED vars
      BY <3>2 DEF WorkStarts, WorkChecksStop, vars
    <3>3. CASE ReaderChecksStop \/ ReaderSignalled \/ ReaderTimesOut \/ ReaderExits
      BY <3>3 DEF ReaderChecksStop, ReaderSignalled, ReaderTimesOut, ReaderExits
    <3>4. CASE StartReceiveLoop \/ StopReceiveLoop \/ AbortSetsStop \/ JoinReader
      BY <3>4 DEF StartReceiveLoop, StopReceiveLoop, AbortSetsStop, JoinReader
    <3> QED BY <1>3, <3>1, <3>2, <3>3, <3>4
  <2>2. client \in {"draining", "released"} => link # "up"
    BY DEF FrameInv, WireInOrder
  <2> QED BY <2>1, <2>2, NothingMoves
<1>4. ASSUME AbortCloses \/ Shutdown \/ \E code \in ErrorCodes \union {0} : Close(code) PROVE FrameInv'
  <2>1. /\ UNCHANGED <<sent, accumulator, received, messageQueue, work>>
        /\ client \notin {"new", "released"} /\ client' \notin {"new", "released"}
        /\ \/ UNCHANGED <<wire, link>> /\ client' # "draining"
           \/ wire' = <<>> /\ link' = "closed"
    BY <1>4 DEF AbortCloses, Shutdown, Close, CloseLink
  <2> QED BY <2>1, NothingMoves
<1>5. CASE WorkReceives
  BY <1>5, ReceivesFrame
<1>6. CASE WorkEnqueues
  BY <1>6, EnqueuesMessage
<1>7. CASE ReaderTakes
  BY <1>7, TakesMessage
<1>8. CASE Connect
  BY <1>8, LinkUp
<1>9. CASE ShutdownDrains
  BY <1>9, Drains
<1> QED
  BY <1>1, <1>2, <1>3, <1>4, <1>5, <1>6, <1>7, <1>8, <1>9
     DEF Next, Network, ReceiveLoop, RunReceiveLoop, Disconnect, Released

(***************************************************************************)
(* The data frames in the messages that Receive hands to the session are   *)
(* the relay's, in order, none twice and none skipped, and no message      *)
(* joins two, for any number of frames, any codes that                     *)
(* WinHttpWebSocketReceive returns, and however pings, timeouts, losses    *)
(* and a teardown come in between (ReceiveLoop, EnqueueMessage, Receive).  *)
(***************************************************************************)
THEOREM FramesInOrderHolds == Spec => []FramesInOrder
<1>1. Init => FrameInv
  <2> SUFFICES ASSUME Init PROVE FrameInv
    OBVIOUS
  <2>1. /\ wire = <<>> /\ sent = <<>> /\ link = "none" /\ client = "new" /\ work = "none"
        /\ accumulator = <<>> /\ received = <<>> /\ messageQueue = <<>>
    BY DEF Init
  <2>2. Line = <<>>
    BY <2>1, ConcatEmptySeq DEF Line
  <2>3. LineIds = {} /\ OnTheWay = {} /\ Len(sent) = 0 /\ Len(wire) = 0
    BY <2>1, <2>2 DEF LineIds, OnTheWay, Ids
  <2>4. FramesInOrder /\ LineInOrder
    BY <2>1, <2>2, <2>3 DEF FramesInOrder, LineInOrder
  <2>5. WireInOrder /\ PutTogether /\ NoneMissing
    BY <2>1, <2>3 DEF WireInOrder, PutTogether, Ascending, NoneMissing, Passed
  <2> QED BY <2>4, <2>5 DEF FrameInv
<1>2. TypeOK /\ TypeOK' /\ IInv /\ FrameInv /\ [Next]_vars => FrameInv'
  BY FrameInvStep
<1>3. FrameInv => FramesInOrder
  BY DEF FrameInv
<1> QED BY <1>1, <1>2, <1>3, TypeCorrect, LinkInvariant, PTL DEF Spec
=============================================================================
