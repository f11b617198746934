----------------------------- MODULE RelayLink -----------------------------
(***************************************************************************)
(* One connection to a relay: the WinHttpWebSocket object, the thread-pool *)
(* work item that receives frames for it (ReceiveLoop), the session's      *)
(* receive thread that takes messages out of it (RunReceiveLoop), and the  *)
(* client thread that opens it (ConnectRelay) and tears it down            *)
(* (DisconnectRelay: StopReceiveLoop, Close, destruction).                 *)
(*                                                                         *)
(*   relay --wire--> ReceiveLoop --messageQueue/messageEvent--> Receive    *)
(*                                                                         *)
(* The relay and WinHTTP are the environment.  A frame is one buffer that  *)
(* WinHttpWebSocketReceive hands out; a message is the sequence of frames  *)
(* accumulated for it, so that a property can say which frames it holds.   *)
(***************************************************************************)
EXTENDS Integers, Sequences

CONSTANTS
  Types,          \* payload types of a frame (UTF-8 and binary)
  ErrorCodes,     \* what WinHttpWebSocketReceive may return on failure
  TimeoutCodes,   \* what it may return when WinHTTP's own timeout expires
  TimeoutHResult, \* HRESULT_FROM_WIN32(ERROR_WINHTTP_TIMEOUT)
  WaitForever,    \* TRUE: the receive timeout resolves to INFINITE
  MaxFrames,      \* bound: frames the relay sends
  MaxFaults       \* bound: failing or timed-out receives before a stop

ASSUME LinkAssumption ==
  /\ Types # {}
  /\ ErrorCodes \subseteq Int \ {0}
  /\ TimeoutCodes \subseteq Int \ {0}
  /\ TimeoutHResult \in Int /\ TimeoutHResult < 0
  /\ TimeoutHResult \notin ErrorCodes
  /\ WaitForever \in BOOLEAN
  /\ MaxFrames \in Nat /\ MaxFaults \in Nat

VARIABLES
  link,          \* the transport: "none", "up", "lost" or "closed"
  wire,          \* frames on their way, oldest first
  sent,          \* history: every frame the relay sent
  faults,        \* number of failing or timed-out receives
  handle,        \* webSocket_ holds a handle
  stopRequested, \* WinHttpWebSocket::stopRequested_
  work,          \* where the thread-pool work item is
  accumulator,   \* frames of the message being put together
  messageQueue,  \* messageQueue_
  messageEvent,  \* messageEvent_, a manual-reset event
  reader,        \* where the session's receive thread is
  received,      \* history: the messages Receive handed to the session
  sessionStop,   \* RelaySessionData::stopRequested
  sessionState,  \* RelaySessionData::state
  client         \* where the client thread is

peerVars    == <<link, wire, sent>>
socketVars  == <<handle, stopRequested, messageQueue, messageEvent>>
workVars    == <<work, accumulator, faults>>
sessionVars == <<reader, received, sessionStop, sessionState>>
vars == <<peerVars, socketVars, workVars, sessionVars, client>>
-----------------------------------------------------------------------------
(***************************************************************************)
(* A result is FAILED when it is negative, as an HRESULT.  ReceiveLoop     *)
(* stores whatever WinHttpWebSocketReceive returns in an HRESULT, so the   *)
(* codes are integers, and a Win32 error code (a small positive number)    *)
(* does not count as a failure.                                            *)
(***************************************************************************)
Failed(code) == code < 0

DataKinds    == {"fragment", "final"}
ControlKinds == {"ping", "pong", "close"}

\* One buffer received from WinHTTP; its id is its place in what was sent.
Frame == [kind : DataKinds \union ControlKinds, type : Types, id : Nat]

IsData(frame) == frame.kind \in DataKinds

\* A NativeWebSocketMessage: its frames, and its buffer type, which is the type
\* of the first frame (NormalizeType drops the fragment bit).  A message without
\* frames has the type that frameType is initialised to.
InitialType == CHOOSE t \in Types : TRUE
MutantMessage(frames) ==
  [frames |-> frames, type |-> IF frames = <<>> THEN InitialType ELSE frames[1].kind]
Message(frames) ==
  [frames |-> frames, type |-> IF frames = <<>> THEN InitialType ELSE frames[1].type]

WorkStages   == {"none", "submitted", "check", "receive", "enqueue", "done"}
ReaderStages == {"none", "check", "wait", "signalled", "exit", "ended"}
ClientStages == {"new", "connected", "running", "stopping", "aborting",
                 "joining", "stopped", "destroying", "draining", "released"}

Init ==
  /\ link = "none" /\ wire = <<>> /\ sent = <<>>
  /\ handle = FALSE /\ stopRequested = FALSE
  /\ messageQueue = <<>> /\ messageEvent = FALSE
  /\ work = "none" /\ accumulator = <<>> /\ faults = 0
  /\ reader = "none" /\ received = <<>>
  /\ sessionStop = FALSE /\ sessionState = "Disconnected"
  /\ client = "new"
-----------------------------------------------------------------------------
(***************************************************************************)
(* The relay and the network.                                              *)
(***************************************************************************)
RelaySends(kind, type) ==
  /\ link = "up" /\ Len(sent) < MaxFrames
  /\ LET frame == [kind |-> kind, type |-> type, id |-> Len(sent) + 1]
     IN  /\ wire' = Append(wire, frame)
         /\ sent' = Append(sent, frame)
  /\ UNCHANGED <<link, socketVars, workVars, sessionVars, client>>

LinkLost ==
  /\ link = "up"
  /\ link' = "lost" /\ wire' = <<>>
  /\ UNCHANGED <<sent, socketVars, workVars, sessionVars, client>>
-----------------------------------------------------------------------------
(***************************************************************************)
(* ReceiveLoop, on a thread of the thread pool.                            *)
(***************************************************************************)
WorkStarts ==
  /\ work = "submitted"
  /\ work' = IF handle THEN "check" ELSE "done"
  /\ UNCHANGED <<peerVars, socketVars, accumulator, faults, sessionVars, client>>

WorkChecksStop ==
  /\ work = "check"
  /\ work' = IF stopRequested THEN "done" ELSE "receive"
  /\ UNCHANGED <<peerVars, socketVars, accumulator, faults, sessionVars, client>>

\* A data frame is appended to the message being put together; a control frame
\* leaves it alone.
MutantAccumulate(frame) == IF IsData(frame) THEN Append(accumulator, frame) ELSE <<>>
Accumulate(frame) == IF IsData(frame) THEN Append(accumulator, frame) ELSE accumulator

\* WinHttpWebSocketReceive hands out a frame.
WorkReceives ==
  /\ work = "receive" /\ wire # <<>>
  /\ wire' = Tail(wire)
  /\ LET frame == Head(wire) IN
       /\ stopRequested' = (stopRequested \/ frame.kind = "close")
       /\ accumulator' = Accumulate(frame)
       /\ work' = CASE frame.kind = "close" -> "done"
                    [] frame.kind = "final" -> "enqueue"
                    [] OTHER                -> "check"
  /\ UNCHANGED <<link, sent, handle, messageQueue, messageEvent, faults, sessionVars, client>>

\* It returns an error instead.  A timeout HRESULT continues the loop and any
\* other failure ends it; a code that is not Failed leaves the initial values of
\* bytesRead and frameType, which read as an empty final UTF-8 frame.
WorkReceiveErrs(code) ==
  /\ work = "receive"
  /\ \/ link = "up" /\ wire = <<>> /\ code \in TimeoutCodes
     \/ link \in {"lost", "closed"} /\ code \in ErrorCodes
  /\ faults < MaxFaults \/ stopRequested
  /\ faults' = IF stopRequested THEN faults ELSE faults + 1
  /\ work' = CASE ~Failed(code)          -> "enqueue"
               [] code = TimeoutHResult  -> "check"
               [] OTHER                  -> "done"
  /\ UNCHANGED <<peerVars, socketVars, accumulator, sessionVars, client>>

\* EnqueueMessage, under queueMutex_; SetEvent is inside the critical section.
MutantSignal(queue) == Len(queue) > 1
Signal(queue) == TRUE

WorkEnqueues ==
  /\ work = "enqueue"
  /\ messageQueue' = Append(messageQueue, Message(accumulator))
  /\ messageEvent' = Signal(messageQueue')
  /\ accumulator' = <<>>
  /\ work' = "check"
  /\ UNCHANGED <<peerVars, handle, stopRequested, faults, sessionVars, client>>

ReceiveLoop ==
  \/ WorkStarts \/ WorkChecksStop \/ WorkReceives \/ WorkEnqueues
  \/ \E code \in ErrorCodes \union TimeoutCodes : WorkReceiveErrs(code)
-----------------------------------------------------------------------------
(***************************************************************************)
(* RunReceiveLoop, on the session's receive thread.                        *)
(***************************************************************************)
ReaderChecksStop ==
  /\ reader = "check"
  /\ reader' = IF sessionStop \/ ~handle THEN "exit" ELSE "wait"
  /\ UNCHANGED <<peerVars, socketVars, workVars, received, sessionStop, sessionState, client>>

\* WaitForSingleObject(messageEvent_) inside Receive.
ReaderSignalled ==
  /\ reader = "wait" /\ messageEvent
  /\ reader' = "signalled"
  /\ UNCHANGED <<peerVars, socketVars, workVars, received, sessionStop, sessionState, client>>

ReaderTimesOut ==
  /\ reader = "wait" /\ ~messageEvent /\ ~WaitForever
  /\ reader' = "check"
  /\ UNCHANGED <<peerVars, socketVars, workVars, received, sessionStop, sessionState, client>>

\* Receive resets the event when it has taken the last message.
MutantEventAfterTake(rest) == messageEvent
EventAfterTake(rest) == IF rest = <<>> THEN FALSE ELSE messageEvent

\* The rest of Receive, under queueMutex_, and what the loop does with the
\* result: a message is handled, ERROR_NO_MORE_ITEMS faults the session.
ReaderTakes ==
  /\ reader = "signalled"
  /\ \/ /\ messageQueue = <<>>
        /\ messageEvent' = FALSE
        /\ sessionState' = IF sessionStop THEN sessionState ELSE "Faulted"
        /\ reader' = "exit"
        /\ UNCHANGED <<messageQueue, received>>
     \/ /\ messageQueue # <<>>
        /\ messageQueue' = Tail(messageQueue)
        /\ messageEvent' = EventAfterTake(Tail(messageQueue))
        /\ received' = Append(received, Head(messageQueue))
        /\ reader' = "check"
        /\ UNCHANGED sessionState
  /\ UNCHANGED <<peerVars, handle, stopRequested, workVars, sessionStop, client>>

ReaderExits ==
  /\ reader = "exit"
  /\ sessionStop' = TRUE
  /\ reader' = "ended"
  /\ UNCHANGED <<peerVars, socketVars, workVars, received, sessionState, client>>

RunReceiveLoop ==
  ReaderChecksStop \/ ReaderSignalled \/ ReaderTimesOut \/ ReaderTakes \/ ReaderExits
-----------------------------------------------------------------------------
(***************************************************************************)
(* The client thread: ConnectRelay, then DisconnectRelay.                  *)
(***************************************************************************)
\* WinHttpWebSocket::Connect on a new object; when the handshake fails,
\* ConnectRelay returns the error and destroys the object.
Connect ==
  /\ client = "new"
  /\ \/ /\ link' = "up" /\ handle' = TRUE
        /\ work' = "submitted" /\ sessionState' = "Connected"
        /\ client' = "connected"
        /\ UNCHANGED stopRequested
     \/ /\ stopRequested' = TRUE
        /\ client' = "released"
        /\ UNCHANGED <<link, handle, work, sessionState>>
  /\ UNCHANGED <<wire, sent, messageQueue, messageEvent, accumulator, faults,
                 reader, received, sessionStop>>

StartReceiveLoop ==
  /\ client = "connected"
  /\ sessionStop' = FALSE /\ reader' = "check"
  /\ client' = "running"
  /\ UNCHANGED <<peerVars, socketVars, workVars, received, sessionState>>

MutantStopReceiveLoop ==
  /\ client = "running"
  /\ client' = "stopping"
  /\ UNCHANGED <<peerVars, socketVars, workVars, sessionVars>>
StopReceiveLoop ==
  /\ client = "running"
  /\ sessionStop' = TRUE
  /\ client' = "stopping"
  /\ UNCHANGED <<peerVars, socketVars, workVars, reader, received, sessionState>>

\* WinHttpWebSocketClose ends the transport; what was on its way is discarded.
CloseLink == link' = "closed" /\ wire' = <<>>

\* Abort: its close may be refused (1006 is a reserved status) and its result is
\* not looked at; then the flag is set.
AbortCloses ==
  /\ client = "stopping"
  /\ CloseLink \/ UNCHANGED <<link, wire>>
  /\ client' = "aborting"
  /\ UNCHANGED <<sent, socketVars, workVars, sessionVars>>

AbortSetsStop ==
  /\ client = "aborting"
  /\ stopRequested' = TRUE
  /\ client' = "joining"
  /\ UNCHANGED <<peerVars, handle, messageQueue, messageEvent, workVars, sessionVars>>

JoinReader ==
  /\ client = "joining" /\ reader = "ended"
  /\ sessionState' = "Disconnected"
  /\ client' = "stopped"
  /\ UNCHANGED <<peerVars, socketVars, workVars, reader, received, sessionStop>>

\* DisconnectRelay's Close(SUCCESS) before it resets the pointer.
Close(code) ==
  /\ client = "stopped"
  /\ CloseLink
  /\ stopRequested' = (stopRequested \/ ~Failed(code))
  /\ client' = "destroying"
  /\ UNCHANGED <<sent, handle, messageQueue, messageEvent, workVars, sessionVars>>

\* The destructor's ShutdownReceiveLoop(true): ask the loop to stop ...
Shutdown ==
  /\ client = "destroying"
  /\ stopRequested' = TRUE /\ CloseLink
  /\ client' = "draining"
  /\ UNCHANGED <<sent, handle, messageQueue, messageEvent, workVars, sessionVars>>

\* ... then wait for the work item, or cancel it while it has not started, and
\* release everything.  No other thread uses the object any more.
MutantWorkDrained == TRUE
WorkDrained == work \in {"none", "submitted", "done"}

ShutdownDrains ==
  /\ client = "draining" /\ WorkDrained
  /\ work' = IF work = "submitted" THEN "none" ELSE work
  /\ handle' = FALSE
  /\ messageQueue' = <<>> /\ messageEvent' = FALSE
  /\ client' = "released"
  /\ UNCHANGED <<peerVars, stopRequested, accumulator, faults, sessionVars>>

Disconnect ==
  \/ AbortCloses \/ AbortSetsStop \/ JoinReader \/ Shutdown \/ ShutdownDrains
  \/ \E code \in ErrorCodes \union {0} : Close(code)
-----------------------------------------------------------------------------
Network ==
  \/ LinkLost
  \/ \E kind \in DataKinds \union ControlKinds, type \in Types : RelaySends(kind, type)

\* Nothing is left to do once the client has released the object.
Released == client = "released" /\ UNCHANGED vars

Next ==
  \/ Network \/ ReceiveLoop \/ RunReceiveLoop
  \/ Connect \/ StartReceiveLoop \/ StopReceiveLoop \/ Disconnect
  \/ Released

(***************************************************************************)
(* The threads keep running; a frame on the wire is handed out and a dead  *)
(* transport reports an error, but WinHTTP's own timeouts, the relay, the  *)
(* network and the application's calls owe nothing.  A teardown that has   *)
(* begun is carried through.                                               *)
(***************************************************************************)
ReceiveReturns ==
  WorkReceives \/ (link # "up" /\ \E code \in ErrorCodes : WorkReceiveErrs(code))

Fairness ==
  /\ WF_vars(WorkStarts \/ WorkChecksStop \/ WorkEnqueues \/ ReceiveReturns)
  /\ WF_vars(RunReceiveLoop)
  /\ WF_vars(StartReceiveLoop)
  /\ WF_vars(Disconnect)

Spec == Init /\ [][Next]_vars /\ Fairness
-----------------------------------------------------------------------------
MessageRecord == [frames : Seq(Frame), type : Types]

TypeOK ==
  /\ link \in {"none", "up", "lost", "closed"}
  /\ wire \in Seq(Frame) /\ sent \in Seq(Frame)
  /\ faults \in Nat
  /\ handle \in BOOLEAN /\ stopRequested \in BOOLEAN
  /\ work \in WorkStages /\ accumulator \in Seq(Frame)
  /\ messageQueue \in Seq(MessageRecord) /\ messageEvent \in BOOLEAN
  /\ reader \in ReaderStages /\ received \in Seq(MessageRecord)
  /\ sessionStop \in BOOLEAN
  /\ sessionState \in {"Disconnected", "Connected", "Faulted"}
  /\ client \in ClientStages

(***************************************************************************)
(* The event the receive thread sleeps on and the queue it then reads are  *)
(* changed by two threads, yet the thread never wakes up to an empty queue *)
(* (WinHttpWebSocket::Receive never returns ERROR_NO_MORE_ITEMS).          *)
(***************************************************************************)
WakesToAMessage == reader = "signalled" => messageQueue # <<>>

(***************************************************************************)
(* By the time the socket object is released, or its handle is closed, the *)
(* two threads that use it are gone: the receive thread is joined, the     *)
(* work item has ended or was cancelled before it began.                   *)
(***************************************************************************)
ThreadsGoneBeforeRelease ==
  client = "released" \/ ~handle => work \in {"none", "done"} /\ reader \in {"none", "ended"}

\* The places of frames among all that were sent; frames that the relay sent in
\* this order within one message, perhaps not all of them; and a whole message.
Ids(frames) == {frames[j].id : j \in DOMAIN frames}
Ascending(frames) == \A j, k \in DOMAIN frames : j < k => frames[j].id < frames[k].id
IsDataSent(frame) == IsData(frame) /\ frame.id \in DOMAIN sent /\ frame = sent[frame.id]
IsPart(frames) ==
  /\ Ascending(frames)
  /\ \A j \in DOMAIN frames : /\ IsDataSent(frames[j])
                              /\ frames[j].kind = "final" => j = Len(frames)
IsWhole(frames) == IsPart(frames) /\ frames # <<>> /\ frames[Len(frames)].kind = "final"

(***************************************************************************)
(* Whatever control frames, timeouts and errors come in between, and in    *)
(* whichever form WinHTTP reports them, the session receives the relay's   *)
(* data frames in order, none twice and none skipped: a data frame that    *)
(* the relay sent before a received one has been received.  No message     *)
(* joins frames of two of the relay's messages; it may hold a part of one  *)
(* only, or nothing (MessagesWhole).                                       *)
(***************************************************************************)
FramesInOrder ==
  /\ \A i \in DOMAIN received : IsPart(received[i].frames)
  /\ \A i, k \in DOMAIN received : i < k =>
       \A m \in Ids(received[i].frames), n \in Ids(received[k].frames) : m < n
  /\ \A i \in DOMAIN received : \A m \in Ids(received[i].frames) :
       \A n \in 1..m : IsData(sent[n]) =>
         \E k \in DOMAIN received : n \in Ids(received[k].frames)

(***************************************************************************)
(* A timeout of WinHTTP in the middle of a message is waited out: every    *)
(* message that holds frames at all is a whole message of the relay.       *)
(***************************************************************************)
MessagesWhole ==
  \A i \in DOMAIN received : received[i].frames = <<>> \/ IsWhole(received[i].frames)

(***************************************************************************)
(* A teardown always comes to its end: the join returns because the        *)
(* receive thread sees its stop flag within one timeout, the drain because *)
(* closing the transport unblocks the work item.                           *)
(***************************************************************************)
StopReturns == client = "stopping" ~> client = "released"

(***************************************************************************)
(* A connection that breaks is reported: the session does not stay         *)
(* Connected over a dead transport.                                        *)
(***************************************************************************)
LossIsReported == link = "lost" ~> sessionState # "Connected"
=============================================================================
