------------------------- MODULE CallbackDispatcher -------------------------
(***************************************************************************)
(* ComCallbackDispatcher: the STA thread that makes the COM callbacks, its *)
(* task queue, and the Windows message queue that wakes it up.             *)
(*                                                                         *)
(* The client starts it in Initialize and stops it in FinalRelease, once   *)
(* the receive threads, which are the ones that Post, have been joined.    *)
(* PostThreadMessage fails when the thread's message queue is full, and a  *)
(* callback that pumps messages itself takes some of them away: the queue  *)
(* of tasks and the queue of messages need not agree.                      *)
(***************************************************************************)
EXTENDS Naturals, Sequences, FiniteSets

CONSTANTS
  Posters,        \* receive threads
  MessageLimit,   \* capacity of a thread's message queue
  WaitMayTimeOut, \* a wait for the thread may last longer than its timeout
  MaxTasks        \* bound: tasks posted

ASSUME DispatcherAssumption ==
  /\ MessageLimit \in Nat \ {0} /\ MaxTasks \in Nat /\ IsFiniteSet(Posters)
  /\ WaitMayTimeOut \in BOOLEAN

VARIABLES
  running,   \* running_
  queue,     \* queue_, tasks by number
  messages,  \* the message queue of the thread: "work" and "quit"
  thread,    \* where ThreadProc is
  last,      \* it has left the message loop
  task,      \* the task it executes
  receiving, \* receive threads that have not been joined
  poster,    \* for each receive thread, where it is in Post
  client,    \* where the client is in Start, Shutdown and FinalRelease
  submitted, \* number of tasks put in the queue
  executed   \* history: tasks executed

threadVars == <<thread, last, task, executed>>
posterVars == <<receiving, poster, submitted>>
vars == <<running, queue, messages, threadVars, posterVars, client>>
-----------------------------------------------------------------------------
ThreadStages == {"none", "starting", "check", "wait", "drain", "execute", "failed", "ended"}
ClientStages ==
  {"new", "starting", "abandoning", "abandoned", "up", "joining", "quitting", "waiting", "released"}

Init ==
  /\ running = FALSE /\ queue = <<>> /\ messages = <<>>
  /\ thread = "none" /\ last = FALSE /\ task = 0
  /\ receiving = {} /\ poster = [p \in Posters |-> "idle"] /\ submitted = 0
  /\ client = "new"
  /\ executed = <<>>

\* PostThreadMessage; a failure is reported to nobody who acts on it.
MutantMessagePosted(message) == Append(messages, "other")
MessagePosted(message) ==
  IF Len(messages) < MessageLimit THEN Append(messages, message) ELSE messages
-----------------------------------------------------------------------------
(***************************************************************************)
(* Start, called by Initialize.                                            *)
(***************************************************************************)
Start ==
  /\ client = "new"
  /\ \/ running' = TRUE /\ thread' = "starting" /\ client' = "starting"
     \/ client' = "released" /\ UNCHANGED <<running, thread>>  \* CreateThread fails
  /\ UNCHANGED <<queue, messages, last, task, executed, posterVars>>

\* The event is set: Initialize has its dispatcher, and sessions are opened.
StartSucceeds ==
  /\ client = "starting" /\ thread \notin {"starting", "failed"}
  /\ client' = "up"
  /\ receiving' = Posters
  /\ UNCHANGED <<running, queue, messages, threadVars, poster, submitted>>

\* CoInitializeEx failed, or the event was not set in time.
StartFails ==
  /\ client = "starting"
  /\ thread = "failed" \/ (thread = "starting" /\ WaitMayTimeOut)
  /\ client' = "abandoning"
  /\ UNCHANGED <<running, queue, messages, threadVars, posterVars>>

\* The thread is told to quit.  That reaches no thread that has yet to make its
\* message queue, or that has ended.
QuitStarted ==
  /\ client = "abandoning"
  /\ messages' \in {messages, MessagePosted("quit")}
  /\ thread = "failed" => messages' = messages
  /\ thread \notin {"starting", "failed"} => messages' = MessagePosted("quit")
  /\ client' = "abandoned"
  /\ UNCHANGED <<running, queue, threadVars, posterVars>>

ThreadGone == thread \in {"none", "failed", "ended"}

\* The wait for it ends or times out, and the object is given up.
AbandonThread ==
  /\ client = "abandoned"
  /\ ThreadGone \/ WaitMayTimeOut
  /\ running' = FALSE
  /\ client' = "released"
  /\ UNCHANGED <<queue, messages, threadVars, posterVars>>
-----------------------------------------------------------------------------
(***************************************************************************)
(* ThreadProc.                                                             *)
(***************************************************************************)
ThreadStarts ==
  /\ thread = "starting"
  /\ thread' \in {"check", "failed"}
  /\ UNCHANGED <<running, queue, messages, last, task, executed, posterVars, client>>

CheckRunning ==
  /\ thread = "check"
  /\ thread' = IF running THEN "wait" ELSE "drain"
  /\ last' = ~running
  /\ UNCHANGED <<running, queue, messages, task, executed, posterVars, client>>

GetMessage ==
  /\ thread = "wait" /\ messages # <<>>
  /\ messages' = Tail(messages)
  /\ thread' = "drain"
  /\ last' = (Head(messages) = "quit")
  /\ UNCHANGED <<running, queue, task, executed, posterVars, client>>

\* One turn of DrainQueue, under queueMutex_, and what follows its last one.
MutantContinues == queue # <<>> /\ ~last
Continues == queue # <<>>

\* The loop then looks at running_ again before it sleeps.
MutantAfterDrain == "check"
AfterDrain == IF last THEN "ended" ELSE "check"

TakeTask ==
  /\ thread = "drain"
  /\ IF Continues
       THEN /\ task' = Head(queue)
            /\ queue' = Tail(queue)
            /\ thread' = "execute"
       ELSE /\ thread' = AfterDrain
            /\ UNCHANGED <<task, queue>>
  /\ UNCHANGED <<running, messages, last, executed, posterVars, client>>

\* The callback returns; an exception is swallowed.
Execute ==
  /\ thread = "execute"
  /\ executed' = Append(executed, task)
  /\ thread' = "drain"
  /\ UNCHANGED <<running, queue, messages, last, task, posterVars, client>>

\* The callback runs a message loop of its own (a dialog, a wait), which takes
\* a message of the thread, WM_QUIT included.
CallbackPumps ==
  /\ thread = "execute" /\ messages # <<>>
  /\ messages' = Tail(messages)
  /\ UNCHANGED <<running, queue, threadVars, posterVars, client>>

ThreadProc == ThreadStarts \/ CheckRunning \/ GetMessage \/ TakeTask \/ Execute
-----------------------------------------------------------------------------
(***************************************************************************)
(* Post, on a receive thread: the check (Post is refused when the          *)
(* dispatcher does not run), the push under queueMutex_, the wake-up.      *)
(***************************************************************************)
BeginPost(p) ==
  /\ p \in receiving /\ poster[p] = "idle" /\ running
  /\ submitted + Cardinality({r \in Posters : poster[r] = "push"}) < MaxTasks
  /\ poster' = [poster EXCEPT ![p] = "push"]
  /\ UNCHANGED <<running, queue, messages, threadVars, receiving, submitted, client>>

Queued(new) == Append(queue, new)

Push(p) ==
  /\ poster[p] = "push"
  /\ submitted' = submitted + 1
  /\ queue' = Queued(submitted + 1)
  /\ poster' = [poster EXCEPT ![p] = "wake"]
  /\ UNCHANGED <<running, messages, threadVars, receiving, client>>

MutantWoken == IF queue = <<>> THEN MessagePosted("work") ELSE messages
Woken == MessagePosted("work")

WakeThread(p) ==
  /\ poster[p] = "wake"
  /\ messages' = Woken
  /\ poster' = [poster EXCEPT ![p] = "idle"]
  /\ UNCHANGED <<running, queue, threadVars, receiving, submitted, client>>

Post(p) == Push(p) \/ WakeThread(p)
-----------------------------------------------------------------------------
(***************************************************************************)
(* FinalRelease: the sessions are stopped, then Shutdown, then the         *)
(* dispatcher is destroyed.                                                *)
(***************************************************************************)
FinalRelease ==
  /\ client = "up"
  /\ client' = "joining"
  /\ UNCHANGED <<running, queue, messages, threadVars, posterVars>>

JoinReceiver(p) ==
  /\ client = "joining" /\ p \in receiving /\ poster[p] = "idle"
  /\ receiving' = receiving \ {p}
  /\ UNCHANGED <<running, queue, messages, threadVars, poster, submitted, client>>

ReceiversJoined == receiving = {}

Shutdown ==
  /\ client = "joining" /\ ReceiversJoined
  /\ running' = FALSE
  /\ client' = "quitting"
  /\ UNCHANGED <<queue, messages, threadVars, posterVars>>

PostQuit ==
  /\ client = "quitting"
  /\ messages' = MessagePosted("quit")
  /\ client' = "waiting"
  /\ UNCHANGED <<running, queue, threadVars, posterVars>>

\* The wait for the thread ends or times out; the caller does not look at which.
WaitForThread ==
  /\ client = "waiting"
  /\ thread = "ended" \/ WaitMayTimeOut
  /\ client' = "released"
  /\ UNCHANGED <<running, queue, messages, threadVars, posterVars>>

Release ==
  \/ StartSucceeds \/ StartFails \/ QuitStarted \/ AbandonThread
  \/ Shutdown \/ PostQuit \/ WaitForThread
  \/ \E p \in Posters : JoinReceiver(p)
-----------------------------------------------------------------------------
Released == client = "released" /\ ThreadGone /\ UNCHANGED vars

Next ==
  \/ Start \/ FinalRelease \/ Release
  \/ ThreadProc \/ CallbackPumps
  \/ \E p \in Posters : BeginPost(p) \/ Post(p)
  \/ Released

(***************************************************************************)
(* Threads run, callbacks return, and a Start or FinalRelease that has     *)
(* begun goes on.  Nobody has to post.                                     *)
(***************************************************************************)
Fairness ==
  /\ WF_vars(ThreadProc) /\ WF_vars(Release)
  /\ \A p \in Posters : WF_vars(Post(p))

Spec == Init /\ [][Next]_vars /\ Fairness
-----------------------------------------------------------------------------
TypeOK ==
  /\ running \in BOOLEAN /\ queue \in Seq(Nat)
  /\ messages \in Seq({"work", "quit"})
  /\ thread \in ThreadStages /\ last \in BOOLEAN /\ task \in Nat
  /\ receiving \subseteq Posters /\ poster \in [Posters -> {"idle", "push", "wake"}]
  /\ submitted \in Nat /\ executed \in Seq(Nat)
  /\ client \in ClientStages

(***************************************************************************)
(* The thread never sleeps over a task: whatever the message queue drops   *)
(* when it is full, and whatever a callback's own loop takes out of it, a  *)
(* thread that is about to sleep with tasks in the queue has a message     *)
(* waiting, or a Post that has yet to send one.                            *)
(***************************************************************************)
NoSleepOverTasks ==
  thread = "wait" /\ queue # <<>> =>
    messages # <<>> \/ \E p \in Posters : poster[p] = "wake"

(***************************************************************************)
(* Shutdown ends by itself, without its timeout, even when WM_QUIT is lost *)
(* in a full message queue or taken by a callback's message loop.          *)
(***************************************************************************)
ReleaseEnds == client = "joining" ~> client = "released"

(***************************************************************************)
(* When the release is over, so is the thread, and every task that was     *)
(* ever posted has been executed: the dispatcher is not destroyed over its *)
(* thread, and Shutdown drops no callback.                                 *)
(***************************************************************************)
ReleasedMeansDone ==
  client = "released" => ThreadGone /\ queue = <<>> /\ Len(executed) = submitted

\* The dispatcher is a task executor.
InHand == IF thread = "execute" THEN <<task>> ELSE <<>>
Executor == INSTANCE TaskExecutor WITH
  Tasks <- 1..MaxTasks, pending <- InHand \o queue, open <- thread # "ended"
ImplementsExecutor == Executor!Spec
=============================================================================
