---------------------- MODULE CallbackDispatcher_proofs ----------------------
(***************************************************************************)
(* Proofs about CallbackDispatcher, for any number of receive threads, any *)
(* size of the thread's message queue, and with timeouts that may end a    *)
(* wait for the thread.                                                    *)
(***************************************************************************)
EXTENDS CallbackDispatcher, SequenceTheorems, FiniteSetTheorems, TLAPS

(***************************************************************************)
(* What has been executed, is in hand and is queued, in one sequence: a    *)
(* task that is taken or done moves the borders only, and one that is      *)
(* queued is the last.                                                     *)
(***************************************************************************)
LEMMA MoveHead ==
  ASSUME NEW a \in Seq(Nat), NEW q \in Seq(Nat), q # <<>>
  PROVE  a \o (<<Head(q)>> \o Tail(q)) = a \o (<<>> \o q)
<1>1. <<Head(q)>> \o Tail(q) = q
  OBVIOUS
<1>2. <<>> \o q = q
  BY ConcatEmptySeq
<1> QED BY <1>1, <1>2

LEMMA MoveDone ==
  ASSUME NEW a \in Seq(Nat), NEW t \in Nat, NEW q \in Seq(Nat)
  PROVE  Append(a, t) \o (<<>> \o q) = a \o (<<t>> \o q)
<1>1. Append(a, t) = a \o <<t>> /\ <<t>> \in Seq(Nat)
  BY AppendIsConcat
<1>2. <<>> \o q = q
  BY ConcatEmptySeq
<1> QED BY <1>1, <1>2, ConcatAssociative

LEMMA MoveNew ==
  ASSUME NEW a \in Seq(Nat), NEW h \in Seq(Nat), NEW q \in Seq(Nat), NEW t \in Nat
  PROVE  a \o (h \o Append(q, t)) = Append(a \o (h \o q), t)
<1>1. Append(q, t) = q \o <<t>> /\ <<t>> \in Seq(Nat)
  BY AppendIsConcat
<1>2. h \o q \in Seq(Nat) /\ a \o (h \o q) \in Seq(Nat)
  BY ConcatProperties
<1>3. h \o (q \o <<t>>) = (h \o q) \o <<t>>
  BY <1>1, ConcatAssociative
<1>4. a \o ((h \o q) \o <<t>>) = (a \o (h \o q)) \o <<t>>
  BY <1>1, <1>2, ConcatAssociative, SMTT(30)
<1> QED BY <1>1, <1>2, <1>3, <1>4, AppendIsConcat

LEMMA OneMore ==
  ASSUME executed \in Seq(Nat), InHand \in Seq(Nat), queue \in Seq(Nat), NEW n \in Nat
  PROVE  executed \o (InHand \o Append(queue, n)) = Append(executed \o (InHand \o queue), n)
BY Zenon, MoveNew
-----------------------------------------------------------------------------
USE DispatcherAssumption

LEMMA MessagePostedType ==
  ASSUME TypeOK, NEW m \in {"work", "quit"}
  PROVE  /\ MessagePosted(m) \in Seq({"work", "quit"})
         /\ MessagePosted(m) # <<>>
         /\ \A i \in DOMAIN MessagePosted(m) :
              MessagePosted(m)[i] = m \/ (i \in DOMAIN messages /\ MessagePosted(m)[i] = messages[i])
<1>1. messages \in Seq({"work", "quit"})
  BY DEF TypeOK
<1>2. CASE Len(messages) < MessageLimit
  BY <1>1, <1>2 DEF MessagePosted
<1>3. CASE ~(Len(messages) < MessageLimit)
  BY <1>1, <1>3 DEF MessagePosted
<1> QED
  BY <1>2, <1>3

\* The variables of CallbackDispatcher keep their types.
THEOREM TypeCorrect == Spec => []TypeOK
<1>1. Init => TypeOK
  <2>1. /\ <<>> \in Seq(Nat)
        /\ <<>> \in Seq({"work", "quit"})
    OBVIOUS
  <2>2. Init => /\ running \in BOOLEAN /\ last \in BOOLEAN
                /\ thread \in ThreadStages /\ client \in ClientStages
    BY Zenon DEF Init, ThreadStages, ClientStages
  <2>3. Init => /\ task \in Nat /\ submitted \in Nat
                /\ receiving \subseteq Posters /\ poster \in [Posters -> {"idle", "push", "wake"}]
    BY DEF Init
  <2> QED BY <2>1, <2>2, <2>3 DEF Init, TypeOK
<1>2. TypeOK /\ [Next]_vars => TypeOK'
  <2> SUFFICES ASSUME TypeOK, [Next]_vars PROVE TypeOK'
    OBVIOUS
  <2> USE DEF TypeOK, ThreadStages, ClientStages, threadVars, posterVars
  <2>1. CASE Start \/ FinalRelease
    BY <2>1 DEF Start, FinalRelease
  <2>2. CASE StartSucceeds \/ StartFails \/ AbandonThread \/ Shutdown \/ WaitForThread
    BY <2>2 DEF StartSucceeds, StartFails, AbandonThread, Shutdown, WaitForThread
  <2>3. CASE PostQuit \/ QuitStarted
    BY <2>3, MessagePostedType DEF PostQuit, QuitStarted
  <2>4. ASSUME NEW p \in Posters, JoinReceiver(p) PROVE TypeOK'
    BY <2>4 DEF JoinReceiver
  <2>5. CASE ThreadStarts \/ CheckRunning
    BY <2>5 DEF ThreadStarts, CheckRunning
  <2>6. CASE GetMessage \/ CallbackPumps
    <3>1. last' \in BOOLEAN
      BY Zenon, <2>6 DEF GetMessage, CallbackPumps
    <3>2. messages' = Tail(messages) /\ messages # <<>> /\ thread' \in ThreadStages
      BY Zenon, <2>6 DEF GetMessage, CallbackPumps
    <3>4. Tail(messages) \in Seq({"work", "quit"})
      BY <3>2
    <3>3. UNCHANGED <<running, queue, task, executed, posterVars, client>>
      BY Zenon, <2>6 DEF GetMessage, CallbackPumps
    <3> QED BY <3>1, <3>2, <3>3, <3>4
  <2>7. CASE TakeTask
    <3>1. queue # <<>> => Head(queue) \in Nat /\ Tail(queue) \in Seq(Nat)
      OBVIOUS
    <3>2. /\ task' \in Nat /\ queue' \in Seq(Nat) /\ thread' \in ThreadStages
          /\ UNCHANGED <<running, messages, last, executed, posterVars, client>>
      BY <2>7, <3>1 DEF TakeTask, Continues, AfterDrain
    <3> QED BY <3>2
  <2>8. CASE Execute
    BY <2>8 DEF Execute
  <2>9. ASSUME NEW p \in Posters, BeginPost(p) PROVE TypeOK'
    BY <2>9 DEF BeginPost
  <2>10. ASSUME NEW p \in Posters, Push(p) PROVE TypeOK'
    BY <2>10 DEF Push, Queued
  <2>11. ASSUME NEW p \in Posters, WakeThread(p) PROVE TypeOK'
    BY <2>11, MessagePostedType DEF WakeThread, Woken
  <2>12. CASE UNCHANGED vars
    BY <2>12 DEF vars
  <2> QED
    BY <2>1, <2>2, <2>3, <2>4, <2>5, <2>6, <2>7, <2>8, <2>9, <2>10, <2>11, <2>12
       DEF Next, Release, ThreadProc, Post, Released
<1> QED
  BY <1>1, <1>2, PTL DEF Spec
-----------------------------------------------------------------------------
(***************************************************************************)
(* The inductive invariant.                                                *)
(***************************************************************************)

\* Between Start and the last join the dispatcher runs and nobody has told it
\* to stop; only joined or future receive threads are outside Post.
Serving == client \in {"starting", "up"} \/ receiving # {}

ServesItsPosters ==
  /\ Serving => /\ running /\ ~last /\ client \in {"starting", "up", "joining"}
                /\ \A i \in DOMAIN messages : messages[i] # "quit"
  /\ \A p \in Posters : poster[p] # "idle" => p \in receiving

\* Nothing is queued before the thread runs nor left when it has ended.
ThreadLifetime ==
  /\ client = "new" => thread = "none" /\ ~last /\ messages = <<>>
  /\ thread \in {"none", "starting", "failed"} => receiving = {} /\ submitted = 0
  /\ thread = "none" => client \in {"new", "released"}
  /\ thread = "ended" => last /\ queue = <<>>

\* A thread that is about to sleep over a task will be woken.
WillBeWoken ==
  thread \in {"check", "wait"} /\ queue # <<>> =>
    messages # <<>> \/ \E p \in Posters : poster[p] = "wake"

\* Executed, in hand and queued: the tasks as they were submitted.
InOrder ==
  /\ Len(executed \o (InHand \o queue)) = submitted
  /\ \A i \in 1..submitted : (executed \o (InHand \o queue))[i] = i

Pushing == {p \in Posters : poster[p] = "push"}
WithinBound == submitted + Cardinality(Pushing) <= MaxTasks

IInv == TypeOK /\ ServesItsPosters /\ ThreadLifetime /\ WillBeWoken /\ InOrder /\ WithinBound
-----------------------------------------------------------------------------
LEMMA ServesStep == IInv /\ [Next]_vars => ServesItsPosters'
<1> SUFFICES ASSUME IInv, [Next]_vars PROVE ServesItsPosters'
  OBVIOUS
<1> USE DEF IInv, ServesItsPosters, ThreadLifetime, Serving, threadVars, posterVars
<1>1. CASE Start \/ FinalRelease \/ StartSucceeds
  BY <1>1 DEF Start, FinalRelease, StartSucceeds, TypeOK
<1>2. CASE StartFails \/ AbandonThread \/ Shutdown \/ WaitForThread
  BY <1>2 DEF StartFails, AbandonThread, Shutdown, WaitForThread, ReceiversJoined
<1>3. CASE PostQuit \/ QuitStarted
  BY <1>3 DEF PostQuit, QuitStarted
<1>4. ASSUME NEW p \in Posters, JoinReceiver(p) PROVE ServesItsPosters'
  BY <1>4 DEF JoinReceiver, TypeOK
<1>5. CASE ThreadStarts \/ TakeTask \/ Execute
  BY <1>5 DEF ThreadStarts, TakeTask, Execute
<1>6. CASE CheckRunning
  BY <1>6 DEF CheckRunning
<1>7. CASE GetMessage \/ CallbackPumps
  <2>1. messages \in Seq({"work", "quit"}) /\ messages # <<>> /\ messages' = Tail(messages)
    BY <1>7 DEF GetMessage, CallbackPumps, TypeOK
  <2>2. /\ \A i \in DOMAIN messages' : i + 1 \in DOMAIN messages /\ messages'[i] = messages[i + 1]
        /\ Head(messages) = messages[1] /\ 1 \in DOMAIN messages
    BY <2>1
  <2>3. last' => last \/ Head(messages) = "quit"
    BY <1>7 DEF GetMessage, CallbackPumps
  <2>4. UNCHANGED <<running, client, receiving, poster>>
    BY <1>7 DEF GetMessage, CallbackPumps
  <2> QED BY <2>2, <2>3, <2>4
<1>8. ASSUME NEW p \in Posters, BeginPost(p) \/ Push(p) PROVE ServesItsPosters'
  BY <1>8 DEF BeginPost, Push, TypeOK
<1>9. ASSUME NEW p \in Posters, WakeThread(p) PROVE ServesItsPosters'
  <2>1. \A i \in DOMAIN messages' :
          messages'[i] = "work" \/ (i \in DOMAIN messages /\ messages'[i] = messages[i])
    BY <1>9, MessagePostedType DEF WakeThread, Woken
  <2>2. UNCHANGED <<running, client, receiving, last>> /\ poster' = [poster EXCEPT ![p] = "idle"]
    BY <1>9 DEF WakeThread
  <2> QED BY <2>1, <2>2 DEF TypeOK
<1>10. CASE UNCHANGED vars
  BY <1>10 DEF vars
<1> QED
  BY <1>1, <1>2, <1>3, <1>4, <1>5, <1>6, <1>7, <1>8, <1>9, <1>10
     DEF Next, Release, ThreadProc, Post, Released

LEMMA LifetimeStep == IInv /\ [Next]_vars => ThreadLifetime'
<1> SUFFICES ASSUME IInv, [Next]_vars PROVE ThreadLifetime'
  OBVIOUS
<1> USE DEF IInv, ServesItsPosters, ThreadLifetime, Serving, threadVars, posterVars
<1>1. CASE Start \/ FinalRelease \/ StartSucceeds
  BY <1>1 DEF Start, FinalRelease, StartSucceeds
<1>2. CASE StartFails \/ AbandonThread \/ Shutdown \/ WaitForThread \/ PostQuit \/ QuitStarted
  BY <1>2 DEF StartFails, AbandonThread, Shutdown, WaitForThread, PostQuit, QuitStarted
<1>3. ASSUME NEW p \in Posters, JoinReceiver(p) PROVE ThreadLifetime'
  BY <1>3 DEF JoinReceiver
<1>4. CASE ThreadStarts \/ CheckRunning \/ GetMessage \/ Execute \/ CallbackPumps
  BY <1>4 DEF ThreadStarts, CheckRunning, GetMessage, Execute, CallbackPumps
<1>5. CASE TakeTask
  BY <1>5 DEF TakeTask, Continues, AfterDrain
<1>6. ASSUME NEW p \in Posters, BeginPost(p) \/ Push(p) \/ WakeThread(p) PROVE ThreadLifetime'
  BY <1>6 DEF BeginPost, Push, WakeThread
<1>7. CASE UNCHANGED vars
  BY <1>7 DEF vars
<1> QED
  BY <1>1, <1>2, <1>3, <1>4, <1>5, <1>6, <1>7 DEF Next, Release, ThreadProc, Post, Released

LEMMA WokenStep == IInv /\ [Next]_vars => WillBeWoken'
<1> SUFFICES ASSUME IInv, [Next]_vars PROVE WillBeWoken'
  OBVIOUS
<1> USE DEF IInv, WillBeWoken, threadVars, posterVars
<1>1. CASE Start \/ FinalRelease \/ StartSucceeds \/ StartFails \/ AbandonThread \/ Shutdown
            \/ WaitForThread
  BY <1>1 DEF Start, FinalRelease, StartSucceeds, StartFails, AbandonThread, Shutdown, WaitForThread
<1>2. CASE PostQuit \/ QuitStarted
  BY <1>2, MessagePostedType DEF PostQuit, QuitStarted
<1>3. ASSUME NEW p \in Posters, JoinReceiver(p) PROVE WillBeWoken'
  BY <1>3 DEF JoinReceiver
<1>4. CASE ThreadStarts
  <2>1. queue = <<>>
    BY <1>4 DEF ThreadStarts, ThreadLifetime, InOrder, TypeOK, InHand
  <2> QED BY <1>4, <2>1 DEF ThreadStarts
<1>5. CASE CheckRunning \/ GetMessage \/ Execute \/ CallbackPumps
  BY <1>5 DEF CheckRunning, GetMessage, Execute, CallbackPumps
<1>6. CASE TakeTask
  BY <1>6 DEF TakeTask, Continues, AfterDrain
<1>7. ASSUME NEW p \in Posters, BeginPost(p) \/ Push(p) PROVE WillBeWoken'
  BY <1>7 DEF BeginPost, Push, TypeOK
<1>8. ASSUME NEW p \in Posters, WakeThread(p) PROVE WillBeWoken'
  BY <1>8, MessagePostedType DEF WakeThread, Woken
<1>9. CASE UNCHANGED vars
  BY <1>9 DEF vars
<1> QED
  BY <1>1, <1>2, <1>3, <1>4, <1>5, <1>6, <1>7, <1>8, <1>9
     DEF Next, Release, ThreadProc, Post, Released

LEMMA OrderStep == IInv /\ [Next]_vars => InOrder'
<1> SUFFICES ASSUME IInv, [Next]_vars PROVE InOrder'
  OBVIOUS
<1> DEFINE All == executed \o (InHand \o queue)
<1> USE DEF IInv
<1>0. InHand \in Seq(Nat) /\ All \in Seq(Nat)
  <2>1. InHand \in Seq(Nat)
    BY DEF InHand, TypeOK
  <2> QED BY <2>1, ConcatProperties DEF TypeOK
<1>1. ASSUME All' = All, submitted' = submitted PROVE InOrder'
  BY <1>1 DEF InOrder
<1>2. ASSUME UNCHANGED <<executed, queue, submitted, task>>,
             thread # "execute", thread' # "execute"
      PROVE  InOrder'
  <2>1. InHand' = InHand
    BY <1>2 DEF InHand
  <2> QED BY <1>1, <1>2, <2>1
<1>3. ASSUME UNCHANGED <<executed, queue, submitted, task, thread>> PROVE InOrder'
  <2>1. InHand' = InHand
    BY <1>3 DEF InHand
  <2> QED BY <1>1, <1>3, <2>1
<1>4. CASE TakeTask
  <2>1. InHand = <<>> /\ UNCHANGED <<executed, submitted>>
    BY <1>4 DEF TakeTask, InHand, posterVars
  <2>2. CASE queue # <<>>
    <3>1. InHand' = <<Head(queue)>> /\ queue' = Tail(queue)
      BY <1>4, <2>2 DEF TakeTask, Continues, InHand
    <3>2. All' = All
      BY <2>1, <2>2, <3>1, MoveHead DEF TypeOK
    <3> QED BY <1>1, <2>1, <3>2
  <2>3. CASE queue = <<>>
    <3>1. UNCHANGED <<executed, queue, submitted, task>> /\ thread' # "execute"
      BY <1>4, <2>1, <2>3 DEF TakeTask, Continues, AfterDrain
    <3> QED BY <1>2, <1>4, <3>1 DEF TakeTask
  <2> QED BY <2>2, <2>3
<1>5. CASE Execute
  <2>1. /\ InHand = <<task>> /\ InHand' = <<>>
        /\ executed' = Append(executed, task) /\ UNCHANGED <<queue, submitted>>
    BY <1>5 DEF Execute, InHand, posterVars
  <2>2. All' = All
    BY <2>1, MoveDone DEF TypeOK
  <2> QED BY <1>1, <2>1, <2>2
<1>6. ASSUME NEW p \in Posters, Push(p) PROVE InOrder'
  <2>1. /\ queue' = Append(queue, submitted + 1) /\ submitted' = submitted + 1
        /\ UNCHANGED <<executed, InHand>>
    BY <1>6 DEF Push, Queued, threadVars, InHand
  <2>2. All' = Append(All, submitted + 1)
    <3>1. /\ executed \in Seq(Nat) /\ InHand \in Seq(Nat) /\ queue \in Seq(Nat)
          /\ submitted + 1 \in Nat
      BY <1>0 DEF TypeOK
    <3>2. executed \o (InHand \o Append(queue, submitted + 1)) = Append(All, submitted + 1)
      BY <3>1, OneMore
    <3>3. All' = executed' \o (InHand' \o queue')
      BY Zenon
    <3> QED BY Zenon, <2>1, <3>2, <3>3
  <2>3. /\ Len(All') = Len(All) + 1 /\ All'[Len(All) + 1] = submitted + 1
        /\ \A i \in 1..Len(All) : All'[i] = All[i]
    BY <1>0, <2>2, AppendProperties DEF TypeOK
  <2>4. /\ Len(All) = submitted /\ submitted \in Nat
        /\ \A i \in 1..submitted : All[i] = i
    BY DEF InOrder, TypeOK
  <2>5. Len(All') = submitted' /\ \A i \in 1..submitted' : All'[i] = i
    BY <2>1, <2>3, <2>4
  <2> QED BY <2>5 DEF InOrder
<1>7. CASE Start \/ ThreadStarts \/ CheckRunning \/ GetMessage
  BY <1>2, <1>7 DEF Start, ThreadStarts, CheckRunning, GetMessage, threadVars, posterVars,
     ThreadLifetime
<1>8. CASE FinalRelease \/ StartSucceeds \/ StartFails \/ AbandonThread \/ Shutdown
            \/ WaitForThread \/ PostQuit \/ QuitStarted \/ CallbackPumps
  BY <1>3, <1>8 DEF FinalRelease, StartSucceeds, StartFails, AbandonThread, Shutdown,
     WaitForThread, PostQuit, QuitStarted,
     CallbackPumps, threadVars, posterVars
<1>9. ASSUME NEW p \in Posters, JoinReceiver(p) \/ BeginPost(p) \/ WakeThread(p) PROVE InOrder'
  BY <1>3, <1>9 DEF JoinReceiver, BeginPost, WakeThread, threadVars
<1>10. CASE UNCHANGED vars
  BY <1>3, <1>10 DEF vars, threadVars, posterVars
<1> QED
  BY <1>4, <1>5, <1>6, <1>7, <1>8, <1>9, <1>10 DEF Next, Release, ThreadProc, Post, Released

LEMMA BoundStep == IInv /\ [Next]_vars => WithinBound'
<1> SUFFICES ASSUME IInv, [Next]_vars PROVE WithinBound'
  OBVIOUS
<1> USE DEF IInv, WithinBound
<1>0. IsFiniteSet(Pushing) /\ Cardinality(Pushing) \in Nat
  BY FS_Subset, FS_CardinalityType DEF Pushing
<1>1. ASSUME UNCHANGED <<submitted, poster>> PROVE WithinBound'
  BY <1>1 DEF Pushing
<1>2. ASSUME NEW p \in Posters, BeginPost(p) PROVE WithinBound'
  <2>1. Pushing' = Pushing \union {p} /\ p \notin Pushing
    BY <1>2 DEF BeginPost, Pushing, TypeOK
  <2>2. Cardinality(Pushing') = Cardinality(Pushing) + 1
    BY <1>0, <2>1, FS_AddElement
  <2>3. submitted + Cardinality(Pushing) < MaxTasks /\ submitted' = submitted
    BY <1>2 DEF BeginPost, Pushing
  <2> QED BY <1>0, <2>2, <2>3 DEF TypeOK
<1>3. ASSUME NEW p \in Posters, Push(p) PROVE WithinBound'
  <2>1. Pushing' = Pushing \ {p} /\ p \in Pushing
    BY <1>3 DEF Push, Pushing, TypeOK
  <2>2. Cardinality(Pushing') = Cardinality(Pushing) - 1
    BY <1>0, <2>1, FS_RemoveElement
  <2>3. submitted' = submitted + 1
    BY <1>3 DEF Push
  <2> QED BY <1>0, <2>2, <2>3 DEF TypeOK
<1>4. ASSUME NEW p \in Posters, WakeThread(p) PROVE WithinBound'
  <2>1. Pushing' = Pushing /\ submitted' = submitted
    BY <1>4 DEF WakeThread, Pushing, TypeOK
  <2> QED BY <2>1
<1>5. CASE Start \/ FinalRelease \/ StartSucceeds \/ StartFails \/ AbandonThread \/ Shutdown
            \/ WaitForThread \/ PostQuit \/ QuitStarted \/ CallbackPumps
  BY <1>1, <1>5 DEF Start, FinalRelease, StartSucceeds, StartFails, AbandonThread, Shutdown,
     WaitForThread, PostQuit, QuitStarted, CallbackPumps, posterVars
<1>6. CASE ThreadProc
  BY <1>1, <1>6 DEF ThreadProc, ThreadStarts, CheckRunning, GetMessage, TakeTask, Execute,
     posterVars
<1>7. ASSUME NEW p \in Posters, JoinReceiver(p) PROVE WithinBound'
  BY <1>1, <1>7 DEF JoinReceiver
<1>8. CASE UNCHANGED vars
  BY <1>1, <1>8 DEF vars, posterVars
<1> QED
  BY <1>2, <1>3, <1>4, <1>5, <1>6, <1>7, <1>8 DEF Next, Release, Post, Released

\* The inductive invariant holds.
LEMMA DispatcherInvariant == Spec => []IInv
<1>1. Init => ServesItsPosters /\ ThreadLifetime /\ WillBeWoken
  BY DEF Init, ServesItsPosters, Serving, ThreadLifetime, WillBeWoken
<1>2. Init => InOrder
  <2> SUFFICES ASSUME Init PROVE InOrder
    OBVIOUS
  <2>1. executed = <<>> /\ InHand = <<>> /\ queue = <<>> /\ submitted = 0
    BY DEF Init, InHand
  <2> QED BY <2>1 DEF InOrder
<1>3. Init => WithinBound
  <2> SUFFICES ASSUME Init PROVE WithinBound
    OBVIOUS
  <2>1. Pushing = {}
    BY DEF Init, Pushing
  <2> QED BY <2>1, FS_EmptySet DEF Init, WithinBound
<1>4. IInv /\ [Next]_vars /\ TypeOK' => IInv'
  BY ServesStep, LifetimeStep, WokenStep, OrderStep, BoundStep DEF IInv
<1> QED
  BY TypeCorrect, <1>1, <1>2, <1>3, <1>4, PTL DEF Spec, IInv

(***************************************************************************)
(* The dispatcher's thread never sleeps over a task: with any number of    *)
(* receive threads in Post, a message queue of any size that drops the     *)
(* wake-ups it has no room for, and callbacks that take messages out of    *)
(* it, a thread that sleeps with a task queued has a message waiting or a  *)
(* Post that has yet to send one.                                          *)
(***************************************************************************)
THEOREM NoSleepHolds == Spec => []NoSleepOverTasks
<1>1. IInv => NoSleepOverTasks
  BY DEF IInv, WillBeWoken, NoSleepOverTasks
<1> QED
  BY <1>1, DispatcherInvariant, PTL
-----------------------------------------------------------------------------
(***************************************************************************)
(* Whatever the interleaving of the posters, callbacks that pump, and      *)
(* Shutdown, the tasks executed so far are the first ones submitted, each  *)
(* once and in the order of submission.                                    *)
(***************************************************************************)
ExecutedInOrder == Len(executed) <= submitted /\ \A i \in 1..Len(executed) : executed[i] = i

THEOREM TasksInOrder == Spec => []ExecutedInOrder
<1>1. IInv => ExecutedInOrder
  <2> SUFFICES ASSUME IInv PROVE ExecutedInOrder
    OBVIOUS
  <2>1. executed \in Seq(Nat) /\ InHand \in Seq(Nat) /\ queue \in Seq(Nat)
    BY DEF IInv, TypeOK, InHand
  <2>2. InHand \o queue \in Seq(Nat)
    BY <2>1, ConcatProperties
  <2>3. /\ Len(executed \o (InHand \o queue)) = Len(executed) + Len(InHand \o queue)
        /\ \A i \in 1..Len(executed) : (executed \o (InHand \o queue))[i] = executed[i]
    BY <2>1, <2>2
  <2> QED
    BY <2>1, <2>2, <2>3 DEF IInv, InOrder, ExecutedInOrder
<1> QED
  BY <1>1, DispatcherInvariant, PTL

(***************************************************************************)
(* When the waits for the thread last as long as it takes, FinalRelease    *)
(* and a failed Start return only when the thread is gone, and then every  *)
(* task that was ever posted has been executed: Shutdown drops none.       *)
(***************************************************************************)
THEOREM ShutdownDropsNothing ==
  ASSUME WaitMayTimeOut = FALSE
  PROVE  Spec => []ReleasedMeansDone
<1> DEFINE Gone == client = "released" => ThreadGone
<1>1. Init => Gone
  BY DEF Init
<1>2. IInv /\ Gone /\ [Next]_vars => Gone'
  <2> SUFFICES ASSUME IInv, Gone, [Next]_vars PROVE Gone'
    OBVIOUS
  <2> USE DEF ThreadGone, threadVars, posterVars
  <2>1. CASE Start \/ FinalRelease \/ Release
    BY <2>1 DEF IInv, ThreadLifetime, Start, FinalRelease, Release, StartSucceeds, StartFails,
       AbandonThread, Shutdown, PostQuit, QuitStarted, WaitForThread, JoinReceiver
  <2>2. CASE ThreadProc \/ CallbackPumps
    BY <2>2 DEF ThreadProc, ThreadStarts, CheckRunning, GetMessage, TakeTask, Execute,
       CallbackPumps
  <2>3. CASE \E p \in Posters : BeginPost(p) \/ Post(p)
    BY <2>3 DEF BeginPost, Post, Push, WakeThread
  <2>4. CASE UNCHANGED vars
    BY <2>4 DEF vars
  <2> QED
    BY <2>1, <2>2, <2>3, <2>4 DEF Next, Released
<1>3. IInv /\ Gone => ReleasedMeansDone
  <2> SUFFICES ASSUME IInv, Gone, client = "released"
               PROVE  ThreadGone /\ queue = <<>> /\ Len(executed) = submitted
    BY DEF ReleasedMeansDone
  <2>1. executed \in Seq(Nat) /\ queue \in Seq(Nat) /\ InHand = <<>>
    BY DEF IInv, TypeOK, InHand, ThreadGone
  <2>2. Len(executed) + Len(queue) = submitted
    BY <2>1 DEF IInv, InOrder
  <2>3. submitted = 0 \/ queue = <<>>
    BY DEF IInv, ThreadLifetime, ThreadGone
  <2> QED
    BY <2>1, <2>2, <2>3
<1> QED
  BY <1>1, <1>2, <1>3, DispatcherInvariant, PTL DEF Spec
-----------------------------------------------------------------------------
(***************************************************************************)
(* The dispatcher is a TaskExecutor, step by step: it starts as one, and   *)
(* each of its steps submits a task, executes the oldest, closes with none *)
(* left, or changes nothing the executor shows.                            *)
(***************************************************************************)
THEOREM StepsOfAnExecutor == Spec => Executor!Init /\ [][Executor!Next]_(Executor!vars)
<1>1. Init => Executor!Init
  BY DEF Init, InHand, Executor!Init
<1>2. IInv /\ [Next]_vars => [Executor!Next]_(Executor!vars)
  <2> SUFFICES ASSUME IInv, [Next]_vars PROVE [Executor!Next]_(Executor!vars)
    OBVIOUS
  <2> DEFINE Pending == InHand \o queue
  <2>0. executed \in Seq(Nat) /\ InHand \in Seq(Nat) /\ queue \in Seq(Nat)
    BY DEF IInv, TypeOK, InHand
  <2>1. ASSUME Pending' = Pending, UNCHANGED <<executed, thread # "ended">>
        PROVE  [Executor!Next]_(Executor!vars)
    BY <2>1 DEF Executor!vars
  <2>2. ASSUME UNCHANGED <<executed, queue, task, thread>> PROVE [Executor!Next]_(Executor!vars)
    BY <2>1, <2>2 DEF InHand
  <2>3. ASSUME UNCHANGED <<executed, queue, task>>,
               thread \notin {"execute", "ended"}, thread' \notin {"execute", "ended"}
        PROVE  [Executor!Next]_(Executor!vars)
    <3>1. InHand' = InHand /\ (thread # "ended")' = (thread # "ended")
      BY <2>3 DEF InHand
    <3> QED BY <2>1, <2>3, <3>1
  <2>4. CASE TakeTask
    <3>1. /\ InHand = <<>> /\ thread = "drain" /\ Pending = queue
          /\ UNCHANGED executed
      BY <2>0, <2>4, ConcatEmptySeq DEF TakeTask, InHand
    <3>2. CASE queue # <<>>
      <4>1. InHand' = <<Head(queue)>> /\ queue' = Tail(queue) /\ thread' = "execute"
        BY <2>4, <3>2 DEF TakeTask, Continues, InHand
      <4>2. Pending' = Pending
        BY <2>0, <3>1, <3>2, <4>1
      <4> QED BY <2>1, <3>1, <4>1, <4>2
    <3>3. CASE queue = <<>> /\ last
      <4>1. Pending = <<>> /\ thread' = "ended" /\ queue' = queue /\ InHand' = <<>>
        BY <2>4, <3>1, <3>3 DEF TakeTask, Continues, AfterDrain, InHand
      <4>2. Executor!Close
        BY <3>1, <3>3, <4>1 DEF Executor!Close
      <4> QED BY <4>2 DEF Executor!Next
    <3>4. CASE queue = <<>> /\ ~last
      BY <2>3, <2>4, <3>1, <3>4 DEF TakeTask, Continues, AfterDrain
    <3> QED BY <3>2, <3>3, <3>4
  <2>5. CASE Execute
    <3>1. /\ InHand = <<task>> /\ InHand' = <<>> /\ UNCHANGED queue
          /\ thread = "execute" /\ thread' = "drain" /\ executed' = Append(executed, task)
      BY <2>5 DEF Execute, InHand
    <3>2. Pending # <<>> /\ Head(Pending) = task /\ Tail(Pending) = queue /\ Pending' = queue
      BY <2>0, <3>1, ConcatEmptySeq DEF IInv, TypeOK
    <3>3. Executor!Execute
      BY <3>1, <3>2 DEF Executor!Execute
    <3> QED BY <3>3 DEF Executor!Next
  <2>6. ASSUME NEW p \in Posters, Push(p) PROVE [Executor!Next]_(Executor!vars)
    <3>1. thread # "ended"
      BY <2>6 DEF Push, IInv, ServesItsPosters, Serving, ThreadLifetime
    <3>2. submitted + 1 \in 1..MaxTasks
      <4>1. p \in Pushing /\ IsFiniteSet(Pushing)
        BY <2>6, FS_Subset DEF Push, Pushing
      <4>2. Cardinality(Pushing) \in Nat /\ Cardinality(Pushing) # 0
        BY <4>1, FS_EmptySet, FS_CardinalityType
      <4> QED BY <4>2 DEF IInv, WithinBound, TypeOK
    <3>3. /\ queue' = Append(queue, submitted + 1) /\ UNCHANGED <<executed, thread, InHand>>
      BY <2>6 DEF Push, Queued, threadVars, InHand
    <3>4. Pending' = Append(Pending, submitted + 1)
      BY <2>0, <3>2, <3>3
    <3>5. Executor!Submit(submitted + 1)
      BY <3>1, <3>3, <3>4 DEF Executor!Submit
    <3> QED BY <3>2, <3>5 DEF Executor!Next
  <2>7. CASE Start \/ ThreadStarts \/ CheckRunning \/ GetMessage
    BY <2>3, <2>7 DEF Start, ThreadStarts, CheckRunning, GetMessage, IInv, ThreadLifetime
  <2>8. CASE FinalRelease \/ StartSucceeds \/ StartFails \/ AbandonThread \/ Shutdown
              \/ PostQuit \/ QuitStarted \/ WaitForThread \/ CallbackPumps
    BY <2>2, <2>8 DEF FinalRelease, StartSucceeds, StartFails, AbandonThread, Shutdown, PostQuit,
       QuitStarted, WaitForThread, CallbackPumps, threadVars
  <2>9. ASSUME NEW p \in Posters, JoinReceiver(p) \/ BeginPost(p) \/ WakeThread(p)
        PROVE  [Executor!Next]_(Executor!vars)
    BY <2>2, <2>9 DEF JoinReceiver, BeginPost, WakeThread, threadVars
  <2>10. CASE UNCHANGED vars
    BY <2>2, <2>10 DEF vars, threadVars
  <2> QED
    BY <2>4, <2>5, <2>6, <2>7, <2>8, <2>9, <2>10 DEF Next, Release, ThreadProc, Post, Released
<1> QED
  BY <1>1, <1>2, DispatcherInvariant, PTL DEF Spec
=============================================================================
