# COM_Nostr in TLA+

COM_Nostr (`src/COM_Nostr_Native`) is a Nostr client for Windows packaged as an
in-process COM server. An application connects to relays over WebSockets, opens
subscriptions, publishes signed events and answers authentication challenges;
events and notices come back as COM callbacks on a thread of the library's own.
What is hard in it is the threads rather than the protocol: several of them
share the state of a relay session, and most of what the documentation promises
is an order between things that happen on different threads.

Abbreviations of source files below: **Client** is
`src/COM_Nostr_Native/src/com/NostrComClasses.cpp`, **WebSocket** is
`src/COM_Nostr_Native/src/runtime/WinHttpWebSocket.cpp`, **Dispatcher** is
`src/COM_Nostr_Native/src/runtime/ComCallbackDispatcher.cpp`, **Serializer** is
`src/COM_Nostr_Native/src/serialization/NostrJsonSerializer.cpp`, **Helpers** is
`src/COM_Nostr_Native/src/dto/ComValueHelpers.cpp`.

## 1. Inventory

### Threads

| thread | runs | started / ended by |
|---|---|---|
| application threads | every call of the COM interfaces | the application |
| receive thread, one per session | `RunReceiveLoop`, `HandleIncomingMessage` (Client:1074, 1015) | `StartReceiveLoop` in `ConnectRelay` / joined by `StopReceiveLoop` in `DisconnectRelay` and `FinalRelease` |
| thread-pool work item, one per socket | `WinHttpWebSocket::ReceiveLoop` (WebSocket:381) | `Connect` / drained by the socket's destructor |
| dispatcher thread, one per client | `ThreadProc`, `DrainQueue`: every posted callback (Dispatcher:144) | `Initialize` / `Shutdown` in `FinalRelease` |

The classes are registered `ThreadingModel = 'Apartment'`, so COM itself lets
one application thread in. The code is nevertheless written for several
(`CComMultiThreadModel`, locks on every path), and there are several: callbacks
are invoked with the application's raw interface pointers on the dispatcher's
apartment, and what a callback calls on the client then runs there, beside the
application's own thread. Where the models have two users, read "the
application thread and the dispatcher thread inside a callback".

### Components

| component | state | operations | talks to |
|---|---|---|---|
| Client registry, `CNostrClient` | `initialized_`, `disposed_`, `relaySessions_`, the dispatcher (all under `stateLock_`) | `Initialize`, `ConnectRelay`, `DisconnectRelay`, `FinalRelease`; `HasRelay`, `ListRelays`, `SetSigner` | owns sessions and the dispatcher |
| Relay link, `WinHttpWebSocket` and `RunReceiveLoop` | handles, `messageQueue_`, `messageEvent_`, `stopRequested_`; the session's `stopRequested`, `state` | `Connect`, `ReceiveLoop`, `EnqueueMessage`, `Receive`, `Close`, `Abort`, `ShutdownReceiveLoop` | WinHTTP below, `HandleIncomingMessage` above |
| Subscriptions, `SubscriptionEntry` and `CNostrSubscription` | `status`, `closeRequested`, `overflowClosed`, `eventQueue`, `dispatchInProgress` (under `subscriptionMutex`) | `OpenSubscription`, `UpdateFilters`, `Close`; `EVENT`, `EOSE`, `CLOSED`, `NOTICE` from the relay; the drain task | posts to the dispatcher |
| Requests, `PublishEvent`, `RespondAuth`, `WaitForOkResult` | the last OK and its version (under `lastOkMutex`), `pendingAuthChallenge` (under `authMutex`) | the two calls; `OK` and `AUTH` from the relay | condition variable between receive thread and callers; posts `OnAuthRequired` |
| Callback dispatcher, `ComCallbackDispatcher` | `running_`, `queue_`, the thread's message queue | `Start`, `Post`, `Shutdown`, `ThreadProc`, `DrainQueue` | receive threads post, the application is called |
| JSON serializer | none | parse and build relay messages | called by all of the above |
| DTO objects, VARIANT helpers | property bags under an object lock | getters and setters | made by the serializer and the application |
| NIP-11 client, `NativeHttpClient` | none | one synchronous HTTP request per `ConnectRelay` | WinHTTP |
| Options and resource factories | immutable after `Initialize` | normalisation, getters, factories | read by both transports and every wait |
| Session object, `CNostrRelaySession` | a weak reference to the session's data | `Url`, `GetDescriptor`, `SupportedNips`, ...; the rest returns `E_NOTIMPL` | outlives its session |
| Signer, registration, generated proxies | see `PROJECT.json` | | |

### What makes each component correct

* **Client registry** - no session, thread or dispatcher is lost or used after
  it was destroyed, whichever calls overlap.
* **Relay link** - messages are put together whole and in order, no frame is lost or
  handed out twice; the receive thread is woken for each message and never for none;
  a teardown ends, with both threads gone before the handles; a broken connection is
  reported.
* **Subscriptions** - events are delivered in order, once, within the queue
  limit; none is stranded; `OnEOSE` and `OnClosed` are not called ahead of the
  events before them, and nothing but what the options allow is lost; the status a
  callback sees fits the callback; Closed is final; `Close` sends CLOSE once and can be
  repeated when it failed.
* **Requests** - a call returns only the relay's answer to its own event, made
  while it was waiting; every call returns, an answer ends its call; an accepted
  challenge is gone.
* **Dispatcher** - every task is executed once, in order, one at a time; the
  thread does not sleep over a task; the thread is gone and no task left when the
  object is destroyed.
* **Serializer and objects** - a message is understood as the relay meant it, or
  not at all; an event keeps what its id covers from the message to the object
  and back; what is signed is what is sent; an answer to a challenge names that
  challenge and this relay; a filter is not widened, neither in silence nor by a
  bound that says something else.
* **Options, URLs, NIP-11, session object** - a wait is as long as the
  application asked, or as its type allows, and for ever only where section 4 says; both
  transports reach the relay its URL names, which has one session under all
  spellings of that URL; a session object speaks of the session it was made for.

### What is hard

Steps of the receive thread between two steps of a drain or of a call
(`subscriptionMutex` is left and entered again in nearly every operation); two
queues (tasks and window messages) that need not agree; a manual-reset event
beside a queue; results stored in one slot for all callers; values read, used
after a call to the signer and written back; sends and posts that fail half
way; sessions taken down under posted tasks; timeouts that give up on a thread.
`PROJECT.json` lists these as hazards, each at its line, with the properties
that watch it or the reason why none does.

## 2. Modules

| module | models | composition |
|---|---|---|
| `RelayLink` | one connection: WinHTTP and relay as environment, the work item, the receive thread, `ConnectRelay` and `DisconnectRelay` on a client thread | |
| `RelaySubscriptions` | the subscriptions of a session: application threads, receive thread, dispatcher | takes the link as the FIFO `inbox`, the dispatcher as the FIFO `tasks`; implements `SubscriptionStream` |
| `SubscriptionStream` | the abstract promise: what an application's callbacks are told, in which order, and what may be lost | what an application relies on |
| `RelayRequests` | `PublishEvent` and `RespondAuth` with the OK slot and the challenge store | takes the link as its receive step |
| `CallbackDispatcher` | the dispatcher's thread, task queue and message queue | implements `TaskExecutor` |
| `TaskExecutor` | the abstract promise: submitted tasks are executed once, in order, before the executor closes | what `RelaySubscriptions` relies on |
| `ClientRegistry` | `CNostrClient`'s map, sockets, threads and dispatcher | sessions are opaque |
| `RelayMessages` | the serializer's JSON side: EVENT and REQ messages, the readers of every message | operators only |
| `ComObjects` | VARIANTs, safe arrays, `NostrEvent` and `NostrFilter`, the serializer's COM side, the id and the draft | extends `RelayMessages` |
| `RelaySetup` | options, relay URLs, the NIP-11 request, `ConnectRelay`'s data, the session object | extends `ComObjects` |
| `RelayExchange` | what a relay's message, the application's event, its answer to a challenge and its filters go through in a session that `RelaySetup` has set up | extends `RelaySetup` |
| `MCRelayExchange` | a small world of options, URLs, documents, messages, events, filters and texts | for TLC |
| `MCRelayLink`, `MCRelaySubscriptions` | result codes, properties that read the whole history, the refinement mapping | for TLC |
| `RelayLink_proofs`, `RelaySubscriptions_proofs`, `RelayRequests_proofs`, `CallbackDispatcher_proofs`, `ClientRegistry_proofs` | the theorems of these modules, and the steps of `TaskExecutor` that `CallbackDispatcher` takes | for TLAPS |
| `MCRelaySubscriptions_proofs` | that a `Close` which failed can be repeated (`FailedCloseMayBeRepeated`) | for TLAPS |
| `SubscriptionStream_proofs` | that `RelaySubscriptions` implements `SubscriptionStream` | for TLAPS |
| `RelayExchange_proofs` | the theorems of `RelaySetup` and `RelayExchange` | for TLAPS |

**Granularity.** A section under a lock is one step; so are one send, one
`Post` (in `CallbackDispatcher`: its push and its `PostThreadMessage` apart), one
callback, one look at an atomic flag. Between two steps every other thread may
run. Variables have the names of the members they model; `map` in
`PROJECT.json` gives the lines of every definition.

**RelayLink.** `ReceiveLoop` is `WorkStarts`, `WorkChecksStop`, `WorkReceives`
or `WorkReceiveErrs`, `WorkEnqueues`; `RunReceiveLoop` with `Receive` is
`ReaderChecksStop`, `ReaderSignalled` or `ReaderTimesOut` (the wait),
`ReaderTakes` (the part under `queueMutex_`, and what the loop does with the
result), `ReaderExits`. The client goes through `Connect`, `StartReceiveLoop`,
`StopReceiveLoop`, `AbortCloses`, `AbortSetsStop`, `JoinReader`, `Close`,
`Shutdown`, `ShutdownDrains`, in the order of `DisconnectRelay` and the
destructor. Result codes are integers, since `ReceiveLoop` tests with `FAILED`
what WinHTTP returns (WebSocket:397): a negative code is a failure, a positive
one, such as ERROR_WINHTTP_TIMEOUT, is not, and the loop goes on with a message of
no bytes. A frame carries its number, a message its frames.

**RelaySubscriptions.** The receive thread's place is `stage`: `HandleIncomingMessage`
takes a message and goes to `EnqueueEvent` (then `ScheduleDrain`, and
`UnscheduleDrain` when `Post` failed), or to `DispatchEndOfStoredEvents`, or to
`DispatchClosed` and `ForgetCloseRequest`, and ends with `PostCallback`. An
overflow goes on to `DispatchClosed`, as in the code. The dispatcher takes a
task (`TakeTask`); a drain alternates `PopEvent` and `Invoke`. A call is
`Begin...`, `SendRequest` or `SendClose`, and the section after the send
(`EraseEntry`, `SetPending`, `RestoreStatus`). A send fails (`SendMayFail`), or
reports a success: then the message is on its way, or WinHTTP returned a Win32 code,
which `FAILED` does not recognize (WebSocket:516), and the relay gets nothing
(`SendMayBeLost`, `MayArrive`). `StopReceiveLoop` and `ReleaseSession` are
`DisconnectRelay`.

**SubscriptionStream** knows nothing of locks, tasks or flags. A message arrives,
waits, and is told; it says what may overtake what, and lists the three ways in
which a message may be lost: a full queue gives up its oldest event or closes the
subscription, a closed subscription gets no more events, and a session that goes
may leave waiting events untold. `MCRelaySubscriptions` maps `RelaySubscriptions`
to it: a message is *arriving* while the receive thread handles it, is *waiting* in
`eventQueue` or in the task posted for it, and is *being told* by the callback the
dispatcher is in. `ImplementsStream` is that every behaviour of the code's model is
one of the promise. Where the mapping is not obvious is `DisconnectRelay`: once the
session is gone only a drain that is already running finds the queue.

**RelayRequests.** `at` is the place of a caller: for `RespondAuth` first
`ReadChallenge` (the tag of the event, if it `GivesTag`, or what is pending) and
`RewriteChallenge`; then for both `SigningFails` or
`TakeVersion`, `Send`, and the loop of `WaitForOkResult`: `CheckAnswer`,
`CheckStop`, `Block`, `Wake`. The lock is held from `CheckAnswer` to `Block`
(`LastOkMutexFree`). `DispatchOkMessage` stores under the lock, `NotifyOk`
notifies after it.

**CallbackDispatcher.** `messages` is the thread's Windows message queue with
its limit: `PostThreadMessage` fails when it is full (`MessagePosted`), and
`CallbackPumps` lets a callback's own message loop take messages, `WM_QUIT`
included. `Post` is `BeginPost`, `Push`, `WakeThread`. A `Start` that fails
(`StartFails`) waits for its thread, quits it (`QuitStarted`) and joins it or, when
that wait times out too, leaves it behind (`AbandonThread`), as `Shutdown` does with
`WaitMayTimeOut`.

**ClientRegistry.** A session is numbered by the socket it was made for.
`Careful` says whether the application avoids to disconnect a relay while
another call uses its session.

**RelaySetup.** `Initialize` normalises the options; `Settings` is what both
transports give to WinHTTP, `ResolveReceiveTimeoutMilliseconds` and
`ResolveOkWaitTimeoutMilliseconds` are the waits. A URL is a record of its parts;
`NormalizeRelayUrl` makes the key of the registry, `ParseUrl` and `InformationUrl`
are the WebSocket's and the HTTP client's own parsers, all through `Crack`
(`WinHttpCrackUrl`). `ConnectRelay` asks for the NIP-11 document
(`RelayInformation`: status, content type, chunks of a body, JSON) and registers the
session's data; `Locked` is the weak reference of the session object. The calls
follow each other here; `ClientRegistry` has them overlap.

**RelayExchange.** One step is one whole conversion: `HandleIncomingMessage`
reads a message (`Deserialized` is the choice of a reader and the reader), makes the
object of an event and notes a challenge; `PublishEvent` reads the object, completes
it (`WithKey`, `WithSignature`), writes it back and sends it; `RespondAuth` finds the
challenge (`ChallengeValue`), checks it (`MayAnswer`) and puts it with the relay's
URL into the tags (`AuthEvent`); `OpenSubscription` and `UpdateFilters` read an array
of filters, the first also the options of the subscription, and send a REQ, the
second with its window (`WithWindow`). A JSON value and a VARIANT are records whose
field names their kind, a text is opaque except for what `Utf8`, `CStr`,
`TextNumber`, `TextDate` and `Lower` make of it, a double is counted in halves so
that rounding and truncation differ. A reader that throws is a predicate that is
false (`IsEvent`, `IsOk`, ...). The application is the environment: it changes its
event, clears the signature, prepares events for a challenge, passes filters of the
library's class or of its own in arrays of objects or of VARIANTs.

## 3. Runs

| run | instance | question | properties |
|---|---|---|---|
| `RelayLinkMessages` | 3 frames, 1 fault before a stop, codes of either kind | order of the frames, delivery, wake-ups, teardown | `TypeOK`, `WakesToAMessage`, `ThreadsGoneBeforeRelease`, `FramesInOrder`, `StopReturns`, `Delivered` |
| `RelayLinkLoss` | 1 frame, 1 fault | *violated:* is a broken connection reported? | `LossIsReported` |
| `RelayLinkTimeouts` | 2 frames, 1 fault, codes of either kind | *violated:* is a message handed on whole? | `MessagesWhole` |
| `SubscriptionsUnlimited` | 2 subscriptions, 3 messages, 2 calls, no limit, updates | one drain each; nothing stranded; the stream of callbacks | `TypeOK`, `NoStrandedEvents`, `OneDrain`, `ImplementsStream` |
| `SubscriptionsDropOldest` | 1 subscription, 2 users, queue of 2, 5 messages, 3 calls | the stream with dropped events, status, one CLOSE, a queue that drains | `StatusSeenByCallback`, `ImplementsStream`, `ClosedIsFinal`, `QueueDrains` |
| `SubscriptionsFailures` | 1 subscription, 2 users, queue of 1 that closes, failing and lost sends, failing posts, 4 messages, 3 calls | the stream under overflow and partial failures; `Close` after a failure | `FailedCloseMayBeRepeated`, `ImplementsStream` |
| `RequestsAnswers` | 2 callers, one of which may authenticate, 2 events, 2 calls, 2 challenges, answers in any order, deadlines | whose answer does a call return, and does it return? lost notifications; challenge reuse | `TypeOK`, `AnswerIsOwnAndFresh`, `NoSleepOverAnswer`, `UsedChallengeGone`, `CallsReturn` |
| `RequestsOverwritten` | 2 callers, no deadline | *violated:* does an answer end its call? | `AnswerEndsCall` |
| `DispatcherShutdown` | 2 posters, 4 tasks, message queue of 2 | wake-ups, shutdown, refinement of `TaskExecutor` | `TypeOK`, `NoSleepOverTasks`, `ReleasedMeansDone`, `ReleaseEnds`, `ImplementsExecutor` |
| `RegistryCareful` | 2 threads, 2 relays, 3 sockets | leaks and dangling threads | `TypeOK`, `ForgottenIsDown`, `ThreadsAreServed`, `OneDispatcher` |
| `RegistryOverlap` | 2 threads, 1 relay, 1 socket | *violated:* does `FinalRelease` stop every thread? | `ReleaseStopsThreads` |
| `ExchangeConversions` | the world of `MCRelayExchange`: every way to write a timeout or a URL, 10 answers to the NIP-11 request, 20 messages in every form and garbled, 4 events and 7 that answer a challenge, 11 lists of filters, 17 sets of subscription options, a signer with two signatures | does a conversion lose or add anything? | `TypeOK`, `WaitsAsAsked`, `ReachesRelayMeant`, `SessionAsAnnounced`, `ReadAsMeant`, `EventKeptWhole`, `SignatureCoversSent`, `SameMessageAgain`, `AuthAnswersChallenge`, `RequestAsAsked` |

Every property of a passing run has a mutant in `PROJECT.json`: a plausible bug
in a mapped definition which makes that run fail.

**Why the bounds are enough.**

* *Link.* Three frames give a fragment, a control frame and a final frame, and
  two messages queued with a third on its way; the event and the queue disagree,
  if at all, with one message in the queue and one being added. A fault before the
  stop is a timeout or an error of either kind between any two of the frames, and an
  unrecognized one repeats the state it came in; faults after the stop are not
  counted. There is one payload type in the run, the types only matter to `TypeOK`,
  which is proved for any.
* *Subscriptions.* A drain, an event being queued and one more event make every
  interleaving of `dispatchInProgress`; an event, EOSE and CLOSED (or a second
  event) make every order of the two paths to the dispatcher, with two subscriptions
  that share them; five messages overfill a queue of two
  while one event is in the dispatcher's hand, and leave room for EOSE or
  CLOSED. Two users are needed for two `Close` at once. Subscriptions share only
  the threads and the task queue, so two of them show all their interference.
* *Requests.* Interference over the slot needs two callers, a late answer needs
  two calls of the same caller; answers are to two events. One of the callers may
  authenticate, which covers both kinds of call beside each other; two that
  authenticate are among the divergences. A challenge has to be replaced once while
  it is being answered.
* *Dispatcher.* A message queue of two is full with two posters; the fourth task
  is posted after it was. *Registry.* One relay that is connected twice at once
  and one more; three sockets.
* *Exchange.* Conversions treat the elements of a list alike, so lists of up to
  three with an empty one, an empty text and a text with a NUL show what they do;
  numbers are whole and fractional, negative, and one beyond `IntMax`; a draft's time
  is a whole second or half a second past one. Widths are
  scaled down: `IntMax` is 3, `DwordMax` 7, `MaxTimeout` 40 half seconds, so that a
  timeout may fit both types, one, or none. An event is published any number of
  times; one that is signed twice can differ, since the signer has two signatures of
  a hash. Two sessions, one after the other or beside each other, are enough for a
  relay connected again. Cases that do not influence each other are kept apart by
  the guards named as bounds: filters are asked for while no event is held (`Idle`),
  a session authenticates before it subscribes (`MeaningsNow`), messages pass in one
  session with plain options, one relay that may be written to and read from and one
  that may not (`Talks`), under subscription options that only set a window
  (`Used`); a garbled message comes while no event
  is held and nothing was asked for or read in the step before (`RelayGarbles`).

`CHECK_DEADLOCK FALSE` stands in `RequestsOverwritten`, where without a deadline a
caller may wait for a relay that never answers, and in `ExchangeConversions`, where
nothing can happen once the bounded number of sessions has been disconnected.

**Fairness.** Weak fairness of each thread's own steps: the operating system
schedules them, callbacks return and sends complete. In `RelayLink` the frames on
the wire are handed out, and a transport that is lost or closed lets a blocked
receive return with an error (that is WinHTTP's contract, and what the destructor's
wait relies on); WinHTTP's own timeouts, the relay and the network owe nothing. A
call that has begun goes on; no call has to be made, no message has to be sent. In
`RelayRequests` the receive thread looks at its flag and a receive returns, with
nothing at the latest (`RunReceiveLoop` waits with a timeout); neither that the
relay answers nor that a receive fails is assumed, so that `CallsReturn` rests on
the deadline alone. There is no strong fairness, and none at all in `ClientRegistry`,
whose properties are invariants.

## 4. Findings

Each is a run that TLC finds violated; `PROJECT.json` quotes the documentation
that is contradicted.

* `RelayLinkLoss` - when `WinHttpWebSocketReceive` fails, `ReceiveLoop` ends and
  tells nobody (WebSocket:404). The session stays Connected for ever; the theorem
  `NeverFaulted` says that no state of the model is Faulted at all.
* `RelayLinkTimeouts` - a Win32 code such as 12002 is not `FAILED` (WebSocket:397), and
  the loop goes on with what the call left in its variables: a timeout between two
  frames hands the first half to the session as a whole message, and an error repeats
  as empty messages. What holds for any codes is `FramesInOrder`: nothing is lost,
  doubled or out of order.
* `RequestsOverwritten` - one slot for the last OK (Client:1002): two answers in
  quick succession lose the first, whose caller waits out its deadline.
* `RegistryOverlap` - `ConnectRelay` starts the receive thread after it has
  registered the session and left the lock (Client:1967): a `DisconnectRelay` in
  between leaves a thread that nothing stops.

Divergences met while modelling that have no run of their own. The models
behave as the code does, so that a run with the property one would want fails:

* EOSE sets Active whatever the status was (Client:797): after `Close` it moves
  Draining back to Active, after an overflow Closed to Active. README.md:151
  gives the order Pending, Active, Draining, Closed. (`ClosedIsFinal` holds
  without overflow, updates and failing sends.)
* WinHTTP returns Win32 codes, which `FAILED` does not recognize, for sends as for
  receives (WebSocket:516): `Close` returns S_OK for a CLOSE that was not sent, and
  `closeRequested` makes every later `Close` return at once while the relay serves on
  (README.md:87 says that `Close` sends CLOSE). Only a send that is reported as failed
  can be repeated, which is `FailedCloseMayBeRepeated`. A REQ or EVENT is taken for sent
  in the same way: the subscription stays Pending, the publisher waits out its deadline.
* `UpdateFilters` after `Close` asks the relay again and leaves `closeRequested` alone
  (Client:3199): the renewed request cannot be closed (README.md:153).
* A `Close` whose send fails restores the status it had read (Client:3264), over
  a CLOSED received meanwhile: the subscription is Active again.
* A receive timeout of 2^32 - 1 milliseconds or more resolves to `INFINITE`
  (Client:657), although README.md:60 calls it a number of seconds; exactly these do,
  says `WaitsAsAsked`. `Abort` does not signal `messageEvent_`, so that the join of
  `StopReceiveLoop` then waits for ever. The constant `WaitForever` of `RelayLink`
  models it; `StopReturns` is checked without it.
* `Shutdown` may time out on a long callback (Dispatcher:96), and `FinalRelease` then
  destroys the dispatcher over its thread and its tasks; docs/phase0_design.md:43 says
  that callbacks are drained first. `WaitMayTimeOut` models it; `ReleasedMeansDone` is
  checked without it.
* The id covers created_at rounded to a second (Client:1332), the message has it as it
  is: of an event within a second, a relay computes another id than it finds.
  README.md:171 says that the rounding avoids this. `SignatureCoversSent` is therefore
  about whole seconds.
* A since, until or limit that cannot be read as a number, or is a date before 1970,
  is left out without notice (Helpers:610, 632): the filter is wider than asked for,
  where README.md:131 has `E_INVALIDARG`. One of zero or less is sent (Helpers:618),
  where docs/native_port_overview.md:31 makes it absent. `RequestAsAsked` is therefore
  about numbers, as they are, and later dates.
* `UpdateFilters` after an overflow asks the relay again, the status becomes
  Pending and then Active, and every event is dropped, because `overflowClosed`
  is never reset (Client:3205; ImplementationPlan.md:43 says that the queue is
  initialised again).
* `UpdateFilters` writes Pending after its send (Client:3209), over an EOSE that
  came meanwhile.
* A drain delivers events received after an EOSE before `OnEOSE` (Client:445);
  docs/phase0_design.md:42 says that the order of calls is kept. `SubscriptionStream`
  allows this (`MayOvertake`), and never the other way round.
* `DisconnectRelay` drops queued events, for which docs/phase0_design.md:43
  promises a drain: drain tasks hold weak references (Client:439).
  `SubscriptionStream` allows it (`Abandon`).
* KeepAlive of a subscription's options is read and kept (Client:191), and nothing
  looks at it.
* `RespondAuth` writes its copy of the challenge back over a newer one
  (Client:2585), clears whatever is stored after a success (Client:2653), and
  with two callers brings an accepted challenge back (README.md:157, 160). It
  calls `OnAuthSucceeded` and `OnAuthFailed` on the caller's thread beside the
  dispatcher's callbacks (Client:2663, README.md:65).
* Without a pending challenge `RespondAuth` answers whatever challenge the event's
  own tag names, one already accepted included (Client:2527): `UsedChallengeGone`
  fails with `GivesTag`.
* `StopReceiveLoop` notifies without the lock (Client:1159), and a receive thread
  that ends by itself notifies nobody (Client:1109): a waiter may miss it and wait
  out its deadline. `CallsReturn` holds because of the deadline only.
* `DisconnectRelay` resets the socket pointer without a lock (Client:2016) which
  other calls use after a check, and so may use a pointer that is gone. `Careful`
  assumes this race away: the properties of `RegistryCareful` hold for applications
  that disconnect no relay under a call, and no run shows the race itself.
* `ReadFiltersFromSafeArray` reads every element into a VARIANT (Serializer:1023,
  1113). An array of object pointers, which COMNostrNative.idl:325 declares and
  which `CNostrFilter::get_Tags` makes, is refused; only arrays of VARIANTs pass.
  A filter of the library's own class with tag queries is refused in any array.
* `PublishEvent` signs an event only if its id, signature or key is empty
  (Client:2294): one that was received or sent and then changed goes out with
  its old id and signature. An event that has a key keeps it and is signed with the
  signer's (`WithKey`): for another key the library's signer fails (README.md:105),
  another signer may give a signature that does not fit the key.
* A challenge with a NUL is sent whole and signed up to the NUL; one that the
  application copies out of the AuthChallenge object has lost the rest, and is
  refused as another challenge (Client:2534).
* User and password of a URL are dropped, and
  `wss://h?x` and `wss://h/?x` are two relays (Client:79), so that two sessions go to
  one place. A VARIANT_BOOL of 1 in a descriptor made by another class would be false
  (only the library's own class, which stores -1 or 0, gets that far).
* A NIP-11 request that is refused or fails, or whose content type has a parameter
  such as charset (NativeHttpClient.cpp:341), makes `ConnectRelay` fail although the
  relay would serve; README.md:111 and 130 name `E_NOSTR_WEBSOCKET_ERROR`
  for it; the code returns a Win32 code or E_INVALIDARG. NIP numbers wrap to int.
* The longest timeout that passes the check is, as a double, 2^63 milliseconds, which
  `llround` cannot represent (Client:38, 1808).
* Two tag queries with one label are sent as the second of them, and a label
  without '#' may overwrite another part of the filter (Serializer:257).
* created_at, since and until are sent as JSON floats (Serializer:191, 234);
  docs/native_port_overview.md shows integers.
* A time in a text that begins with a number is taken for that number
  (Serializer:138): "2024-05-01" is second 2024 of the epoch.
* Texts are copied as null-terminated strings (Serializer:1220, Client:1281,
  Helpers:177): an event received with a NUL in it reaches the application
  without the rest, and no longer matches its id. A `NostrEvent` never holds a
  NUL; an event object of the application's own that does is signed without it,
  while its id and its message have it.
* Documented but not implemented, and not modelled: KeepAlive = false
  (README.md:70, 86), the graceful wait of `DisconnectRelay` (README.md:68),
  the session object's methods that return `E_NOTIMPL`.

## 5. Proofs

TLC checks one small instance of each module; `tlapm` checks the theorems below for
every value of the constants. Every invariant of a passing run, and every property of
one that is not liveness, is stated by a theorem (`PROJECT.json` has the list).

**Assumptions.** Named, in the module that declares the constants; TLC evaluates them
in every run.

* `LinkAssumption`, `SubscriptionsAssumption`, `DispatcherAssumption`,
  `RegistryAssumption` and `RequestsAssumption` of `RelayRequests`: a set from which an
  initial value is chosen is not empty, threads that are counted are finitely many,
  bounds are naturals, choices are Booleans, result codes are non-zero integers.
* `MessagesAssumption`: the names of a filter's own properties are not labels of tag
  queries. `SetupAssumption`, `TimesAssumption`, `UrlsAssumption`,
  `UrlTextsAssumption`, `DocumentsAssumption`: a value reads as at most one number; a
  URL has its parts, at most one port, and a host that lower case leaves alone the
  second time; what is parsed of a NIP-11 document is what the relay put into it, whole.
* `WorldAssumption` and `RequestsAssumption` of `RelayExchange`: messages, events and
  filters have the fields of the structures they are read into, texts and numbers where
  these have them, a kind in the range of int, whole half seconds in a date; a limit
  and a queue length are not dates. A relay's challenge is not empty, and its
  texts, and those of the tags an application prepares for a challenge, can be written
  in UTF-8: a lone surrogate in such a tag would be replaced on the way.

**Conditions.** A theorem that needs more says so in its ASSUME. Each is a choice of
the model that the code really leaves open; without it the property fails, except that
`ConversionsAreSound` says what conversions are.

| condition | meaning | theorems |
|---|---|---|
| `PostMayFail = FALSE` | `Post` does not fail after it has queued its task | `OneDrainHolds` |
| `Throws`, `MayUpdate`, `SendMayFail = FALSE` | no overflow closes a subscription, no `UpdateFilters`, sends succeed | `StatusSeenHolds`, `ClosedStaysClosed` |
| `MayUpdate = FALSE` | no `UpdateFilters` | `FailedCloseMayBeRepeatedHolds` |
| `GivesTag = FALSE`, one caller that authenticates | the library fills in the challenge | `UsedChallengeGoneHolds` |
| `WaitMayTimeOut = FALSE` | `Shutdown`'s wait does not give up | `ShutdownDropsNothing` |
| `Careful = TRUE` | no relay is disconnected while another call uses its session | `ForgottenIsDownHolds`, `ThreadsAreServedHolds`, `ReleaseStopsThreadsHolds` |
| `ConversionsAreSound` | `CStr` and `Utf8` change a text once only, leave an empty one empty, and what UTF-8 can write it can write up to its NUL; ids, signatures and the signer's key are plain texts | all about events, answers and requests in `RelayExchange_proofs` |

Some properties carry such a limit in their own statement; section 4 says what the code
does behind it: `SignatureCoversSent` and `AuthAnswersChallenge` speak of ids of whole
seconds, `RequestAsAsked` of bounds that are numbers or dates since 1970,
`FailedCloseMayBeRepeated` of sends that are reported as failed. `FramesInOrder` has no
such limit: it holds for all codes a receive may return, but says nothing of where a
message ends, which `RelayLinkTimeouts` refutes.

**The arguments.** Hardly a property is inductive as it stands; each module proves an
invariant that is, one step per action.

* `RelayLink_proofs`. `IInv`: the wake-up event is set exactly while the queue is not
  empty, the receive thread runs only between `StartReceiveLoop` and the join, and a
  handle exists exactly between `Connect` and the release. Without it another step
  could empty the queue between the wait and the lock; it rules out the only one that
  empties it otherwise, `ShutdownDrains`. `ThreadsGoneBeforeRelease` and `NeverFaulted`
  follow. `FrameInv` is for `FramesInOrder`: the frames on the wire, those being
  put together, those of the queued messages and of the delivered ones are one ascending
  sequence (`WireInOrder`, `PutTogether`, `LineInOrder`), and none that came before a
  later one is missing from it (`NoneMissing`).
* `RelaySubscriptions_proofs`. `NoStrandedEvents` by `DrainInv`: a session that is not
  gone has a drain, running, posted or about to be posted, whenever there are events or
  the flag `dispatchInProgress` is set. `OneDrain` needs the converse, that the flag
  covers every drain (`OneDrainInv`). `StatusSeenByCallback` and `ClosedIsFinal` by
  `SInv`: a posted callback is preceded by the status it announces, the relay's CLOSED
  is the last word on a subscription, and at most one call has the CLOSE to send.
* `MCRelaySubscriptions_proofs`. `FailedCloseMayBeRepeated` by `PInv`: while the relay
  serves a subscription that has not overflowed, its status is not Closed, and
  `closeRequested` is owed to a CLOSE whose send was reported as a success, or to a
  `Close` that is under way, which will send CLOSE or take the flag back.
* `SubscriptionStream_proofs`. `RInv` puts the messages of a subscription into one
  order: in the inbox, in the receive thread's hand, in the queue or in a task, and in
  the callback (`InboxInOrder`, `HandlesNewest`, `WaitInOrder`), and a drain that is
  owed comes before a callback posted later (`DrainComesFirst`). Under it `StepMaps`
  shows of every step which one of the promise it is: a message taken `Arrives`; one
  queued or posted is `Accepted`, `Overflows` or is `Refused`; a callback begins or
  ends; the end of the session is `Abandon`; every other step leaves the stream as it
  is. `StreamImplemented` is the refinement for any number of subscriptions, threads
  and messages, and both overflow strategies.
* `RelayRequests_proofs`. `AnswerIsOwnAndFresh` by `AInv`: what the slot holds, if it
  answers the event of a caller that waits and is newer than the version the caller
  took, came during its call. `UsedChallengeGone` by `UInv`: the store, and the
  copy a call carries to write back, were issued and never forgotten.
  `NoSleepOverAnswer` by `WInv`: between its look and its wait a caller has seen the
  last OK, since it holds the lock.
* `CallbackDispatcher_proofs`. `NoSleepOverTasks` by `IInv`: for a thread that is about
  to sleep while a task is queued there is a message, or a poster about to send one
  (`WillBeWoken`); while there are posters nobody has told the thread to stop
  (`ServesItsPosters`), and one that has ended left no task (`ThreadLifetime`), from
  which follows `ReleasedMeansDone`. The numbers of the executed tasks, the one in hand
  and the queued ones are 1, 2, 3, ... (`InOrder`), from which follow `TasksInOrder` and
  `StepsOfAnExecutor`, the safety half of `ImplementsExecutor`.
* `ClientRegistry_proofs`. `CInv` counts the dispatchers against the callers inside
  `Initialize`. `SInv` says who holds a session: calls on a registered session share it,
  a call that has taken one out of the map has it alone (`CallsHoldSessions`), no session
  is registered twice, and socket and thread are as far as the call that works on them.
* `RelayExchange_proofs`, for `RelaySetup` and `RelayExchange`. `SetupInv`: the options
  are the normalised ones that were given, every session is registered under its
  normalised URL with the data of its descriptor and document, every object knows the
  session it was made for. `NormalizedIsMeant` carries the URLs: normalising keeps the
  place and what is normalised stays so. On it rest the three properties of the setup.
  `EventsInv`: every message sent is the event in the application's object, with nothing
  left to complete, so that a second `PublishEvent` has nothing to add. `KeptInv` adds
  that an event that came from a relay, without a NUL, is what the object holds.
  `AuthInv` follows the challenge from the AUTH message over the store into the tag;
  `RequestInv` the filters into the REQ, with the bounds by `NumberIsRead` and
  `LimitIsNearest`, which compare what the VARIANT readers give with the number or date a
  VARIANT holds. `ReadAsMeant` is proved by cases on the types
  of messages: `EncodedIsRead` (every form a relay may choose is read as meant) and
  `GarbledIsMessage` (what the readers accept of a garbled message is written as that
  message could have been).

**Only model-checked.** Liveness: `StopReturns`, `Delivered`, `QueueDrains`,
`CallsReturn`, `ReleaseEnds`, and of `ImplementsExecutor` that tasks are executed at
last. They rest on fairness and ENABLED, which the prover does not handle. The runs that find a violation have no theorem;
`NeverFaulted` and `ReleaseStopsThreadsHolds` state the two sides of two of them.

## 6. What is left out

* The relay answers a request in order and sends no EVENT with an empty id; OK
  messages with success = false produce the same notices as NOTICE.
* Conversions do not run out of memory. A drain skips an event whose conversion
  fails and goes on (Client:476).
* In `RelayExchange`: JSON syntax and UTF-8 themselves (a message is a JSON
  value; bytes that are not JSON are dropped like a message that no reader
  accepts); the application's events are `NostrEvent` objects; texts given as
  numbers hold whole numbers, a limit is not a date, labels are texts; filters
  and events are kept apart; every send succeeds, since what follows it is in
  `RelayRequests` and `RelaySubscriptions`. `SerializeClose` is one text;
  `ReadEventDraftFromDispatch` has no caller.
* In `RelaySetup`: text properties given as numbers; percent-encoding and the other
  syntax of a URL, of which `Crack` keeps the parts; user and password; a factory
  ProgID, which selects another WebSocket class outside the library.
* `SetSigner` (one assignment under the lock; the models have one signer, set before
  anything is signed), `NostrOkResult` (three texts and a flag that nothing reads
  back), `State` and `LastOkResult` of the session object (they return what
  `RelayLink` and `RelayRequests` have as `state` and `lastOk`).
* The last COM reference goes when no call is running, as COM requires, and not
  inside a callback; calls against teardown are `ClientRegistry`'s, not
  `RelaySubscriptions`'.
* Condition variables do not wake spuriously (a wake-up without notification
  only repeats `CheckAnswer`); waits on handles do not fail; memory and threads
  do not run out, except where `Start` and `Connect` may fail as a whole.
* Reference counts, HRESULT values, texts of notices, filters and events.
* Signer, registration, generated proxies, build scripts and the C# tests: no state
  that another component's steps interfere with. The signer is injected by the
  application.
* Three hazards have no property: the answers to a NIP-11 request that make
  `ConnectRelay` fail, the callbacks of `RespondAuth` that run beside the
  dispatcher's, and the socket pointer that is checked and used without a lock. The
  first two are not orders that could go wrong but what the code does every time; the
  third is what `Careful` assumes away. Section 4 lists them. Of the challenge that
  `RespondAuth` writes back, only the return of an accepted one is covered.

## 7. Plan

The plan is carried out:

1. Link, subscriptions, requests, dispatcher, registry, the exchange of data; first
   theorems.
2. The abstract stream of a subscription and its refinement; options, URLs, NIP-11,
   session objects; challenges, drafts and windows as data; that every call returns.
3. The step simulations of both abstract specifications; the invariants and the action
   property of the subscriptions, the requests, the dispatcher and the registry.
4. The invariants of the setup and of the exchange of data.

What could be added: runs in which two sessions share the dispatcher, and the signer
with a model of its own, if the library ever gives it state.
