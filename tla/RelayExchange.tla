---------------------------- MODULE RelayExchange ----------------------------
(***************************************************************************)
(* The data that passes between a relay and the application, in a session  *)
(* that RelaySetup has set up: a message of the relay is read and, if it   *)
(* is an event, becomes a NostrEvent; the application changes and          *)
(* publishes it, or one of its own; a challenge is answered; filters and   *)
(* options become a subscription and its REQ messages.  Queues and threads *)
(* are left to the other modules: here every message is handled when it    *)
(* comes, and every send succeeds.                                         *)
(***************************************************************************)
EXTENDS RelaySetup

CONSTANTS
  Sign(_, _),   \* a signature of a hash; signers may sign twice in different ways
  Nonces,       \* what makes two signatures of one hash differ
  SignerKey,    \* the public key of the application's signer
  Meanings,     \* messages of the relay
  Times,        \* the texts in which it names a time
  Drafts,       \* events the application creates
  AuthDrafts,   \* events it creates to answer a challenge
  Contents,     \* contents it gives an event
  kAuthKind,    \* 22242
  Now,          \* the time of the system's clock
  FilterLists,  \* lists of filters the application asks for
  SubscriptionOptions, \* what the properties of its subscription options hold
  Talks         \* bound: the options, descriptor and document of the sessions in which
                \* messages pass

VARIABLES
  frame,      \* history: the message of this step, and what the relay meant by it,
              \* unless it was garbled and nothing could be read in it
  read,       \* what the serializer reads in it
  lastEvent,  \* lastEventTimestamp, an option
  object,     \* the event object of the application, an option
  source,     \* history: the event as the relay meant it, until the object changes
  sent,       \* history: the EVENT messages of the object since it was last changed
  signed,     \* history: PublishEvent has signed the object as it is
  pending,    \* pendingAuthChallenge and pendingAuthExpiresAt, an option
  announced,  \* the AuthChallenge object shown to the application, an option
  answer,     \* history: the AUTH message of this step and what was pending before
  subscription, \* the options of the open subscription, an option
  asked,      \* history: the filters and options asked for in this step
  request     \* their REQ message, or {} if they are refused

frameVars  == <<frame, read>>
eventVars  == <<object, source, sent, signed>>
authVars   == <<pending, announced>>
filterVars == <<asked, request>>
exchangeVars == <<frameVars, lastEvent, eventVars, authVars, answer, subscription, filterVars>>
vars == <<setupVars, exchangeVars>>
-----------------------------------------------------------------------------
EventFields == {"id", "publicKey", "createdAt", "kind", "tags", "content", "signature"}

\* Tags are lists of texts.
TextsOf(tags) == UNION {Range(tags[i]) : i \in DOMAIN tags}
IsTextMatrix(tags) == tags \in Seq(Seq(TextsOf(tags))) /\ \A t \in TextsOf(tags) : IsUtf8(t)

MessageTypes == {"EVENT", "OK", "NOTICE", "EOSE", "CLOSED", "AUTH"}

MessageFields(type) ==
  {"type"} \union CASE type = "EVENT"  -> {"subscriptionId", "event"}
                     [] type = "OK"     -> {"eventId", "success", "message"}
                     [] type = "CLOSED" -> {"subscriptionId", "reason"}
                     [] type = "NOTICE" -> {"message"}
                     [] type = "EOSE"   -> {"subscriptionId"}
                     [] type = "AUTH"   -> {"challenge", "expiresAt"}

IsRecord(r, fields) == r = [p \in fields |-> r[p]]

IsGiven(t) == t # ""

\* The texts of a message but for those of an event's tags.
MessageTexts(r) ==
  CASE r.type = "EVENT"  -> r.subscriptionId \union {r.event.id, r.event.publicKey,
                                                     r.event.content, r.event.signature}
    [] r.type = "OK"     -> {r.eventId, r.message}
    [] r.type = "CLOSED" -> {r.subscriptionId, r.reason}
    [] r.type = "NOTICE" -> {r.message}
    [] r.type = "EOSE"   -> {r.subscriptionId}
    [] r.type = "AUTH"   -> {r.challenge}

\* What messages and events are made of.  The texts of a message, and those of an
\* event prepared for a challenge, can be written in UTF-8.
ASSUME WorldAssumption ==
  /\ kAuthKind \in 0..IntMax /\ Now \in Int
  /\ \A t \in MessageTypes \union {"relay", "challenge"} \union Times : IsUtf8(t)
  /\ \A r \in Meanings :
       /\ r.type \in MessageTypes /\ IsRecord(r, MessageFields(r.type))
       /\ \A t \in MessageTexts(r) : IsUtf8(t)
       /\ r.type = "AUTH" => /\ IsGiven(r.challenge)
                             /\ r.expiresAt \subseteq Int /\ IsOption(r.expiresAt)
       /\ r.type = "EVENT" => IsOption(r.subscriptionId) /\ IsTextMatrix(r.event.tags)
  /\ \A e \in AuthDrafts : IsTextMatrix(e.tags)
  /\ \A e \in Drafts \union AuthDrafts \union {r.event : r \in {m \in Meanings : m.type = "EVENT"}} :
       /\ IsRecord(e, EventFields)
       /\ e.kind \in -IntMax - 1..IntMax /\ e.createdAt \in Int

\* What an application asks for: lists of texts and of kinds, which are ints; a
\* number, a text that it begins or a date, or neither.
IsList(s) == s \in Seq(Range(s))

IsFilter(f) ==
  /\ IsList(f.ids) /\ IsList(f.authors) /\ IsList(f.kinds) /\ IsList(f.tags)
  /\ \A i \in DOMAIN f.kinds : f.kinds[i] \in -IntMax - 1..IntMax
  /\ \A i \in DOMAIN f.tags : IsList(f.tags[i].values)
  /\ \A v \in {f.since, f.until, f.limit} : IsReading(v)
  /\ ~Holds(f.limit, "date")

ASSUME RequestsAssumption ==
  /\ \A fs \in FilterLists : IsList(fs) /\ \A i \in DOMAIN fs : IsFilter(fs[i])
  /\ \A o \in SubscriptionOptions :
       /\ IsRecord(o, {"keepAlive", "window", "maxQueueLength", "strategy"})
       /\ IsReading(o.window) /\ IsReading(o.maxQueueLength)
       /\ ~Holds(o.maxQueueLength, "date")

(* The relay.  It may write a message in several ways, and garble it.      *)

EventForms(e) ==
  LET o == [id |-> Str(e.id), pubkey |-> Str(e.publicKey), sig |-> Str(e.signature),
            created_at |-> IF e.createdAt % 2 = 0 THEN Whole(e.createdAt \div 2)
                                                  ELSE Real(e.createdAt),
            kind |-> Whole(e.kind), content |-> Str(e.content),
            tags |-> Arr([i \in DOMAIN e.tags |->
                       Arr([k \in DOMAIN e.tags[i] |-> Str(e.tags[i][k])])])]
      optional == {p \in {"content", "tags"} : IF p = "tags" THEN e.tags = <<>> ELSE e.content = ""}
  IN  {Obj([p \in DOMAIN o \ left |-> o[p]]) : left \in SUBSET optional}

ChallengeNames == {"challenge", "message", "value"}
ExpiryNames == {"expires_at", "expiration", "expiresAt"}

\* What the relay means by a text: a number, or a date that begins with none.
TimeOf(t) == IF TextNumber(t) = {} THEN TextDate(t) ELSE TextNumber(t)

ExpiryForms(expiresAt) ==
  {Real(The(expiresAt))} \cup {Str(t) : t \in {u \in Times : expiresAt = TimeOf(u)}}

ChallengeBody(name, challenge, expiry, time) ==
  Obj([p \in {name, expiry} |-> IF p = name THEN Str(challenge) ELSE time])

ChallengeAlone(name, challenge) == Obj([p \in {name} |-> Str(challenge)])

ChallengeForms(r) ==
  IF r.expiresAt = {}
  THEN {Str(r.challenge)} \cup {ChallengeAlone(p, r.challenge) : p \in ChallengeNames}
  ELSE {ChallengeBody(p, r.challenge, q, time) :
          p \in ChallengeNames, q \in ExpiryNames, time \in ExpiryForms(r.expiresAt)}

OptionalText(t) == IF t = "" THEN {<< >>, <<Str(t)>>} ELSE {<<Str(t)>>}

Encodings(r) ==
  CASE r.type = "EVENT"  -> {Arr(<<Str("EVENT")>> \o (IF r.subscriptionId = {} THEN << >>
                                                     ELSE <<Str(The(r.subscriptionId))>>)
                                 \o <<b>>) : b \in EventForms(r.event)}
    [] r.type = "OK"     -> {Arr(<<Str("OK"), Str(r.eventId), Bool(r.success)>> \o t) :
                               t \in OptionalText(r.message)}
    [] r.type = "CLOSED" -> {Arr(<<Str("CLOSED"), Str(r.subscriptionId)>> \o t) :
                               t \in OptionalText(r.reason)}
    [] r.type = "NOTICE" -> {Arr(<<Str("NOTICE"), Str(r.message)>>)}
    [] r.type = "EOSE"   -> {Arr(<<Str("EOSE"), Str(r.subscriptionId)>>)}
    [] r.type = "AUTH"   -> {Arr(<<Str("AUTH"), f>>) : f \in ChallengeForms(r)}

\* One element is missing or of another kind, or one property of the last element,
\* or the kind of an event is out of range.
Garbled(j) ==
  LET last == Len(j.array)
      body == IF IsObject(j.array[last]) THEN j.array[last].object ELSE <<>>
      properties == DOMAIN body \ ExpiryNames
      bodies == {[body EXCEPT ![p] = Bool(FALSE)] : p \in properties}
                  \cup {[q \in DOMAIN body \ {p} |-> body[q]] : p \in properties}
                  \cup {[body EXCEPT !.kind = Whole(IntMax + 1)] : p \in properties \cap {"kind"}}
  IN  {Arr([i \in 1..last - 1 |-> IF i < k THEN j.array[i] ELSE j.array[i + 1]]) : k \in 1..last}
        \cup {Arr([j.array EXCEPT ![k] = Bool(FALSE)]) : k \in 1..last}
        \cup {Arr([j.array EXCEPT ![last] = Obj(o)]) : o \in bodies}
-----------------------------------------------------------------------------
NoFrame == [json |-> Arr(<< >>), meant |-> {}]

\* What only the step that handles it is about.
NothingRead     == frame' = NoFrame /\ read' = {}
NothingAnswered == answer' = {}
NothingAsked    == asked' = {} /\ request' = {}

ExchangeInit ==
  /\ frame = NoFrame /\ read = {} /\ lastEvent = {}
  /\ object = {} /\ source = {} /\ sent = {} /\ signed = FALSE
  /\ pending = {} /\ announced = {} /\ answer = {}
  /\ subscription = {} /\ asked = {} /\ request = {}

Session == sessions[CHOOSE u \in DOMAIN sessions : TRUE]

CAuthChallenge(r) ==
  [relayUrl |-> CStr(UrlText(Session.url)), challenge |-> CStr(r.challenge),
   expiresAt |-> IF r.expiresAt = {} THEN Empty ELSE R8(The(r.expiresAt))]

DispatchAuthRequired(r) ==
  /\ pending' = {[challenge |-> r.challenge, expiresAt |-> r.expiresAt]}
  /\ announced' = {CAuthChallenge(r)}
  /\ UNCHANGED <<lastEvent, eventVars>>

\* The drain shows an event to the application.
DispatchEventMessage(e, meant) ==
  /\ lastEvent' = {e.createdAt}
  /\ object' = {PopulateEventDispatch(e)}
  /\ source' = {r.event : r \in meant}
  /\ sent' = {} /\ signed' = FALSE
  /\ UNCHANGED authVars

\* The receive thread reads a message.  An event finds no one without a
\* subscription.  An OK is waited for in RelayRequests.
HandleIncomingMessage(json, meant) ==
  /\ read' = Deserialized(json)
  /\ frame' = IF read' = {} /\ meant = {} THEN NoFrame ELSE [json |-> json, meant |-> meant]
  /\ \/ \E r \in read' : r.type = "EVENT" /\ subscription # {} /\ DispatchEventMessage(r.event, meant)
     \/ \E r \in read' : r.type = "AUTH" /\ DispatchAuthRequired(r)
     \/ /\ \A r \in read' : r.type # "AUTH" /\ (r.type = "EVENT" => subscription = {})
        /\ UNCHANGED <<lastEvent, eventVars, authVars>>
  /\ NothingAnswered /\ NothingAsked /\ UNCHANGED subscription

\* A bound: a session authenticates before it subscribes.
MeaningsNow == {r \in Meanings : (r.type = "AUTH") = (subscription = {})}

RelaySends == \E r \in MeaningsNow : \E j \in Encodings(r) : HandleIncomingMessage(j, {r})

\* A bound: how a message is read does not depend on what came before it, so one
\* is garbled while there is no event and no request.
RelayGarbles ==
  /\ object = {} /\ asked = {} /\ frame = NoFrame
  /\ \E r \in MeaningsNow : \E j \in UNION {Garbled(k) : k \in Encodings(r)} :
       HandleIncomingMessage(j, {})

\* The application takes an event of its own, or changes the one it has: it sets
\* the content, or clears the signature and the id; or it lets go of it.
Changed(o) ==
  /\ object' = o /\ source' = {} /\ sent' = {} /\ signed' = FALSE
  /\ NothingRead /\ NothingAnswered /\ NothingAsked
  /\ UNCHANGED <<lastEvent, authVars, subscription>>

CreateEvent  == \E e \in IF subscription = {} THEN AuthDrafts ELSE Drafts : Changed({NostrEvent(e)})
PutContent   == \E o \in object, t \in Contents : Changed({NostrEvent([o EXCEPT !.content = t])})
Unsign       == \E o \in object : Changed({NostrEvent([o EXCEPT !.id = "", !.signature = ""])})
ReleaseEvent == object # {} /\ Changed({})

\* It copies what it was shown into the event it answers with.
CopyChallenge ==
  \E o \in object, c \in announced :
    Changed({NostrEvent([o EXCEPT !.tags = <<<<"relay", c.relayUrl>>, <<"challenge", c.challenge>>>>])})
-----------------------------------------------------------------------------
RequiresSigning(e) == "" \in {e.id, e.signature, e.publicKey}

WithKey(e) == IF e.publicKey = "" THEN [e EXCEPT !.publicKey = SignerKey] ELSE e

\* The signer hashes the draft as ComputeEventId hashes the event.
WithSignature(e, n) ==
  [e EXCEPT !.signature = Sign(Hash(Hashed(CreateEventDraft(e))), n), !.id = ComputeEventId(e)]

\* PublishEvent, without its wait for the answer.  If the signer fails, nothing
\* changes.  A bound: the application publishes once it has subscribed.
PublishEvent(n) ==
  subscription # {} /\ Session.writeEnabled /\ \E o \in object :
    LET own == ReadEventFromDispatch(o)
        event == IF RequiresSigning(own) THEN WithSignature(WithKey(own), n) ELSE own
    IN  /\ object' = {WriteEventBackToDispatch(event)}
        /\ sent' = sent \union {SerializeEvent(event)}
        /\ source' = IF RequiresSigning(own) THEN {} ELSE source
        /\ signed' = (signed \/ RequiresSigning(own))
        /\ NothingRead /\ NothingAnswered /\ NothingAsked
        /\ UNCHANGED <<lastEvent, authVars, subscription>>
-----------------------------------------------------------------------------
(* The answer to a challenge.                                              *)

Labelled(tag, label) == tag # << >> /\ tag[1] = label
LabelledIn(tags, label) == {i \in DOMAIN tags : Labelled(tags[i], label)}
WithSecond(tag, text) == [i \in 1..Max({2, Len(tag)}) |-> IF i = 2 THEN text ELSE tag[i]]

\* Every relay tag names the session's relay.
RelayTags(tags) ==
  LET at == LabelledIn(tags, "relay")
      url == UrlText(Session.url)
  IN  IF at = {} THEN Append(tags, <<"relay", url>>)
      ELSE [i \in DOMAIN tags |-> IF i \in at THEN WithSecond(tags[i], url) ELSE tags[i]]

\* The last challenge tag with a value counts, else what is pending.
ChallengeValue(tags) ==
  LET at == {i \in LabelledIn(tags, "challenge") : Len(tags[i]) >= 2}
      value == IF at = {} THEN "" ELSE tags[Max(at)][2]
  IN  IF value # "" THEN value ELSE IF pending = {} THEN "" ELSE The(pending).challenge

\* Mutant: the value is written into the last challenge tag, where it was found.
MutantChallengeTags(tags, value) ==
  LET at == LabelledIn(tags, "challenge")
  IN  IF at = {} THEN Append(tags, <<"challenge", value>>)
      ELSE [tags EXCEPT ![Max(at)] = WithSecond(@, value)]

\* It is written into the first.
ChallengeTags(tags, value) ==
  LET at == LabelledIn(tags, "challenge")
  IN  IF at = {} THEN Append(tags, <<"challenge", value>>)
      ELSE [tags EXCEPT ![Min(at)] = WithSecond(@, value)]

\* What RespondAuth signs.
AuthEvent(e) ==
  [e EXCEPT !.kind = kAuthKind, !.createdAt = IF @ <= 0 THEN Now ELSE @,
            !.tags = ChallengeTags(RelayTags(@), ChallengeValue(@)),
            !.publicKey = SignerKey, !.id = "", !.signature = ""]

\* An answer that is refused changes nothing.
MayAnswer(e) ==
  /\ e.kind \in {0, kAuthKind}
  /\ ChallengeValue(e.tags) # ""
  /\ \A p \in pending : /\ ChallengeValue(e.tags) = p.challenge
                        /\ \A d \in p.expiresAt : d > 0 => Now <= d

SerializeAuth(e) == Arr(<<Str("AUTH"), BuildEventObject(e)>>)

\* RespondAuth: the signer fails, or the relay accepts the answer or does not.
RespondAuth(n) ==
  subscription = {} /\ Session.writeEnabled /\ \E o \in object :
    LET own == ReadEventFromDispatch(o)
        event == WithSignature(AuthEvent(own), n)
        kept == {[challenge |-> ChallengeValue(own.tags),
                  expiresAt |-> UNION {p.expiresAt : p \in pending}]}
    IN  /\ MayAnswer(own)
        /\ \/ pending' = kept /\ answer' = {} /\ UNCHANGED eventVars
           \/ /\ pending' \in {kept, {}}
              /\ object' = {WriteEventBackToDispatch(event)}
              /\ answer' = {[pending |-> pending, message |-> SerializeAuth(event)]}
              /\ UNCHANGED <<source, sent, signed>>
        /\ NothingRead /\ NothingAsked /\ UNCHANGED <<lastEvent, announced, subscription>>
-----------------------------------------------------------------------------
\* An application's own filter object has untyped arrays.
OwnFilter(f) ==
  LET texts(s) == Array("variant", [i \in DOMAIN s |-> IF IsGiven(s[i]) THEN Bstr(s[i]) ELSE Empty])
  IN  [NostrFilter(f) EXCEPT
         !.ids = texts(f.ids), !.authors = texts(f.authors),
         !.kinds = Array("variant", [i \in DOMAIN f.kinds |-> I4(f.kinds[i])]),
         !.tags = Array("variant", [i \in DOMAIN f.tags |->
                    Dispatch([label |-> Bstr(f.tags[i].label), values |-> texts(f.tags[i].values)])])]

\* The arrays of filters that ask for a list of filters.
FilterArrays(fs) ==
  LET filters == {[i \in DOMAIN fs |-> NostrFilter(fs[i])], [i \in DOMAIN fs |-> OwnFilter(fs[i])]}
  IN  {Array("dispatch", os) : os \in filters}
        \cup {Array("variant", [i \in DOMAIN fs |-> Dispatch(os[i])]) : os \in filters}

\* The library's own options object.
CSubscriptionOptions(o) == [o EXCEPT !.keepAlive = Flag(@)]

\* Options of a subscription that NormalizeSubscriptionOptions accepts.
AreSubscriptionOptions(o) ==
  /\ o.window = Empty \/ \E d \in VariantToDouble(o.window) : d >= 0
  /\ o.maxQueueLength = Empty \/ \E n \in VariantToLong(o.maxQueueLength) : n > 0
  /\ o.strategy = Empty \/ \E n \in VariantToLong(o.strategy) : n \in {0, 1}

\* Zero seconds are no window; 0 drops the oldest event, which is the default.
NormalizeSubscriptionOptions(o) ==
  [keepAlive      |-> o.keepAlive = VariantTrue,
   window         |-> VariantToDouble(o.window) \ {0},
   maxQueueLength |-> VariantToLong(o.maxQueueLength),
   strategy       |-> IF o.strategy = Empty THEN 0 ELSE The(VariantToLong(o.strategy))]

\* Mutant: the window lies behind the last event.
MutantSinceBase(last, seconds) == last + seconds

\* UpdateFilters asks for nothing older than the window before the last event.
SinceBase(last, seconds) == Max({0, last - seconds})
WithWindow(f) ==
  LET bases == {SinceBase(last, d) : last \in lastEvent, d \in The(subscription).window}
  IN  IF \E base \in bases : f.since = {} \/ The(f.since) < base
      THEN [f EXCEPT !.since = bases] ELSE f

Request(filters) == {SerializeRequest("subscription", filters)}

OpenSubscription ==
  /\ subscription = {} /\ Session.readEnabled
  /\ \E fs \in FilterLists, o \in SubscriptionOptions : \E a \in FilterArrays(fs) :
       LET accepted == fs # << >> /\ AreFilters(a) /\ AreSubscriptionOptions(o)
       IN  /\ asked' = {[filters |-> fs, options |-> {o}]}
           /\ subscription' = IF accepted
                              THEN {NormalizeSubscriptionOptions(CSubscriptionOptions(o))} ELSE {}
           /\ request' = IF accepted THEN Request(ReadFiltersFromSafeArray(a)) ELSE {}
  /\ NothingRead /\ NothingAnswered /\ UNCHANGED <<lastEvent, eventVars, authVars>>

UpdateFilters ==
  /\ subscription # {}
  /\ \E fs \in FilterLists : \E a \in FilterArrays(fs) :
       LET filters == ReadFiltersFromSafeArray(a)
       IN  /\ asked' = {[filters |-> fs, options |-> {}]}
           /\ request' = IF fs # << >> /\ AreFilters(a)
                         THEN Request([i \in DOMAIN filters |-> WithWindow(filters[i])])
                         ELSE {}
  /\ NothingRead /\ NothingAnswered
  /\ UNCHANGED <<lastEvent, eventVars, authVars, subscription>>

\* Bounds.  Filters have nothing to do with events and challenges, so filters are
\* asked for while the application holds no event and before any challenge.  How
\* a queue is limited is left to RelaySubscriptions, so that a subscription is used
\* if no option but the window is set.
Idle == object = {} /\ pending = {} /\ announced = {}
Used == \A s \in subscription : s.keepAlive /\ s.maxQueueLength = {} /\ s.strategy = 0

Exchange ==
  \/ RelaySends \/ RelayGarbles
  \/ CreateEvent \/ PutContent \/ Unsign \/ ReleaseEvent \/ CopyChallenge
  \/ \E n \in Nonces : PublishEvent(n) \/ RespondAuth(n)
  \/ Idle /\ OpenSubscription
  \/ Idle /\ UpdateFilters

Init == SetupInit /\ ExchangeInit

\* Bounds: messages pass in the first session, if it is one of Talks, and nothing
\* is set up between them.
Next ==
  \/ Idle /\ frame = NoFrame /\ asked = {} /\ subscription = {} /\ SetUp /\ UNCHANGED exchangeVars
  \/ /\ DOMAIN sessions # {} /\ \A x \in objects : /\ x.number = 1
                                            /\ <<The(given), x.descriptor, x.response>> \in Talks
     /\ Used /\ Exchange /\ UNCHANGED setupVars

Spec == Init /\ [][Next]_vars
-----------------------------------------------------------------------------
\* Messages, objects and requests are built of the parts the code gives them.
TypeOK ==
  /\ \A r \in read : r.type \in MessageTypes
  /\ \A d \in lastEvent : d \in Int
  /\ \A o \in object : o.kind \in -IntMax - 1..IntMax /\ o.createdAt \in Int
  /\ \A m \in sent : IsEvent(m)
  /\ signed \in BOOLEAN
  /\ \A p \in pending : IsGiven(p.challenge)
  /\ \A s \in subscription : \A d \in s.window : d > 0
  /\ SetupTypes
  /\ \A m \in request : IsFrame(m, "REQ", 3)

(***************************************************************************)
(* The readers understand every message as the relay meant it, in each of  *)
(* the forms a relay may give it; and what they accept of a garbled        *)
(* message is a message in its own right.                                  *)
(***************************************************************************)
ReadAsMeant ==
  /\ \A r \in frame.meant : read = {r}
  /\ \A r \in read : frame.json \in Encodings(r)

\* Without a NUL, which ends a text on the way through a null-terminated string.
Plain(e) == WithCStrings(e) = e
SentEvent(m) == ReadEventObject(m.array[2])

(***************************************************************************)
(* An event reaches the application as the relay meant it, and is the same *)
(* event when the application publishes it again: no conversion on the way *)
(* in or out loses or reorders anything that the id covers.                *)
(***************************************************************************)
EventKeptWhole ==
  \A e \in source : Plain(e) => /\ object = {e}
                                /\ \A m \in sent : SentEvent(m) = e

\* The id of an event of a whole second, as whoever reads its message computes it.
OnWholeSecond(e) == e.createdAt % 2 = 0
IdOf(e) == Hash(<<e.publicKey, e.createdAt \div 2, e.kind, e.tags, e.content>>)

(***************************************************************************)
(* When PublishEvent has signed an event that was created on a whole       *)
(* second, a relay that reads the message computes the id it finds there,  *)
(* and the signature is one of that id: the id, the signer's draft and the *)
(* message are three conversions of the same event.  Of an event created   *)
(* within a second only the signature is said to fit: its id covers the    *)
(* rounded time, and it is sent with the other one.                        *)
(***************************************************************************)
SignatureCoversSent ==
  signed => \A m \in sent : LET e == SentEvent(m)
                            IN  /\ OnWholeSecond(e) => e.id = IdOf(e)
                                /\ \E n \in Nonces : e.signature = Sign(e.id, n)

\* Publishing an event again, after a failure or twice, sends the same message:
\* what the first call computed has been written back to the object.
SameMessageAgain == \A m, k \in sent : m = k

(***************************************************************************)
(* An answer to a challenge names this relay and no other, and the         *)
(* challenge of the relay where a relay looks for it, in the first         *)
(* challenge tag; and its id and signature are those of the event sent, if *)
(* it is of a whole second.  That holds for every event that the           *)
(* application may have prepared, also one with several tags of a kind,    *)
(* and one that has answered before.  (A challenge with a NUL is sent      *)
(* whole, but signed up to the NUL.)                                       *)
(***************************************************************************)
AuthAnswersChallenge ==
  \A a \in answer :
    LET e == SentEvent(a.message)
    IN  /\ e.kind = kAuthKind /\ e.publicKey = SignerKey
        /\ LabelledIn(e.tags, "relay") # {}
        /\ \A i \in LabelledIn(e.tags, "relay") : e.tags[i][2] = UrlText(Session.url)
        /\ LabelledIn(e.tags, "challenge") # {}
        /\ \A p \in a.pending : e.tags[Min(LabelledIn(e.tags, "challenge"))][2] = p.challenge
        /\ OnWholeSecond(e) => e.id = IdOf(e)
        /\ Plain(e) => \E n \in Nonces : e.signature = Sign(e.id, n)

\* The label of a tag query, and a list of texts, as a relay reads them: a text is
\* passed as a null-terminated string, a label is not.
LabelAt(f, k) == Utf8(f.tags[k].label)
Converted(s) == [i \in DOMAIN s |-> Utf8(CStr(s[i]))]

\* Tag queries have labels of their own.
ProperLabels(f) ==
  \A i, k \in DOMAIN f.tags : IsLabel(LabelAt(f, i)) /\ (LabelAt(f, i) = LabelAt(f, k) => i = k)

\* The "since" of a filter is the one asked for, or closes the gap behind the last
\* event: it is later than the one asked for and not later than that event.
ClosesGap(since, asks) ==
  \/ since = asks
  \/ /\ \E d \in since, last \in lastEvent : d <= Max({0, last})
     /\ \A d \in since, a \in asks : d > a

\* What a VARIANT says of itself that holds a number, or a date since 1970.
NumberMeant(v) ==
  CASE Holds(v, "i4") -> {2 * v.i4}
    [] Holds(v, "r8") -> {v.r8}
    [] Holds(v, "date") /\ v.date >= 0 -> {v.date}
    [] OTHER -> {}

\* It holds such a number, or nothing.
IsPlainNumber(v) == v = Empty \/ NumberMeant(v) # {}

\* An int is as near to a number as there is one, and there is one if an int can be.
IsNearest(n, d) == 2 * n - d \in -1..1
NearestAsked(ints, v) ==
  /\ v = Empty => ints = {}
  /\ \A d \in NumberMeant(v) : /\ \A n \in ints : IsNearest(n, d)
                               /\ d \div 2 \in -IntMax - 1..IntMax - 1 => ints # {}

\* A queue that is to be limited is, to the nearest number of events and at least one.
LimitAsAsked(o, s) ==
  /\ (s.maxQueueLength = {}) = (o.maxQueueLength = Empty)
  /\ \A n \in s.maxQueueLength : n > 0 /\ \A d \in NumberMeant(o.maxQueueLength) : IsNearest(n, d)

(***************************************************************************)
(* A relay that reads a REQ finds in it what the application asked for, in *)
(* whatever arrays and objects it passed it: no text, kind or tag query is *)
(* left out, nor a bound given as a number or a date since 1970 (a limit   *)
(* as a number that rounds to an int), so that the filter is not wider;    *)
(* and a later "since" is the only thing added, which loses no event       *)
(* behind the last one.  Bounds that are texts, earlier dates and larger   *)
(* limits are not covered: those the readers do not understand are left    *)
(* out without notice, and the filter is wider.  (A tag query whose label  *)
(* is the name of another property takes its place.)                       *)
(***************************************************************************)
RequestAsAsked ==
  \A m \in request, a \in asked :
    /\ Len(m.array) = Len(a.filters) + 2
    /\ \A o \in a.options, s \in subscription : LimitAsAsked(o, s)
    /\ \A i \in DOMAIN a.filters :
         LET f == a.filters[i]
             g == ReadFilterObject(m.array[i + 2])
         IN  /\ (IsPlainNumber(f.since) /\ \A k \in DOMAIN f.tags : LabelAt(f, k) # "since") =>
                  ClosesGap(g.since, NumberMeant(f.since))
             /\ ProperLabels(f) =>
                  /\ g.ids = Converted(f.ids) /\ g.authors = Converted(f.authors) /\ g.kinds = f.kinds
                  /\ DOMAIN g.tagQueries = {LabelAt(f, k) : k \in DOMAIN f.tags}
                  /\ \A k \in DOMAIN f.tags : g.tagQueries[LabelAt(f, k)] = Converted(f.tags[k].values)
                  /\ IsPlainNumber(f.until) => g.until = NumberMeant(f.until)
                  /\ NearestAsked(g.limit, f.limit)
=============================================================================
