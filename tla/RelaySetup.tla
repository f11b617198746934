----------------------------- MODULE RelaySetup -----------------------------
(***************************************************************************)
(* From the options and URLs an application writes to a session: the       *)
(* client's options and what the HTTP client, the WebSocket and the waits  *)
(* make of them, the URL under which a relay is registered and the place   *)
(* it is reached at, the relay's NIP-11 document, and the session object   *)
(* that speaks of the session while it lasts.  The calls follow each other *)
(* here; ClientRegistry has them overlap.                                  *)
(***************************************************************************)
EXTENDS ComObjects, SequencesExt

CONSTANTS
  Lower(_),        \* towlower of every character
  Milliseconds(_), \* llround of seconds times 1000
  Parsed(_),       \* nlohmann::json::parse: the value a text stands for, if any
  MaxTimeout,      \* kMaxTimeoutSeconds
  DwordMax,        \* largest DWORD (the bound stands for 2^32 - 1)
  ClientOptions,   \* what the properties of a client's options object hold
  RelayUrls,       \* URLs the application writes
  Connections,     \* what it puts into relay descriptors, and the relay's answers to
                   \* the request for its NIP-11 document
  MaxSessions      \* bound: sessions one after the other

ASSUME SetupAssumption == {MaxTimeout, MaxSessions} \subseteq Nat /\ DwordMax \in Nat \ {0}

VARIABLES
  given,     \* history: the options the client was initialized with
  options,   \* options_, {} before Initialize
  sessions,  \* relaySessions_: session data by normalized URL
  objects    \* the session objects handed out, with the history of each

setupVars == <<given, options, sessions, objects>>
-----------------------------------------------------------------------------
(* Options of a client.  "Empty" stands for every VARIANT without a value.  *)

\* A text property is a BSTR, whose value is null-terminated.
TextProperty(v) == IF Holds(v, "bstr") THEN Bstr(CStr(v.bstr)) ELSE Bstr("")

\* The library's own options object.
CClientOptions(o) ==
  [o EXCEPT !.webSocketFactoryProgId = TextProperty(@), !.userAgent = TextProperty(@)]

\* A bound: numbers, which ChangeType turns into texts, are left out.
IsText(v) == v = Empty \/ Holds(v, "bstr")
TextOf(v) == IF Holds(v, "bstr") THEN v.bstr ELSE ""

\* applyTimeout: a time that is not positive, too long or rounded to nothing is
\* refused.
TimeoutOf(v) ==
  {Milliseconds(d) : d \in {s \in VariantToDouble(v) : 0 < s /\ s <= MaxTimeout}} \ {0}
IsTimeout(v) == v = Empty \/ TimeoutOf(v) # {}

\* An option is read as one number or as none, and rounded to a natural number.
ASSUME TimesAssumption ==
  /\ \A d \in 1..MaxTimeout : Milliseconds(d) \in Nat
  /\ \A o \in ClientOptions :
       \A p \in {"connectTimeoutSeconds", "sendTimeoutSeconds", "receiveTimeoutSeconds"} :
         p \in DOMAIN o /\ IsReading(o[p])

AreClientOptions(o) ==
  /\ IsText(o.webSocketFactoryProgId) /\ IsText(o.userAgent)
  /\ IsTimeout(o.connectTimeoutSeconds) /\ IsTimeout(o.sendTimeoutSeconds)
  /\ IsTimeout(o.receiveTimeoutSeconds)

NormalizeClientOptions(o) ==
  [userAgent      |-> TextOf(o.userAgent),
   connectTimeout |-> TimeoutOf(o.connectTimeoutSeconds),
   sendTimeout    |-> TimeoutOf(o.sendTimeoutSeconds),
   receiveTimeout |-> TimeoutOf(o.receiveTimeoutSeconds)]

\* A cast to int, and nlohmann's get<int>.
AsInt(n) == ((n + IntMax + 1) % (2 * (IntMax + 1))) - (IntMax + 1)

\* Mutant: a long timeout is cast, too.
MutantToTimeoutValue(timeout) == IF timeout = {} THEN -1 ELSE AsInt(The(timeout))

\* -1 is no timeout.
ToTimeoutValue(timeout) == IF timeout = {} THEN -1 ELSE Min({The(timeout), IntMax})

\* What WinHttpOpen and WinHttpSetTimeouts are given, by both of their users.
Settings(o) ==
  [userAgent |-> IF o.userAgent = "" THEN "COM_Nostr/1.0" ELSE o.userAgent,
   connect   |-> ToTimeoutValue(o.connectTimeout),
   send      |-> ToTimeoutValue(o.sendTimeout),
   receive   |-> ToTimeoutValue(o.receiveTimeout)]

AsDword(timeout, default) == IF timeout = {} THEN default ELSE Min({The(timeout), DwordMax})
ResolveReceiveTimeoutMilliseconds(o) == AsDword(o.receiveTimeout, 1000)
ResolveOkWaitTimeoutMilliseconds(o)  == AsDword(o.receiveTimeout, 10000)
-----------------------------------------------------------------------------
(***************************************************************************)
(* URLs.  A URL is a record of its parts, as they are spelled; the port    *)
(* and the blanks around the URL may be absent.                            *)
(***************************************************************************)
ASSUME UrlsAssumption ==
  /\ Lower("ws") = "ws" /\ Lower("wss") = "wss"
  /\ \A url \in RelayUrls \union {c[1].url : c \in Connections} :
       /\ DOMAIN url = {"blanks", "scheme", "host", "port", "path", "extra"}
       /\ url.port \subseteq Nat /\ IsOption(url.port)
       /\ Lower(Lower(url.host)) = Lower(url.host) /\ (Lower(url.host) = "" => url.host = "")

TrimWhitespace(url) == [url EXCEPT !.blanks = FALSE]
StartsWithInsensitive(url, scheme) == ~url.blanks /\ Lower(url.scheme) = scheme

DefaultPort(scheme) == IF scheme = "https" THEN 443 ELSE 80

MaxPort == 65535 \* INTERNET_PORT is a WORD

\* WinHttpCrackUrl, which knows http and https.
Crack(url) ==
  IF url.blanks \/ url.scheme \notin {"http", "https"} \/ url.host = ""
       \/ ~(url.port \subseteq 0..MaxPort)
    THEN {}
    ELSE {[url EXCEPT !.port = IF @ = {} THEN DefaultPort(url.scheme) ELSE The(@)]}

\* What each of its three callers makes of the parts.
PortOf(parts) == IF parts.port = 0 THEN DefaultPort(parts.scheme) ELSE parts.port
PathOf(parts) == IF parts.path = "" /\ parts.extra = "" THEN "/" ELSE parts.path

\* Mutant: a port that is the default of either scheme is left out.
MutantWrittenPort(parts) == {PortOf(parts)} \ {80, 443}

WrittenPort(parts) == {PortOf(parts)} \ {DefaultPort(parts.scheme)}

AsHttp(url) ==
  IF StartsWithInsensitive(url, "wss") THEN Crack([url EXCEPT !.scheme = "https"])
  ELSE IF StartsWithInsensitive(url, "ws") THEN Crack([url EXCEPT !.scheme = "http"])
  ELSE {}

NormalizeRelayUrl(raw) ==
  {[blanks |-> FALSE,
    scheme |-> IF parts.scheme = "https" THEN "wss" ELSE "ws",
    host   |-> Lower(parts.host),
    port   |-> WrittenPort(parts),
    path   |-> PathOf(parts), extra |-> parts.extra] : parts \in AsHttp(TrimWhitespace(raw))}

\* As a text.
UrlText(url) ==
  url.scheme \o "://" \o url.host
    \o (IF url.port = {} THEN "" ELSE ":" \o ToString(The(url.port))) \o url.path \o url.extra

ASSUME UrlTextsAssumption ==
  \A c \in Connections : \A url \in NormalizeRelayUrl(c[1].url) : IsUtf8(UrlText(url))

Place(parts) ==
  [host |-> parts.host, port |-> PortOf(parts), path |-> PathOf(parts), extra |-> parts.extra,
   useTls |-> parts.scheme = "https"]

\* Where WinHttpWebSocket and NativeHttpClient connect to, with a normalized URL.
HttpScheme(scheme) ==
  CASE scheme = "ws" -> "http" [] scheme = "wss" -> "https" [] OTHER -> scheme

ParseUrl(url) == {Place(parts) : parts \in Crack([url EXCEPT !.scheme = HttpScheme(@)])}
InformationUrl(url) == {Place(parts) : parts \in Crack([url EXCEPT !.scheme = HttpScheme(@)])}
-----------------------------------------------------------------------------
(* The NIP-11 document, whose body comes in chunks.                        *)

IsSupportedContentType(type) == Lower(type) \in {"", "application/nostr+json", "application/json"}

Body(chunks) == FoldLeft(LAMBDA text, chunk : text \o chunk, "", chunks)

\* The numbers a document lists, of those that are whole.
WholeNumbers(j) ==
  IF IsObject(j) /\ "supported_nips" \in DOMAIN j.object /\ IsArray(j.object.supported_nips)
    THEN SelectSeq(j.object.supported_nips.array, LAMBDA n : DOMAIN n = {"integer"})
    ELSE <<>>

SupportedNips(j) == [i \in DOMAIN WholeNumbers(j) |-> AsInt(WholeNumbers(j)[i].integer)]

\* No part of a document is JSON, nor does it hold a NUL; it lists what an int can hold.
ASSUME DocumentsAssumption ==
  \A c \in Connections :
    /\ DOMAIN c[1] = {"url", "readEnabled", "writeEnabled", "preferred", "metadata"}
    /\ \A j \in Parsed(Body(c[2].chunks)) :
         /\ Body(c[2].chunks) = c[2].document /\ c[2].document # ""
         /\ CStr(c[2].document) = c[2].document
         /\ c[2].nips = [i \in DOMAIN WholeNumbers(j) |-> WholeNumbers(j)[i].integer]
         /\ \A i \in DOMAIN c[2].nips : c[2].nips[i] \in -IntMax - 1..IntMax

\* PerformGet: the information in an answer.  It is refused if the status, the
\* type or the JSON is not right, and if any call of WinHTTP fails.
RelayInformation(r) ==
  IF ~r.fails /\ r.status = 200 /\ IsSupportedContentType(r.type)
    THEN {[supportedNips |-> SupportedNips(j), metadataJson |-> Body(r.chunks)] :
            j \in Parsed(Body(r.chunks))}
    ELSE {}
-----------------------------------------------------------------------------
(* Descriptors and the client.  A VARIANT_BOOL is a number.                 *)

VariantTrue == -1
Flag(n) == IF n = 0 THEN 0 ELSE VariantTrue

\* The library's own descriptor object.
CRelayDescriptor(d) ==
  [d EXCEPT !.readEnabled = Flag(@), !.writeEnabled = Flag(@), !.preferred = Flag(@)]

\* ReadRelayDescriptor; a descriptor of any other class is refused.
ReadRelayDescriptor(d) ==
  [url |-> d.url, readEnabled |-> d.readEnabled = VariantTrue,
   writeEnabled |-> d.writeEnabled = VariantTrue, preferred |-> d.preferred = VariantTrue,
   metadataJson |-> TextOf(d.metadata)]

SetupInit == given = {} /\ options = {} /\ sessions = <<>> /\ objects = {}

Initialize(o) ==
  /\ options = {} /\ AreClientOptions(o)
  /\ options' = {NormalizeClientOptions(o)}
  /\ given' = {o}
  /\ UNCHANGED <<sessions, objects>>

\* ConnectRelay, with a descriptor of the library, when the WebSocket connects.
ConnectRelay(d, r) ==
  /\ Cardinality(objects) < MaxSessions
  /\ IsText(d.metadata)
  /\ \E o \in options, info \in RelayInformation(r),
        url \in NormalizeRelayUrl(d.url) \ DOMAIN sessions :
       LET data == ReadRelayDescriptor(CRelayDescriptor(d))
           number == Cardinality(objects) + 1
           session ==
             [number |-> number, url |-> url, preferred |-> data.preferred,
              readEnabled |-> data.readEnabled, writeEnabled |-> data.writeEnabled,
              metadataJson |-> IF info.metadataJson # "" THEN info.metadataJson
                                                         ELSE data.metadataJson,
              supportedNips |-> info.supportedNips, runtimeOptions |-> o]
       IN  /\ sessions' = [u \in DOMAIN sessions \union {url} |->
                             IF u = url THEN session ELSE sessions[u]]
           /\ objects' = objects \union
                {[number |-> number, descriptor |-> d, response |-> r,
                  reached |-> <<InformationUrl(url), ParseUrl(url)>>]}
  /\ UNCHANGED <<given, options>>

DisconnectRelay(text) ==
  /\ \E url \in NormalizeRelayUrl(text) \intersect DOMAIN sessions :
       sessions' = [u \in DOMAIN sessions \ {url} |-> sessions[u]]
  /\ UNCHANGED <<given, options, objects>>

HasRelay(text) == NormalizeRelayUrl(text) \intersect DOMAIN sessions # {}
ListRelays == {sessions[u].url : u \in DOMAIN sessions}
-----------------------------------------------------------------------------
(* The session object has a weak reference to the session's data.           *)

\* Mutant: the session is looked up by its URL.
MutantLocked(x) ==
  {sessions[u] : u \in NormalizeRelayUrl(x.descriptor.url) \intersect DOMAIN sessions}

Locked(x) == {sessions[u] : u \in {v \in DOMAIN sessions : sessions[v].number = x.number}}

get_SupportedNips(x) == {s.supportedNips : s \in Locked(x)}

AsFlag(b) == IF b THEN VariantTrue ELSE 0

GetDescriptor(x) ==
  {CRelayDescriptor([url |-> s.url, preferred |-> AsFlag(s.preferred),
                     readEnabled |-> AsFlag(s.readEnabled), writeEnabled |-> AsFlag(s.writeEnabled),
                     metadata |-> IF s.metadataJson = "" THEN Empty ELSE Bstr(CStr(s.metadataJson))]) :
     s \in Locked(x)}

SetUp ==
  \/ \E o \in ClientOptions : Initialize(o) \/ Initialize(CClientOptions(o))
  \/ \E c \in Connections : ConnectRelay(c[1], c[2])
  \/ \E text \in RelayUrls : DisconnectRelay(text)
-----------------------------------------------------------------------------
\* Sessions are told apart, are registered under their URLs and have objects.
SetupTypes ==
  /\ \A o \in options : o = NormalizeClientOptions(The(given))
  /\ \A u, v \in DOMAIN sessions : sessions[u].number = sessions[v].number => u = v
  /\ \A u \in DOMAIN sessions : /\ sessions[u].url = u
                                /\ \E x \in objects : x.number = sessions[u].number

\* The milliseconds asked for.
AskedMilliseconds(v) == Milliseconds(The(VariantToDouble(v)))

\* A wait is as long as it was asked to be, or as long as its type allows.
AsAsked(v, wait, default, longest) ==
  IF v = Empty THEN wait = default
  ELSE LET asked == AskedMilliseconds(v)
       IN  0 < wait /\ wait <= asked /\ (wait < asked => wait = longest)

\* To WaitForSingleObject the largest DWORD is INFINITE.
Infinite == DwordMax

OptionsInUse == options \union {sessions[u].runtimeOptions : u \in DOMAIN sessions}

(***************************************************************************)
(* Each timeout reaches the calls it is meant for, for every way to write  *)
(* it, and is never turned into another one, nor for WinHTTP into 0 or -1, *)
(* which mean "for ever", except where no timeout is given.  The wait of   *)
(* the receive thread is the one exception: it does not end, and with it   *)
(* the join of StopReceiveLoop (WaitForever of RelayLink), exactly for the *)
(* timeouts of INFINITE milliseconds or more.                              *)
(***************************************************************************)
WaitsAsAsked ==
  \A g \in given, o \in OptionsInUse :
    /\ AsAsked(g.connectTimeoutSeconds, Settings(o).connect, -1, IntMax)
    /\ AsAsked(g.sendTimeoutSeconds, Settings(o).send, -1, IntMax)
    /\ AsAsked(g.receiveTimeoutSeconds, Settings(o).receive, -1, IntMax)
    /\ AsAsked(g.receiveTimeoutSeconds, ResolveOkWaitTimeoutMilliseconds(o), 10000, DwordMax)
    /\ LET v == g.receiveTimeoutSeconds
           wait == ResolveReceiveTimeoutMilliseconds(o)
       IN  IF v = Empty THEN wait = 1000
           ELSE /\ AskedMilliseconds(v) < Infinite => wait = AskedMilliseconds(v)
                /\ AskedMilliseconds(v) >= Infinite => wait = Infinite

\* The place a URL names, by the rules for ws and wss.
Meant(url) ==
  LET tls == Lower(url.scheme) = "wss"
  IN  [host |-> Lower(url.host), useTls |-> tls, extra |-> url.extra,
       port |-> IF url.port \subseteq {0} THEN (IF tls THEN 443 ELSE 80) ELSE The(url.port),
       path |-> IF url.path = "" /\ url.extra = "" THEN "/" ELSE url.path]

(***************************************************************************)
(* A URL goes through three parsers.  The request for the document and the *)
(* WebSocket go to the same place, the one the application means; and a    *)
(* relay has one session, which is found under every spelling of its URL   *)
(* and under no URL of another relay.                                      *)
(***************************************************************************)
ReachesRelayMeant ==
  /\ \A url, other \in ListRelays : Meant(url) = Meant(other) => url = other
  /\ \A x \in objects :
       /\ x.reached = <<{Meant(x.descriptor.url)}, {Meant(x.descriptor.url)}>>
       /\ \A s \in Locked(x), text \in RelayUrls :
            NormalizeRelayUrl(text) # {} =>
              (s.url \in NormalizeRelayUrl(text)) = (Meant(text) = Meant(x.descriptor.url))

(***************************************************************************)
(* A session object speaks of the session it was handed out for, also when *)
(* the relay has been disconnected and connected again: of the policy in   *)
(* the descriptor, of the whole of the relay's document, and of a URL      *)
(* under which the session is found.                                       *)
(***************************************************************************)
SessionAsAnnounced ==
  \A x \in objects : \A g \in GetDescriptor(x) :
    /\ g.readEnabled = Flag(x.descriptor.readEnabled)
    /\ g.writeEnabled = Flag(x.descriptor.writeEnabled)
    /\ g.preferred = Flag(x.descriptor.preferred)
    /\ HasRelay(g.url) /\ Meant(g.url) = Meant(x.descriptor.url)
    /\ Holds(g.metadata, "bstr") /\ g.metadata.bstr = x.response.document
    /\ get_SupportedNips(x) = {x.response.nips}
=============================================================================
