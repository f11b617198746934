----------------------- MODULE RelayExchange_proofs -----------------------
(***************************************************************************)
(* Theorems about RelaySetup and RelayExchange: for every way to write     *)
(* options and URLs, every list of connections, and every world of         *)
(* messages and events.                                                    *)
(***************************************************************************)
EXTENDS RelayExchange, FiniteSetTheorems, TLAPS

LEMMA TheOnly == ASSUME NEW x PROVE The({x}) = x
BY DEF The

LEMMA TheOption == ASSUME NEW S, IsOption(S), NEW x \in S PROVE S = {x} /\ The(S) = x
<1>1. S = {x}
  BY DEF IsOption
<1> QED
  BY <1>1, TheOnly

LEMMA MinOfTwo ==
  ASSUME NEW m \in Int, NEW n \in Int PROVE Min({m, n}) = IF m <= n THEN m ELSE n
<1> DEFINE k == IF m <= n THEN m ELSE n
<1>1. k \in {m, n} /\ \A y \in {m, n} : k =< y
  OBVIOUS
<1>2. \A z \in {m, n} : (\A y \in {m, n} : z =< y) => z = k
  OBVIOUS
<1> QED
  BY <1>1, <1>2 DEF Min
-----------------------------------------------------------------------------
(* Timeouts.                                                               *)

TimeoutNames == {"connectTimeoutSeconds", "sendTimeoutSeconds", "receiveTimeoutSeconds"}

LEMMA NothingInEmpty == VariantToDouble(Empty) = {}
BY DEF VariantToDouble, Empty, Holds

\* An accepted timeout is the rounding of what was written, and not zero.
LEMMA TimeoutIsRounded ==
  ASSUME NEW v, IsReading(v), IsTimeout(v), v # Empty
  PROVE  LET ms == Milliseconds(The(VariantToDouble(v)))
         IN  TimeoutOf(v) = {ms} /\ ms \in Nat \ {0}
<1>1. TimeoutOf(v) # {}
  BY DEF IsTimeout
<1>2. PICK d \in VariantToDouble(v) : 0 < d /\ d <= MaxTimeout /\ Milliseconds(d) # 0
  BY <1>1 DEF TimeoutOf
<1>3. VariantToDouble(v) = {d} /\ The(VariantToDouble(v)) = d
  BY TheOption DEF IsReading
<1>4. d \in 1..MaxTimeout
  BY <1>2, SetupAssumption DEF IsReading
<1>5. TimeoutOf(v) = {Milliseconds(d)}
  BY <1>2, <1>3 DEF TimeoutOf
<1> QED
  BY <1>2, <1>3, <1>4, <1>5, TimesAssumption

LEMMA NoTimeoutOfEmpty == TimeoutOf(Empty) = {}
BY NothingInEmpty DEF TimeoutOf

\* ToTimeoutValue and AsDword cut a time at the end of its type.
LEMMA SettingAsAsked ==
  ASSUME NEW v, IsReading(v), IsTimeout(v)
  PROVE  AsAsked(v, ToTimeoutValue(TimeoutOf(v)), -1, IntMax)
<1>1. CASE v = Empty
  BY <1>1, NoTimeoutOfEmpty DEF AsAsked, ToTimeoutValue
<1>2. CASE v # Empty
  <2> DEFINE ms == Milliseconds(The(VariantToDouble(v)))
  <2>1. TimeoutOf(v) = {ms} /\ ms \in Nat \ {0}
    BY <1>2, TimeoutIsRounded
  <2> HIDE DEF ms
  <2>a. ToTimeoutValue(TimeoutOf(v)) = Min({ms, IntMax})
    BY <2>1, TheOnly, Zenon DEF ToTimeoutValue
  <2>2. ToTimeoutValue(TimeoutOf(v)) = IF ms <= IntMax THEN ms ELSE IntMax
    BY <2>a, <2>1, MinOfTwo, MessagesAssumption
  <2> DEFINE wait == ToTimeoutValue(TimeoutOf(v))
  <2>3. 0 < wait /\ wait <= ms /\ (wait < ms => wait = IntMax)
    BY <2>1, <2>2, MessagesAssumption
  <2> QED
    BY <1>2, <2>3 DEF AsAsked, AskedMilliseconds, ms
<1> QED
  BY <1>1, <1>2

LEMMA WaitAsAsked ==
  ASSUME NEW v, IsReading(v), IsTimeout(v), NEW default
  PROVE  AsAsked(v, AsDword(TimeoutOf(v), default), default, DwordMax)
<1>1. CASE v = Empty
  BY <1>1, NoTimeoutOfEmpty DEF AsAsked, AsDword
<1>2. CASE v # Empty
  <2> DEFINE ms == Milliseconds(The(VariantToDouble(v)))
  <2>1. TimeoutOf(v) = {ms} /\ ms \in Nat \ {0}
    BY <1>2, TimeoutIsRounded
  <2> HIDE DEF ms
  <2>a. AsDword(TimeoutOf(v), default) = Min({ms, DwordMax})
    BY <2>1, TheOnly, Zenon DEF AsDword
  <2>2. AsDword(TimeoutOf(v), default) = IF ms <= DwordMax THEN ms ELSE DwordMax
    BY <2>a, <2>1, MinOfTwo, SetupAssumption
  <2> DEFINE wait == AsDword(TimeoutOf(v), default)
  <2>3. 0 < wait /\ wait <= ms /\ (wait < ms => wait = DwordMax)
    BY <2>1, <2>2, SetupAssumption
  <2> QED
    BY <1>2, <2>3 DEF AsAsked, AskedMilliseconds, ms
<1> QED
  BY <1>1, <1>2

\* A receive thread's wait is as long as asked, or INFINITE for all from that on.
ReceiveWaitAsAsked(v, wait) ==
  IF v = Empty THEN wait = 1000
  ELSE /\ AskedMilliseconds(v) < Infinite => wait = AskedMilliseconds(v)
       /\ AskedMilliseconds(v) >= Infinite => wait = Infinite

LEMMA ReceiveWait ==
  ASSUME NEW v, IsReading(v), IsTimeout(v)
  PROVE  ReceiveWaitAsAsked(v, AsDword(TimeoutOf(v), 1000))
<1> DEFINE wait == AsDword(TimeoutOf(v), 1000)
<1>1. AsAsked(v, wait, 1000, DwordMax)
  BY WaitAsAsked
<1>2. CASE v = Empty
  BY <1>1, <1>2 DEF AsAsked, ReceiveWaitAsAsked
<1>3. CASE v # Empty
  <2> DEFINE ms == AskedMilliseconds(v)
  <2>1. TimeoutOf(v) = {ms} /\ ms \in Nat \ {0}
    BY <1>3, TimeoutIsRounded DEF AskedMilliseconds
  <2>2. wait \in Nat /\ wait <= DwordMax
    <3>1. wait = Min({ms, DwordMax})
      BY <2>1, TheOnly, Zenon DEF AsDword
    <3> HIDE DEF ms
    <3> QED BY <2>1, <3>1, MinOfTwo, SetupAssumption
  <2>3. 0 < wait /\ wait <= ms /\ (wait < ms => wait = DwordMax)
    BY <1>1, <1>3 DEF AsAsked
  <2> HIDE DEF wait, ms
  <2>4. (ms < DwordMax => wait = ms) /\ (ms >= DwordMax => wait = DwordMax)
    BY <2>1, <2>2, <2>3, SetupAssumption
  <2> QED BY <1>3, <2>4 DEF ReceiveWaitAsAsked, Infinite, wait, ms
<1> QED
  BY <1>2, <1>3
-----------------------------------------------------------------------------
(* URLs.                                                                   *)

IsUrl(url) ==
  /\ DOMAIN url = {"blanks", "scheme", "host", "port", "path", "extra"}
  /\ url.port \subseteq Nat /\ IsOption(url.port)
  /\ Lower(Lower(url.host)) = Lower(url.host) /\ (Lower(url.host) = "" => url.host = "")

\* The URL under which a place is registered.
UrlOf(place) ==
  [blanks |-> FALSE,
   scheme |-> IF place.useTls THEN "wss" ELSE "ws",
   host   |-> place.host,
   port   |-> {place.port} \ {IF place.useTls THEN 443 ELSE 80},
   path   |-> place.path, extra |-> place.extra]

\* A place that a URL can name.
IsPlace(place) ==
  /\ place = [host |-> place.host, useTls |-> place.useTls, extra |-> place.extra,
              port |-> place.port, path |-> place.path]
  /\ place.useTls \in BOOLEAN
  /\ Lower(place.host) = place.host /\ place.host # ""
  /\ place.port \in 1..MaxPort
  /\ ~(place.path = "" /\ place.extra = "")

LEMMA PortsFit == MaxPort \in Nat /\ 443 <= MaxPort
BY DEF MaxPort

\* NormalizeRelayUrl names the place meant, or nothing.
LEMMA NormalizedIsMeant ==
  ASSUME NEW raw, IsUrl(raw), NormalizeRelayUrl(raw) # {}
  PROVE  NormalizeRelayUrl(raw) = {UrlOf(Meant(raw))} /\ IsPlace(Meant(raw))
<1> DEFINE tls == Lower(raw.scheme) = "wss"
           url == TrimWhitespace(raw)
           http == [url EXCEPT !.scheme = IF tls THEN "https" ELSE "http"]
           default == IF tls THEN 443 ELSE 80
           parts == [http EXCEPT !.port = IF @ = {} THEN DefaultPort(http.scheme) ELSE The(@)]
<1>1. AsHttp(url) # {}
  BY DEF NormalizeRelayUrl
<1>2. /\ DOMAIN url = DOMAIN raw /\ url.blanks = FALSE /\ url.scheme = raw.scheme
      /\ url.host = raw.host /\ url.port = raw.port /\ url.path = raw.path /\ url.extra = raw.extra
  BY DEF TrimWhitespace, IsUrl
<1>3. AsHttp(url) = Crack(http)
  BY <1>1, <1>2, UrlsAssumption DEF AsHttp, StartsWithInsensitive
<1>4. /\ DOMAIN http = DOMAIN raw /\ http.blanks = FALSE
      /\ http.scheme = (IF tls THEN "https" ELSE "http")
      /\ http.host = raw.host /\ http.port = raw.port /\ http.path = raw.path /\ http.extra = raw.extra
  BY <1>2 DEF IsUrl
<1>5. http.scheme \in {"http", "https"}
  BY <1>4
<1> HIDE DEF http, url
<1>6. Crack(http) = {parts} /\ raw.host # "" /\ raw.port \subseteq 0..MaxPort
  <2>1. Crack(http) = IF http.blanks \/ http.scheme \notin {"http", "https"} \/ http.host = ""
                           \/ ~(http.port \subseteq 0..MaxPort)
                        THEN {} ELSE {parts}
    BY Zenon DEF Crack
  <2> HIDE DEF parts, tls
  <2> QED BY <2>1, <1>1, <1>3, <1>4, Zenon
<1>p. parts.port = (IF raw.port = {} THEN DefaultPort(http.scheme) ELSE The(raw.port))
  <2>1. "port" \in DOMAIN http
    BY <1>4 DEF IsUrl
  <2> QED BY <2>1, <1>4, Zenon
<1>f. /\ parts.scheme = http.scheme /\ parts.host = raw.host
      /\ parts.path = raw.path /\ parts.extra = raw.extra
  BY <1>4 DEF IsUrl
<1> HIDE DEF parts
<1>8. DefaultPort(parts.scheme) = default /\ default \in {80, 443}
  BY <1>4, <1>f DEF DefaultPort
<1>9. PortOf(parts) = Meant(raw).port /\ PortOf(parts) \in 1..MaxPort
  <2> HIDE DEF tls, default
  <2> DEFINE port == raw.port
             parsed == parts.port
             used == IF parsed = 0 THEN default ELSE parsed
  <2>1. Meant(raw).port = IF port \subseteq {0} THEN default ELSE The(port)
    BY DEF Meant, tls, default
  <2>2. PortOf(parts) = used
    BY <1>8, Zenon DEF PortOf
  <2>3. port \subseteq 0..MaxPort /\ IsOption(port)
    BY <1>6 DEF IsUrl
  <2>4. parsed = IF port = {} THEN default ELSE The(port)
    BY <1>p, <1>8, <1>f, Zenon
  <2>5. used = IF parsed = 0 THEN default ELSE parsed
    OBVIOUS
  <2> HIDE DEF port, parsed, used
  <2>6. used = (IF port \subseteq {0} THEN default ELSE The(port)) /\ used \in 1..MaxPort
    <3>1. default \in {80, 443}
      BY <1>8
    <3>2. CASE port = {}
      BY <3>1, <3>2, <2>4, <2>5, PortsFit
    <3>3. ASSUME NEW n \in port
          PROVE  used = (IF port \subseteq {0} THEN default ELSE The(port)) /\ used \in 1..MaxPort
      <4>1. port = {n} /\ The(port) = n
        BY <2>3, TheOption
      <4>2. port \subseteq {0} <=> n = 0
        BY <4>1
      <4>3. parsed = n /\ n \in 0..MaxPort
        BY <4>1, <2>3, <2>4
      <4> QED
        BY <4>1, <4>2, <4>3, <2>5, <3>1, PortsFit
    <3> QED
      BY <3>2, <3>3
  <2> QED
    BY <2>1, <2>2, <2>6
<1>10. PathOf(parts) = Meant(raw).path /\ WrittenPort(parts) = {Meant(raw).port} \ {default}
  BY <1>f, <1>8, <1>9 DEF PathOf, Meant, WrittenPort
<1>11. /\ Meant(raw).useTls = tls /\ tls \in BOOLEAN
       /\ Meant(raw).host = Lower(raw.host) /\ Meant(raw).extra = raw.extra
  BY DEF Meant
<1>12. NormalizeRelayUrl(raw) = {UrlOf(Meant(raw))}
  <2>1. (IF parts.scheme = "https" THEN "wss" ELSE "ws") = (IF Meant(raw).useTls THEN "wss" ELSE "ws")
    BY <1>4, <1>f, <1>11
  <2>2. NormalizeRelayUrl(raw) =
          {[blanks |-> FALSE,
            scheme |-> IF parts.scheme = "https" THEN "wss" ELSE "ws",
            host   |-> Lower(parts.host),
            port   |-> WrittenPort(parts),
            path   |-> PathOf(parts), extra |-> parts.extra]}
    <3>1. AsHttp(url) = {parts}
      BY <1>3, <1>6
    <3> QED BY <3>1 DEF NormalizeRelayUrl, url
  <2>3. default = IF Meant(raw).useTls THEN 443 ELSE 80
    BY <1>11
  <2> HIDE DEF tls, default
  <2> QED
    BY <2>1, <2>2, <2>3, <1>f, <1>10, <1>11, ZenonT(30) DEF UrlOf
<1>13. IsPlace(Meant(raw))
  <2>1. /\ Meant(raw) = [host |-> Meant(raw).host, useTls |-> Meant(raw).useTls,
                         extra |-> Meant(raw).extra,
                         port |-> Meant(raw).port, path |-> Meant(raw).path]
    BY DEF Meant
  <2>2. Lower(Meant(raw).host) = Meant(raw).host /\ Meant(raw).host # ""
    BY <1>6, <1>11 DEF IsUrl
  <2>3. ~(Meant(raw).path = "" /\ Meant(raw).extra = "")
    BY DEF Meant
  <2> QED
    BY <2>1, <2>2, <2>3, <1>9, <1>11 DEF IsPlace
<1> QED
  BY <1>12, <1>13

\* A registered URL has the form of one, and names its place.
LEMMA UrlNamesPlace ==
  ASSUME NEW place, IsPlace(place)
  PROVE  /\ IsUrl(UrlOf(place)) /\ Meant(UrlOf(place)) = place
         /\ InformationUrl(UrlOf(place)) = {place} /\ ParseUrl(UrlOf(place)) = {place}
         /\ NormalizeRelayUrl(UrlOf(place)) = {UrlOf(place)}
<1> DEFINE url == UrlOf(place)
           tls == place.useTls
           default == IF tls THEN 443 ELSE 80
           scheme == IF tls THEN "wss" ELSE "ws"
           https == IF tls THEN "https" ELSE "http"
           http == [url EXCEPT !.scheme = https]
           parts == [http EXCEPT !.port = IF @ = {} THEN DefaultPort(http.scheme) ELSE The(@)]
<1>1. /\ DOMAIN url = {"blanks", "scheme", "host", "port", "path", "extra"}
      /\ url.blanks = FALSE /\ url.scheme = scheme /\ url.host = place.host
      /\ url.port = {place.port} \ {default} /\ url.path = place.path /\ url.extra = place.extra
  BY DEF UrlOf
<1>2. /\ Lower(place.host) = place.host /\ place.host # "" /\ tls \in BOOLEAN
      /\ place.port \in 1..MaxPort /\ ~(place.path = "" /\ place.extra = "")
  BY DEF IsPlace
<1>p. place.port \in 1..MaxPort
  BY DEF IsPlace
<1>3. url.port = IF place.port = default THEN {} ELSE {place.port}
  BY <1>1
<1>4. IsUrl(url)
  <2> HIDE DEF url, default
  <2>0. place.port \in Nat
    BY <1>p, PortsFit
  <2>1. url.port \subseteq Nat
    BY <1>3, <2>0, Zenon
  <2>2. IsOption(url.port)
    BY <1>3 DEF IsOption
  <2> QED BY <1>1, <1>2, <2>1, <2>2 DEF IsUrl
<1>5. Meant(url) = place
  <2>1. Lower(scheme) = scheme /\ (scheme = "wss" <=> tls)
    BY UrlsAssumption
  <2>2. Meant(url).port = place.port
    <3>1. Meant(url).port = IF url.port \subseteq {0} THEN default ELSE The(url.port)
      <4> HIDE DEF url
      <4>1. Meant(url).port = IF url.port \subseteq {0}
                              THEN (IF Lower(url.scheme) = "wss" THEN 443 ELSE 80)
                              ELSE The(url.port)
        BY DEF Meant
      <4> QED BY <4>1, <1>1, <2>1
    <3>2. CASE place.port = default
      BY <3>1, <3>2, <1>3
    <3>3. CASE place.port # default
      <4>1. url.port = {place.port} /\ The(url.port) = place.port
        BY <3>3, <1>3, TheOnly
      <4>2. place.port # 0
        BY <1>p, PortsFit
      <4>3. ~(url.port \subseteq {0})
        BY <4>1, <4>2, Zenon
      <4> QED BY <3>1, <4>1, <4>3
    <3> QED BY <3>2, <3>3
  <2>3. Meant(url).path = place.path
    BY <1>1, <1>2 DEF Meant
  <2>4. Meant(url).host = place.host /\ Meant(url).useTls = tls /\ Meant(url).extra = place.extra
    BY <1>1, <1>2, <2>1, ZenonT(30) DEF Meant
  <2>5. Meant(url) = [host |-> Meant(url).host, useTls |-> Meant(url).useTls,
                      extra |-> Meant(url).extra, port |-> Meant(url).port,
                      path |-> Meant(url).path]
    BY DEF Meant
  <2> QED BY <2>2, <2>3, <2>4, <2>5, Zenon DEF IsPlace
<1> HIDE DEF url
<1>6. /\ DOMAIN http = DOMAIN url /\ http.blanks = FALSE /\ http.scheme = https
      /\ http.host = place.host /\ http.port = url.port /\ http.path = place.path
      /\ http.extra = place.extra
  BY <1>1
<1>7. Crack(http) = {parts}
  <2>1. Crack(http) = IF http.blanks \/ http.scheme \notin {"http", "https"} \/ http.host = ""
                           \/ ~(http.port \subseteq 0..MaxPort)
                        THEN {} ELSE {parts}
    BY Zenon DEF Crack
  <2>2. https \in {"http", "https"}
    OBVIOUS
  <2>3. place.port \in 0..MaxPort
    BY <1>p, PortsFit
  <2>4. url.port \subseteq 0..MaxPort
    BY <1>3, <2>3, Zenon
  <2> HIDE DEF parts, http, https
  <2> QED BY <1>2, <1>6, <2>1, <2>2, <2>4, Zenon
<1>8. Place(parts) = place
  <2>1. /\ parts.scheme = https /\ parts.host = place.host /\ parts.path = place.path
        /\ parts.extra = place.extra
    BY <1>6, <1>1
  <2>2. parts.port = IF url.port = {} THEN DefaultPort(http.scheme) ELSE The(url.port)
    <3>1. "port" \in DOMAIN http
      BY <1>6, <1>1
    <3> HIDE DEF http
    <3> QED BY <3>1, <1>6, Zenon
  <2> HIDE DEF parts, http
  <2>3. DefaultPort(parts.scheme) = default /\ DefaultPort(http.scheme) = default
    BY <2>1, <1>6 DEF DefaultPort
  <2>4. parts.port = place.port
    <3>1. CASE place.port = default
      BY <3>1, <2>2, <2>3, <1>3
    <3>2. CASE place.port # default
      <4>1. url.port = {place.port} /\ The(url.port) = place.port
        BY <3>2, <1>3, TheOnly
      <4> QED BY <4>1, <2>2
    <3> QED BY <3>1, <3>2
  <2>0. place.port # 0
    BY <1>p, PortsFit
  <2>5. PortOf(parts) = place.port
    BY <2>4, <2>0 DEF PortOf
  <2>6. (parts.scheme = "https") = tls
    BY <2>1, <1>2
  <2>7. Place(parts) = [host |-> place.host, port |-> place.port, path |-> place.path,
                        extra |-> place.extra, useTls |-> tls]
    <3>1. PathOf(parts) = place.path
      BY <2>1, <1>2 DEF PathOf
    <3> QED BY <2>1, <2>5, <2>6, <3>1 DEF Place
  <2>8. place = [host |-> place.host, useTls |-> place.useTls, extra |-> place.extra,
                 port |-> place.port, path |-> place.path]
    BY Zenon DEF IsPlace
  <2> QED BY <2>7, <2>8
<1>9. [url EXCEPT !.scheme = HttpScheme(@)] = http
  <2>1. HttpScheme(scheme) = https
    BY DEF HttpScheme
  <2>2. url.scheme = scheme
    BY <1>1
  <2> HIDE DEF https, scheme
  <2> QED BY <2>1, <2>2
<1>10. InformationUrl(url) = {place} /\ ParseUrl(url) = {place}
  <2>1. InformationUrl(url) = {Place(p) : p \in Crack(http)} /\ ParseUrl(url) = {Place(p) : p \in Crack(http)}
    BY <1>9, Zenon DEF InformationUrl, ParseUrl
  <2> HIDE DEF parts, http
  <2> QED BY <2>1, <1>7, <1>8
<1>11. NormalizeRelayUrl(url) # {}
  <2>1. TrimWhitespace(url) = url
    <3>1. ASSUME NEW u, NEW b, NEW s, NEW h, NEW n, NEW p, NEW x,
                 u = [blanks |-> b, scheme |-> s, host |-> h, port |-> n, path |-> p, extra |-> x]
          PROVE  [u EXCEPT !.blanks = b] = u
      BY <3>1
    <3>2. url = [blanks |-> FALSE, scheme |-> scheme, host |-> place.host,
                 port |-> {place.port} \ {default}, path |-> place.path, extra |-> place.extra]
      BY Zenon DEF UrlOf, url
    <3> HIDE DEF url, scheme, default
    <3> QED BY <3>1, <3>2, Zenon DEF TrimWhitespace
  <2>2. Lower(scheme) = scheme /\ (scheme = "wss" <=> tls) /\ (~tls => scheme = "ws")
    BY UrlsAssumption
  <2>3. AsHttp(url) = Crack(http)
    BY <1>1, <2>2 DEF AsHttp, StartsWithInsensitive
  <2> HIDE DEF parts, http
  <2>4. AsHttp(TrimWhitespace(url)) = {parts}
    BY <2>1, <2>3, <1>7, Zenon
  <2> QED BY <2>4 DEF NormalizeRelayUrl
<1>12. NormalizeRelayUrl(url) = {url}
  BY <1>4, <1>5, <1>11, NormalizedIsMeant DEF url
<1> QED
  BY <1>4, <1>5, <1>10, <1>12 DEF url
-----------------------------------------------------------------------------
(* The client's options, its sessions and the objects that speak of them.  *)

\* Options are normalized once, from what the application gave.
OptionsInv ==
  \/ given = {} /\ options = {}
  \/ \E g \in given : /\ given = {g} /\ options = {NormalizeClientOptions(g)}
                      /\ AreClientOptions(g) /\ \A p \in TimeoutNames : IsReading(g[p])

\* Objects are numbered, and each has a URL, a connection and an answer.
IsConnected(x) ==
  LET place == Meant(x.descriptor.url)
  IN  /\ \E c \in Connections : x.descriptor = c[1] /\ x.response = c[2]
      /\ RelayInformation(x.response) # {}
      /\ NormalizeRelayUrl(x.descriptor.url) # {}
      /\ x.reached = <<{place}, {place}>>

ObjectsInv ==
  /\ IsFiniteSet(objects)
  /\ \A x \in objects : x.number \in 1..Cardinality(objects) /\ IsConnected(x)
  /\ \A x, y \in objects : x.number = y.number => x = y

\* The data of a session, when u is its URL and x the object handed out for it.
SessionFor(x, u) ==
  LET s == sessions[u]
  IN  /\ s.number = x.number /\ s.url = u /\ u = UrlOf(Meant(x.descriptor.url))
      /\ s.readEnabled = (Flag(x.descriptor.readEnabled) = VariantTrue)
      /\ s.writeEnabled = (Flag(x.descriptor.writeEnabled) = VariantTrue)
      /\ s.preferred = (Flag(x.descriptor.preferred) = VariantTrue)
      /\ s.metadataJson = x.response.document /\ s.supportedNips = x.response.nips
      /\ s.runtimeOptions \in options

SessionsInv == \A u \in DOMAIN sessions : \E x \in objects : SessionFor(x, u)

SetupInv == OptionsInv /\ ObjectsInv /\ SessionsInv

LEMMA InitializeStep ==
  ASSUME SetupInv, NEW q \in ClientOptions, NEW o \in {q, CClientOptions(q)}, Initialize(o)
  PROVE  SetupInv'
<1>1. ASSUME NEW p \in TimeoutNames
      PROVE  o[p] = q[p] /\ IsReading(o[p])
  <2>1. p \in DOMAIN q /\ IsReading(q[p])
    BY TimesAssumption DEF TimeoutNames, IsReading
  <2>2. CClientOptions(q)[p] = q[p]
    BY <2>1 DEF CClientOptions, TimeoutNames
  <2> QED
    BY <2>1, <2>2
<1>2. OptionsInv'
  BY <1>1, Zenon DEF OptionsInv, Initialize
<1>3. ObjectsInv'
  BY DEF SetupInv, ObjectsInv, Initialize
<1>4. SessionsInv'
  <2>1. options = {} /\ sessions' = sessions
    BY DEF Initialize
  <2>2. DOMAIN sessions = {}
    BY <2>1, Zenon DEF SetupInv, SessionsInv, SessionFor
  <2> QED
    BY <2>1, <2>2, Zenon DEF SessionsInv
<1> QED
  BY <1>2, <1>3, <1>4 DEF SetupInv

LEMMA DisconnectStep ==
  ASSUME SetupInv, NEW text, DisconnectRelay(text)
  PROVE  SetupInv'
<1>1. UNCHANGED <<given, options, objects>>
  BY DEF DisconnectRelay
<1>2. PICK url \in DOMAIN sessions : sessions' = [u \in DOMAIN sessions \ {url} |-> sessions[u]]
  BY DEF DisconnectRelay
<1>3. OptionsInv' /\ ObjectsInv'
  BY <1>1 DEF SetupInv, OptionsInv, ObjectsInv
<1>4. SessionsInv'
  <2>1. ASSUME NEW u \in DOMAIN sessions'
        PROVE  \E x \in objects' : SessionFor(x, u)'
    <3>1. u \in DOMAIN sessions /\ sessions'[u] = sessions[u]
      BY <1>2
    <3>2. PICK x \in objects : SessionFor(x, u)
      BY <3>1 DEF SetupInv, SessionsInv
    <3>3. SessionFor(x, u)'
      BY <1>1, <3>1, <3>2 DEF SessionFor
    <3> QED BY <1>1, <3>2, <3>3
  <2> QED BY <2>1 DEF SessionsInv
<1> QED
  BY <1>3, <1>4 DEF SetupInv

\* A number that an int can hold is read as it is.
LEMMA AsIntInRange == ASSUME NEW n \in -IntMax - 1..IntMax PROVE AsInt(n) = n
<1>1. ASSUME NEW k \in Nat, NEW m \in Nat, k < m PROVE k % m = k
  BY <1>1
<1>2. n + IntMax + 1 \in Nat /\ 2 * (IntMax + 1) \in Nat /\ n + IntMax + 1 < 2 * (IntMax + 1)
  BY MessagesAssumption
<1>3. (n + IntMax + 1) % (2 * (IntMax + 1)) = n + IntMax + 1
  BY <1>1, <1>2
<1> QED
  BY <1>3, MessagesAssumption DEF AsInt

\* What PerformGet takes from an answer is the relay's whole document.
LEMMA AnswerIsWhole ==
  ASSUME NEW c \in Connections, NEW info \in RelayInformation(c[2])
  PROVE  /\ info.metadataJson = c[2].document /\ c[2].document # ""
         /\ info.supportedNips = c[2].nips
<1>1. PICK j \in Parsed(Body(c[2].chunks)) :
        info = [supportedNips |-> SupportedNips(j), metadataJson |-> Body(c[2].chunks)]
  BY DEF RelayInformation
<1> DEFINE whole == WholeNumbers(j)
<1>2. /\ Body(c[2].chunks) = c[2].document /\ c[2].document # ""
      /\ c[2].nips = [i \in DOMAIN whole |-> whole[i].integer]
      /\ \A i \in DOMAIN c[2].nips : c[2].nips[i] \in -IntMax - 1..IntMax
  BY DocumentsAssumption
<1>3. SupportedNips(j) = [i \in DOMAIN whole |-> AsInt(whole[i].integer)]
  BY DEF SupportedNips
<1> HIDE DEF whole
<1>4. ASSUME NEW i \in DOMAIN whole PROVE AsInt(whole[i].integer) = whole[i].integer
  BY <1>2, AsIntInRange
<1> QED
  BY <1>1, <1>2, <1>3, <1>4

LEMMA ConnectStep ==
  ASSUME SetupInv, NEW c \in Connections, ConnectRelay(c[1], c[2])
  PROVE  SetupInv'
<1> DEFINE d == c[1]
           data == ReadRelayDescriptor(CRelayDescriptor(d))
           number == Cardinality(objects) + 1
           place == Meant(d.url)
<1>1. PICK o \in options, info \in RelayInformation(c[2]),
           url \in NormalizeRelayUrl(d.url) \ DOMAIN sessions :
        /\ sessions' = [u \in DOMAIN sessions \union {url} |->
                          IF u = url
                          THEN [number |-> number, url |-> url, preferred |-> data.preferred,
                                readEnabled |-> data.readEnabled,
                                writeEnabled |-> data.writeEnabled,
                                metadataJson |-> IF info.metadataJson # "" THEN info.metadataJson
                                                                           ELSE data.metadataJson,
                                supportedNips |-> info.supportedNips, runtimeOptions |-> o]
                          ELSE sessions[u]]
        /\ objects' = objects \union
             {[number |-> number, descriptor |-> d, response |-> c[2],
               reached |-> <<InformationUrl(url), ParseUrl(url)>>]}
  BY Zenon DEF ConnectRelay
<1>2. UNCHANGED <<given, options>>
  BY DEF ConnectRelay
<1>3. url = UrlOf(place) /\ IsPlace(place) /\ NormalizeRelayUrl(d.url) # {}
  <2>1. IsUrl(d.url)
    BY UrlsAssumption DEF IsUrl
  <2> QED BY <2>1, NormalizedIsMeant
<1>4. InformationUrl(url) = {place} /\ ParseUrl(url) = {place}
  BY <1>3, UrlNamesPlace
<1> DEFINE x == [number |-> number, descriptor |-> d, response |-> c[2],
                 reached |-> <<InformationUrl(url), ParseUrl(url)>>]
<1>5. OptionsInv'
  BY <1>2 DEF SetupInv, OptionsInv
<1>6. /\ x.number = number /\ x.descriptor = d /\ x.response = c[2]
      /\ x.reached = <<{place}, {place}>>
  BY <1>4
<1>7. objects' = objects \union {x} /\ number \in Nat
  <2>1. Cardinality(objects) \in Nat
    BY FS_CardinalityType DEF SetupInv, ObjectsInv
  <2>2. number \in Nat
    BY <2>1
  <2>3. objects' = objects \union {x}
    BY <1>1, Zenon
  <2> QED BY <2>2, <2>3
<1>a. /\ data.readEnabled = (Flag(d.readEnabled) = VariantTrue)
      /\ data.writeEnabled = (Flag(d.writeEnabled) = VariantTrue)
      /\ data.preferred = (Flag(d.preferred) = VariantTrue)
  <2>1. {"readEnabled", "writeEnabled", "preferred"} \subseteq DOMAIN d
    BY DocumentsAssumption
  <2> QED BY <2>1 DEF CRelayDescriptor, ReadRelayDescriptor
<1>b. sessions'[url] =
        [number |-> number, url |-> url, preferred |-> data.preferred,
         readEnabled |-> data.readEnabled, writeEnabled |-> data.writeEnabled,
         metadataJson |-> c[2].document, supportedNips |-> c[2].nips, runtimeOptions |-> o]
  <2>1. info.metadataJson = c[2].document /\ c[2].document # "" /\ info.supportedNips = c[2].nips
    BY AnswerIsWhole
  <2> HIDE DEF data, number
  <2> QED BY <1>1, <2>1
<1> HIDE DEF x, place, data
<1>8. ObjectsInv'
  <2>1. IsFiniteSet(objects) /\ Cardinality(objects) \in Nat
    BY FS_CardinalityType DEF SetupInv, ObjectsInv
  <2>2. \A y \in objects : y.number \in 1..Cardinality(objects) /\ IsConnected(y)
    BY DEF SetupInv, ObjectsInv
  <2>3. x \notin objects
    BY <1>6, <2>1, <2>2
  <2>4. IsFiniteSet(objects') /\ Cardinality(objects') = number
    BY <1>7, <2>1, <2>3, FS_AddElement
  <2>5. IsConnected(x)
    BY <1>1, <1>3, <1>6, Zenon DEF IsConnected, place
  <2>6. \A y \in objects' : y.number \in 1..Cardinality(objects') /\ IsConnected(y)
    BY <1>6, <1>7, <2>1, <2>2, <2>4, <2>5
  <2>7. \A y, z \in objects' : y.number = z.number => y = z
    <3>1. \A y, z \in objects : y.number = z.number => y = z
      BY DEF SetupInv, ObjectsInv
    <3>2. \A y \in objects : y.number # x.number
      BY <1>6, <2>1, <2>2
    <3> QED BY <1>7, <3>1, <3>2, Zenon
  <2>8. \A y : IsConnected(y)' = IsConnected(y)
    BY DEF IsConnected
  <2> QED BY <2>4, <2>6, <2>7, <2>8 DEF ObjectsInv
<1>9. SessionsInv'
  <2>1. ASSUME NEW u \in DOMAIN sessions'
        PROVE  \E y \in objects' : SessionFor(y, u)'
    <3>1. CASE u = url
      <4> DEFINE s == sessions'[u]
      <4>1. /\ s.number = number /\ s.url = url /\ s.metadataJson = c[2].document
            /\ s.supportedNips = c[2].nips /\ s.runtimeOptions = o
            /\ s.readEnabled = data.readEnabled /\ s.writeEnabled = data.writeEnabled
            /\ s.preferred = data.preferred
        <5> HIDE DEF number
        <5> QED BY <1>b, <3>1
      <4> HIDE DEF s, number
      <4>2. PICK z \in objects' : z = x
        BY <1>7
      <4>3. SessionFor(z, u)'
        <5>1. s.url = u /\ u = UrlOf(Meant(z.descriptor.url)) /\ s.runtimeOptions \in options'
          BY <1>2, <1>3, <1>6, <3>1, <4>1, <4>2 DEF place
        <5>2. s.readEnabled = (Flag(z.descriptor.readEnabled) = VariantTrue)
              /\ s.writeEnabled = (Flag(z.descriptor.writeEnabled) = VariantTrue)
              /\ s.preferred = (Flag(z.descriptor.preferred) = VariantTrue)
          BY <1>a, <1>6, <4>1, <4>2
        <5>3. /\ s.number = z.number /\ s.metadataJson = z.response.document
              /\ s.supportedNips = z.response.nips
          BY <1>6, <4>1, <4>2
        <5> QED BY <5>1, <5>2, <5>3, Zenon DEF SessionFor, s
      <4> QED BY <4>3, Zenon
    <3>2. CASE u # url
      <4>1. u \in DOMAIN sessions /\ sessions'[u] = sessions[u]
        BY <1>1, <3>2
      <4>2. PICK y \in objects : SessionFor(y, u)
        BY <4>1 DEF SetupInv, SessionsInv
      <4>3. SessionFor(y, u)'
        BY <1>2, <4>1, <4>2 DEF SessionFor
      <4> QED BY <1>7, <4>2, <4>3
    <3> QED BY <3>1, <3>2
  <2> QED BY <2>1 DEF SessionsInv
<1> QED
  BY <1>5, <1>8, <1>9 DEF SetupInv

LEMMA SetUpStep == ASSUME SetupInv, SetUp PROVE SetupInv'
<1>1. CASE \E o \in ClientOptions : Initialize(o) \/ Initialize(CClientOptions(o))
  BY <1>1, InitializeStep
<1>2. CASE \E c \in Connections : ConnectRelay(c[1], c[2])
  BY <1>2, ConnectStep
<1>3. CASE \E text \in RelayUrls : DisconnectRelay(text)
  BY <1>3, DisconnectStep
<1> QED
  BY <1>1, <1>2, <1>3 DEF SetUp

LEMMA SetupInvariant == Spec => []SetupInv
<1>1. Init => SetupInv
  <2>1. ASSUME Init PROVE SetupInv
    <3>1. given = {} /\ options = {} /\ sessions = <<>> /\ objects = {}
      BY <2>1 DEF Init, SetupInit
    <3>2. ObjectsInv
      BY <3>1, FS_EmptySet DEF ObjectsInv
    <3>3. OptionsInv /\ SessionsInv
      BY <3>1 DEF OptionsInv, SessionsInv
    <3> QED BY <3>2, <3>3 DEF SetupInv
  <2> QED BY <2>1
<1>2. SetupInv /\ [Next]_vars => SetupInv'
  <2>1. ASSUME SetupInv, SetUp PROVE SetupInv'
    BY <2>1, SetUpStep
  <2>2. ASSUME SetupInv, UNCHANGED setupVars PROVE SetupInv'
    BY <2>2 DEF SetupInv, OptionsInv, ObjectsInv, IsConnected, SessionsInv, SessionFor, setupVars
  <2> QED BY <2>1, <2>2 DEF Next, vars
<1> QED
  BY <1>1, <1>2, PTL DEF Spec

\* The session of an object that still has one.
LEMMA SessionOfObject ==
  ASSUME SetupInv, NEW x \in objects, NEW s \in Locked(x)
  PROVE  \E u \in DOMAIN sessions : s = sessions[u] /\ SessionFor(x, u)
<1>1. PICK u \in DOMAIN sessions : s = sessions[u] /\ sessions[u].number = x.number
  BY Zenon DEF Locked
<1>2. PICK y \in objects : SessionFor(y, u)
  BY <1>1, Zenon DEF SetupInv, SessionsInv
<1>3. y = x
  BY <1>1, <1>2 DEF SetupInv, ObjectsInv, SessionFor
<1> QED
  BY <1>1, <1>2, <1>3

LEMMA ConnectedIsPlace ==
  ASSUME SetupInv, NEW x \in objects
  PROVE  /\ IsConnected(x)
         /\ IsPlace(Meant(x.descriptor.url))
<1>1. IsConnected(x)
  BY DEF SetupInv, ObjectsInv
<1>2. IsUrl(x.descriptor.url)
  BY <1>1, UrlsAssumption DEF IsConnected, IsUrl
<1>3. NormalizeRelayUrl(x.descriptor.url) # {}
  BY <1>1 DEF IsConnected
<1> QED
  BY <1>1, <1>2, <1>3, NormalizedIsMeant

\* Sessions are told apart, are registered under their URLs and have objects: what
\* relaySessions_ and the weak references of the session objects rely on.
THEOREM SetupTypesHold == Spec => []SetupTypes
<1>1. SetupInv => SetupTypes
  <2> SUFFICES ASSUME SetupInv PROVE SetupTypes
    OBVIOUS
  <2>1. \A o \in options : o = NormalizeClientOptions(The(given))
    BY TheOnly, Zenon DEF SetupInv, OptionsInv
  <2>2. ASSUME NEW u \in DOMAIN sessions, NEW v \in DOMAIN sessions,
               sessions[u].number = sessions[v].number
        PROVE  u = v
    <3>1. PICK x \in objects : SessionFor(x, u)
      BY DEF SetupInv, SessionsInv
    <3>2. PICK y \in objects : SessionFor(y, v)
      BY DEF SetupInv, SessionsInv
    <3>3. x = y
      BY <2>2, <3>1, <3>2, ZenonT(30) DEF SetupInv, ObjectsInv, SessionFor
    <3> QED BY <3>1, <3>2, <3>3 DEF SessionFor
  <2>3. \A u \in DOMAIN sessions : /\ sessions[u].url = u
                                   /\ \E x \in objects : x.number = sessions[u].number
    BY DEF SetupInv, SessionsInv, SessionFor
  <2> QED BY <2>1, <2>2, <2>3 DEF SetupTypes
<1> QED
  BY <1>1, SetupInvariant, PTL

\* Each timeout reaches WinHTTP and the waits as it was asked for, or as long as its
\* type allows, and WinHTTP never as 0 or -1; for the receive thread's wait, each
\* timeout below INFINITE does, and each other one is INFINITE: applyTimeout,
\* ToTimeoutValue and the Resolve...Milliseconds functions, for every way to write a
\* number of seconds.
THEOREM WaitsAsAskedHolds == Spec => []WaitsAsAsked
<1>1. SetupInv => WaitsAsAsked
  <2> SUFFICES ASSUME SetupInv PROVE WaitsAsAsked
    OBVIOUS
  <2> SUFFICES ASSUME NEW g \in given,
                      NEW o \in OptionsInUse
               PROVE  /\ AsAsked(g.connectTimeoutSeconds, Settings(o).connect, -1, IntMax)
                      /\ AsAsked(g.sendTimeoutSeconds, Settings(o).send, -1, IntMax)
                      /\ AsAsked(g.receiveTimeoutSeconds, Settings(o).receive, -1, IntMax)
                      /\ AsAsked(g.receiveTimeoutSeconds, ResolveOkWaitTimeoutMilliseconds(o), 10000, DwordMax)
                      /\ ReceiveWaitAsAsked(g.receiveTimeoutSeconds, ResolveReceiveTimeoutMilliseconds(o))
    BY DEF WaitsAsAsked, ReceiveWaitAsAsked
  <2>1. o \in options
    BY DEF OptionsInUse, SetupInv, SessionsInv, SessionFor
  <2>2. /\ o = NormalizeClientOptions(g) /\ AreClientOptions(g)
        /\ \A p \in TimeoutNames : IsReading(g[p])
    BY <2>1, Zenon DEF SetupInv, OptionsInv
  <2>3. /\ o.connectTimeout = TimeoutOf(g.connectTimeoutSeconds)
        /\ o.sendTimeout = TimeoutOf(g.sendTimeoutSeconds)
        /\ o.receiveTimeout = TimeoutOf(g.receiveTimeoutSeconds)
    BY <2>2 DEF NormalizeClientOptions
  <2>4. /\ IsTimeout(g.connectTimeoutSeconds) /\ IsReading(g.connectTimeoutSeconds)
        /\ IsTimeout(g.sendTimeoutSeconds) /\ IsReading(g.sendTimeoutSeconds)
        /\ IsTimeout(g.receiveTimeoutSeconds) /\ IsReading(g.receiveTimeoutSeconds)
    BY <2>2 DEF AreClientOptions, TimeoutNames
  <2>5. /\ Settings(o).connect = ToTimeoutValue(o.connectTimeout)
        /\ Settings(o).send = ToTimeoutValue(o.sendTimeout)
        /\ Settings(o).receive = ToTimeoutValue(o.receiveTimeout)
    BY DEF Settings
  <2>6. /\ ReceiveWaitAsAsked(g.receiveTimeoutSeconds, ResolveReceiveTimeoutMilliseconds(o))
        /\ AsAsked(g.receiveTimeoutSeconds, ResolveOkWaitTimeoutMilliseconds(o), 10000, DwordMax)
    BY <2>3, <2>4, WaitAsAsked, ReceiveWait
       DEF ResolveReceiveTimeoutMilliseconds, ResolveOkWaitTimeoutMilliseconds
  <2> QED BY <2>3, <2>4, <2>5, <2>6, SettingAsAsked
<1> QED
  BY <1>1, SetupInvariant, PTL

\* The three parsers of a URL (NormalizeRelayUrl, ParseUrl and PerformGet) agree on the
\* place the application means, and a relay has one session, found under every
\* spelling of its URL and under no URL of another relay.
THEOREM ReachesRelayMeantHolds == Spec => []ReachesRelayMeant
<1>1. SetupInv => ReachesRelayMeant
  <2> SUFFICES ASSUME SetupInv PROVE ReachesRelayMeant
    OBVIOUS
  <2>1. ASSUME NEW url \in ListRelays, NEW other \in ListRelays, Meant(url) = Meant(other)
        PROVE  url = other
    <3>1. PICK x \in objects : url = UrlOf(Meant(x.descriptor.url))
      BY DEF ListRelays, SetupInv, SessionsInv, SessionFor
    <3>2. PICK y \in objects : other = UrlOf(Meant(y.descriptor.url))
      BY DEF ListRelays, SetupInv, SessionsInv, SessionFor
    <3>3. Meant(url) = Meant(x.descriptor.url) /\ Meant(other) = Meant(y.descriptor.url)
      BY <3>1, <3>2, ConnectedIsPlace, UrlNamesPlace
    <3> QED BY <2>1, <3>1, <3>2, <3>3
  <2>2. ASSUME NEW x \in objects
        PROVE  x.reached = <<{Meant(x.descriptor.url)}, {Meant(x.descriptor.url)}>>
    BY ConnectedIsPlace DEF IsConnected
  <2>3. ASSUME NEW x \in objects, NEW s \in Locked(x), NEW text \in RelayUrls,
               NormalizeRelayUrl(text) # {}
        PROVE  (s.url \in NormalizeRelayUrl(text)) = (Meant(text) = Meant(x.descriptor.url))
    <3>1. s.url = UrlOf(Meant(x.descriptor.url))
      BY SessionOfObject DEF SessionFor
    <3>2. IsUrl(text)
      BY UrlsAssumption DEF IsUrl
    <3>3. NormalizeRelayUrl(text) = {UrlOf(Meant(text))} /\ IsPlace(Meant(text))
      BY <2>3, <3>2, NormalizedIsMeant
    <3>4. /\ Meant(UrlOf(Meant(text))) = Meant(text)
          /\ Meant(UrlOf(Meant(x.descriptor.url))) = Meant(x.descriptor.url)
      BY <3>3, ConnectedIsPlace, UrlNamesPlace
    <3> QED BY <3>1, <3>3, <3>4
  <2> QED BY <2>1, <2>2, <2>3, Zenon DEF ReachesRelayMeant
<1> QED
  BY <1>1, SetupInvariant, PTL

\* CNostrRelaySession::GetDescriptor and SupportedNips, through a weak reference, speak
\* of the session the object was handed out for, with the relay's whole document.
THEOREM SessionAsAnnouncedHolds == Spec => []SessionAsAnnounced
<1>1. SetupInv => SessionAsAnnounced
  <2> SUFFICES ASSUME SetupInv, NEW x \in objects, NEW g \in GetDescriptor(x)
               PROVE  /\ g.readEnabled = Flag(x.descriptor.readEnabled)
                      /\ g.writeEnabled = Flag(x.descriptor.writeEnabled)
                      /\ g.preferred = Flag(x.descriptor.preferred)
                      /\ HasRelay(g.url) /\ Meant(g.url) = Meant(x.descriptor.url)
                      /\ Holds(g.metadata, "bstr") /\ g.metadata.bstr = x.response.document
                      /\ get_SupportedNips(x) = {x.response.nips}
    BY Zenon DEF SessionAsAnnounced
  <2> DEFINE Shown(s) ==
        [url |-> s.url, preferred |-> AsFlag(s.preferred),
         readEnabled |-> AsFlag(s.readEnabled), writeEnabled |-> AsFlag(s.writeEnabled),
         metadata |-> IF s.metadataJson = "" THEN Empty ELSE Bstr(CStr(s.metadataJson))]
  <2>1. PICK s \in Locked(x) : g = CRelayDescriptor(Shown(s))
    BY Zenon DEF GetDescriptor
  <2>2. PICK u \in DOMAIN sessions : s = sessions[u] /\ SessionFor(x, u)
    BY SessionOfObject
  <2>3. /\ g.readEnabled = Flag(AsFlag(s.readEnabled))
        /\ g.writeEnabled = Flag(AsFlag(s.writeEnabled))
        /\ g.preferred = Flag(AsFlag(s.preferred)) /\ g.url = s.url
        /\ g.metadata = IF s.metadataJson = "" THEN Empty ELSE Bstr(CStr(s.metadataJson))
    BY <2>1 DEF CRelayDescriptor
  <2>4. \A n : Flag(AsFlag(Flag(n) = VariantTrue)) = Flag(n)
    BY DEF Flag, AsFlag, VariantTrue
  <2>5. /\ g.readEnabled = Flag(x.descriptor.readEnabled)
        /\ g.writeEnabled = Flag(x.descriptor.writeEnabled)
        /\ g.preferred = Flag(x.descriptor.preferred)
    <3>1. /\ s.readEnabled = (Flag(x.descriptor.readEnabled) = VariantTrue)
          /\ s.writeEnabled = (Flag(x.descriptor.writeEnabled) = VariantTrue)
          /\ s.preferred = (Flag(x.descriptor.preferred) = VariantTrue)
      BY <2>2, Zenon DEF SessionFor
    <3> QED BY <2>3, <2>4, <3>1
  <2>6. /\ u = UrlOf(Meant(x.descriptor.url)) /\ s.url = u /\ IsPlace(Meant(x.descriptor.url))
    BY <2>2, ConnectedIsPlace DEF SessionFor
  <2>7. HasRelay(g.url) /\ Meant(g.url) = Meant(x.descriptor.url)
    <3>1. NormalizeRelayUrl(u) = {u} /\ Meant(u) = Meant(x.descriptor.url)
      BY <2>6, UrlNamesPlace
    <3>2. g.url = u
      BY <2>3, <2>6
    <3> QED BY <3>1, <3>2, Zenon DEF HasRelay
  <2>8. Holds(g.metadata, "bstr") /\ g.metadata.bstr = x.response.document
    <3>1. PICK c \in Connections : x.response = c[2] /\ RelayInformation(c[2]) # {}
      BY ConnectedIsPlace DEF IsConnected
    <3>a. PICK j \in Parsed(Body(c[2].chunks)) : TRUE
      BY <3>1, Zenon DEF RelayInformation
    <3>2. x.response.document # "" /\ CStr(x.response.document) = x.response.document
      BY <3>1, <3>a, DocumentsAssumption, Zenon
    <3>3. g.metadata = Bstr(x.response.document)
      BY <2>2, <2>3, <3>2 DEF SessionFor
    <3> QED BY <3>3 DEF Holds, Bstr
  <2>9. get_SupportedNips(x) = {x.response.nips}
    <3>1. \A t \in Locked(x) : t.supportedNips = x.response.nips
      BY SessionOfObject DEF SessionFor
    <3> QED BY <3>1 DEF get_SupportedNips
  <2> QED BY <2>5, <2>7, <2>8, <2>9
<1> QED
  BY <1>1, SetupInvariant, PTL
-----------------------------------------------------------------------------
(* Events and the objects that hold them.                                  *)

\* A text that no conversion changes.
IsPlainText(t) == t # "" /\ CStr(t) = t /\ Utf8(t) = t

\* Converting a text twice is converting it once, no text stays none, and a text that
\* UTF-8 can write can still be written up to its NUL; hashes, signatures and keys are hex.
ConversionsAreSound ==
  /\ \A t : CStr(CStr(t)) = CStr(t) /\ Utf8(Utf8(t)) = Utf8(t)
  /\ \A t : (~IsGiven(t) => CStr(t) = t) /\ (IsUtf8(t) => IsUtf8(CStr(t)))
  /\ \A h : IsPlainText(Hash(h))
  /\ \A h, n : IsPlainText(Sign(h, n))
  /\ IsPlainText(SignerKey)

\* An event as an object holds it.
IsObjectEvent(o) ==
  /\ o = [p \in EventFields |-> o[p]]
  /\ CStr(o.id) = o.id /\ CStr(o.publicKey) = o.publicKey /\ CStr(o.content) = o.content
  /\ CStr(o.signature) = o.signature /\ CTags(o.tags) = o.tags

LEMMA TagsThroughArrays == ASSUME NEW tags PROVE TagMatrix(SafeArrayFromTags(tags)) = CTags(tags)
<1>1. ASSUME NEW i \in DOMAIN tags
      PROVE  StringVector(Array("bstr", tags[i])) = [k \in DOMAIN tags[i] |-> CStr(tags[i][k])]
  BY DEF StringVector, Array
<1>2. SafeArrayFromTags(tags).array = [i \in DOMAIN tags |-> Array("bstr", tags[i])]
  BY DEF SafeArrayFromTags, Array
<1> QED
  BY <1>1, <1>2, Zenon DEF TagMatrix, CTags

LEMMA CTagsTwice ==
  ASSUME ConversionsAreSound, NEW tags PROVE CTags(CTags(tags)) = CTags(tags)
<1>1. \A t : CStr(CStr(t)) = CStr(t)
  BY DEF ConversionsAreSound
<1> QED
  BY <1>1 DEF CTags

\* What a NostrEvent holds of an event.
LEMMA NostrEventFields ==
  ASSUME NEW e, DOMAIN e = EventFields
  PROVE  LET o == NostrEvent(e)
         IN  /\ o = [p \in EventFields |-> o[p]]
             /\ o.id = CStr(e.id) /\ o.publicKey = CStr(e.publicKey)
             /\ o.content = CStr(e.content) /\ o.signature = CStr(e.signature)
             /\ o.tags = CTags(e.tags) /\ o.kind = e.kind /\ o.createdAt = e.createdAt
<1>1. NostrEvent(e) = [WithCStrings(e) EXCEPT !.tags = CTags(e.tags)]
  BY TagsThroughArrays DEF NostrEvent
<1> QED
  BY <1>1 DEF WithCStrings, EventFields

LEMMA WithCStringsFields ==
  ASSUME NEW e, DOMAIN e = EventFields
  PROVE  LET o == WithCStrings(e)
         IN  /\ o = [p \in EventFields |-> o[p]]
             /\ o.id = CStr(e.id) /\ o.publicKey = CStr(e.publicKey)
             /\ o.content = CStr(e.content) /\ o.signature = CStr(e.signature)
             /\ o.tags = CTags(e.tags) /\ o.kind = e.kind /\ o.createdAt = e.createdAt
BY DEF WithCStrings, EventFields

LEMMA NostrEventIsObjectEvent ==
  ASSUME ConversionsAreSound, NEW e, DOMAIN e = EventFields
  PROVE  IsObjectEvent(NostrEvent(e))
<1>1. \A t : CStr(CStr(t)) = CStr(t)
  BY DEF ConversionsAreSound
<1> QED
  BY <1>1, NostrEventFields, CTagsTwice DEF IsObjectEvent

\* The conversions of PublishEvent leave an event alone that an object has held.
LEMMA ObjectEventIsKept ==
  ASSUME NEW o, IsObjectEvent(o)
  PROVE  /\ DOMAIN o = EventFields
         /\ WithCStrings(o) = o /\ NostrEvent(o) = o /\ ReadEventFromDispatch(o) = o
         /\ WriteEventBackToDispatch(o) = o
<1>1. DOMAIN o = EventFields
  BY DEF IsObjectEvent
<1>2. ASSUME NEW x, x = [p \in EventFields |-> x[p]], x.id = o.id, x.publicKey = o.publicKey,
             x.content = o.content, x.signature = o.signature, x.tags = o.tags,
             x.kind = o.kind, x.createdAt = o.createdAt
      PROVE  x = o
  <2>1. \A p \in EventFields : x[p] = o[p]
    BY <1>2 DEF EventFields
  <2> QED BY <1>2, <2>1, Zenon DEF IsObjectEvent
<1>3. WithCStrings(o) = o
  BY <1>1, <1>2, WithCStringsFields DEF IsObjectEvent
<1>4. NostrEvent(o) = o
  BY <1>1, <1>2, NostrEventFields DEF IsObjectEvent
<1>5. ReadEventFromDispatch(o) = o
  <2>1. ReadEventFromDispatch(o) = [o EXCEPT !.tags = CTags(o.tags)]
    BY TagsThroughArrays DEF ReadEventFromDispatch
  <2>2. CTags(o.tags) = o.tags
    BY DEF IsObjectEvent
  <2> QED BY <1>1, <1>2, <2>1, <2>2 DEF EventFields
<1> QED
  BY <1>1, <1>3, <1>4, <1>5 DEF WriteEventBackToDispatch
-----------------------------------------------------------------------------
(* What is in messages, garbled or not.                                    *)

\* A number is one of halves, and a text is UTF-8.
IsSoundLeaf(v) ==
  /\ IsNumber(v) => Number(v) \in Int
  /\ IsString(v) => IsUtf8(v.string)

IsSoundValue(v) ==
  /\ IsSoundLeaf(v)
  /\ IsObject(v) => \A p \in DOMAIN v.object : IsSoundLeaf(v.object[p])

IsSound(j) == \E S : (\A v \in S : IsSoundValue(v)) /\ j.array \in Seq(S)

LEMMA SoundLeaves ==
  /\ \A t : IsUtf8(t) => IsSoundLeaf(Str(t)) /\ IsSoundValue(Str(t))
  /\ \A t : IsSoundLeaf(Bool(t)) /\ IsSoundValue(Bool(t)) /\ IsSoundLeaf(Arr(t))
  /\ \A n \in Int : IsSoundLeaf(Whole(n)) /\ IsSoundLeaf(Real(n))
  /\ \A o : (\A p \in DOMAIN o : IsSoundLeaf(o[p])) => IsSoundValue(Obj(o))
<1>1. \A t : IsUtf8(t) => IsSoundLeaf(Str(t)) /\ IsSoundValue(Str(t))
  BY DEF IsSoundLeaf, IsSoundValue, IsNumber, IsString, IsObject, Str
<1>2. \A t : IsSoundLeaf(Bool(t)) /\ IsSoundValue(Bool(t)) /\ IsSoundLeaf(Arr(t))
  BY DEF IsSoundLeaf, IsSoundValue, IsNumber, IsString, IsObject, Bool, Arr
<1>3. \A n \in Int : IsSoundLeaf(Whole(n)) /\ IsSoundLeaf(Real(n))
  <2>1. \A n \in Int : Number(Whole(n)) \in Int /\ Number(Real(n)) \in Int
    BY DEF Number, Whole, Real
  <2>2. \A n : ~IsString(Whole(n)) /\ ~IsString(Real(n))
    BY DEF IsString, Whole, Real
  <2> QED BY <2>1, <2>2 DEF IsSoundLeaf
<1>4. \A o : (\A p \in DOMAIN o : IsSoundLeaf(o[p])) => IsSoundValue(Obj(o))
  BY DEF IsSoundLeaf, IsSoundValue, IsNumber, IsString, Obj
<1> QED
  BY <1>1, <1>2, <1>3, <1>4

LEMMA EventFormIsSound ==
  ASSUME NEW e, e.kind \in Int, e.createdAt \in Int,
         \A t \in {e.id, e.publicKey, e.content, e.signature} : IsUtf8(t), NEW b \in EventForms(e)
  PROVE  IsSoundValue(b)
<1> DEFINE at == IF e.createdAt % 2 = 0 THEN Whole(e.createdAt \div 2) ELSE Real(e.createdAt)
           lists == [i \in DOMAIN e.tags |-> Arr([k \in DOMAIN e.tags[i] |-> Str(e.tags[i][k])])]
           o == [id |-> Str(e.id), pubkey |-> Str(e.publicKey), sig |-> Str(e.signature),
                 created_at |-> at, kind |-> Whole(e.kind), content |-> Str(e.content),
                 tags |-> Arr(lists)]
<1>1. PICK left \in SUBSET DOMAIN o : b = Obj([p \in DOMAIN o \ left |-> o[p]])
  BY DEF EventForms
<1>2. IsSoundLeaf(at)
  <2>1. e.createdAt % 2 = 0 => e.createdAt \div 2 \in Int
    OBVIOUS
  <2> QED BY <2>1, SoundLeaves
<1>3. /\ IsSoundLeaf(Whole(e.kind)) /\ IsSoundLeaf(Arr(lists))
      /\ IsSoundLeaf(Str(e.id)) /\ IsSoundLeaf(Str(e.publicKey))
      /\ IsSoundLeaf(Str(e.content)) /\ IsSoundLeaf(Str(e.signature))
  BY SoundLeaves
<1> HIDE DEF at, lists
<1>4. \A p \in DOMAIN o : IsSoundLeaf(o[p])
  BY <1>2, <1>3
<1> HIDE DEF o
<1> QED
  BY <1>1, <1>4, SoundLeaves

LEMMA JoinedSeq == ASSUME NEW S, NEW s \in Seq(S), NEW t \in Seq(S) PROVE s \o t \in Seq(S)
OBVIOUS

LEMMA SoundArray ==
  ASSUME NEW S, \A v \in S : IsSoundValue(v), NEW s \in Seq(S) PROVE IsSound(Arr(s))
BY Zenon DEF IsSound, Arr

LEMMA OptionalTextIsSeq == ASSUME NEW text, NEW t \in OptionalText(text) PROVE t \in Seq({Str(text)})
<1>1. t \in {<< >>, <<Str(text)>>}
  BY DEF OptionalText
<1>2. << >> \in Seq({Str(text)}) /\ <<Str(text)>> \in Seq({Str(text)})
  OBVIOUS
<1> QED
  BY <1>1, <1>2, Zenon

LEMMA LargerSeq == ASSUME NEW S, NEW T, S \subseteq T, NEW s \in Seq(S) PROVE s \in Seq(T)
OBVIOUS

\* What a relay writes has numbers where it means numbers, and its texts are UTF-8.
LEMMA EncodingIsSound ==
  ASSUME NEW r \in Meanings, NEW j \in Encodings(r) PROVE IsSound(j)
<1>0. /\ r.type \in MessageTypes /\ \A t \in MessageTexts(r) : IsUtf8(t)
      /\ \A t \in MessageTypes \union Times : IsUtf8(t)
  BY WorldAssumption
<1>1. CASE r.type = "EVENT"
  <2>1. r.event.kind \in Int /\ r.event.createdAt \in Int /\ IsOption(r.subscriptionId)
    BY <1>1, WorldAssumption
  <2>2. PICK b \in EventForms(r.event) :
          j = Arr(<<Str("EVENT")>> \o (IF r.subscriptionId = {} THEN << >>
                                       ELSE <<Str(The(r.subscriptionId))>>) \o <<b>>)
    BY <1>1 DEF Encodings
  <2> DEFINE T == IF r.subscriptionId = {} THEN {Str("EVENT"), b}
                  ELSE {Str("EVENT"), Str(The(r.subscriptionId)), b}
             id == IF r.subscriptionId = {} THEN << >> ELSE <<Str(The(r.subscriptionId))>>
  <2>3. \A v \in T : IsSoundValue(v)
    <3>1. MessageTexts(r) = r.subscriptionId \union {r.event.id, r.event.publicKey,
                                                     r.event.content, r.event.signature}
      BY <1>1 DEF MessageTexts
    <3>2. IsSoundValue(b)
      BY <1>0, <2>1, <3>1, EventFormIsSound
    <3>3. IsSoundValue(Str("EVENT"))
      BY <1>0, SoundLeaves DEF MessageTypes
    <3>4. r.subscriptionId # {} => IsSoundValue(Str(The(r.subscriptionId)))
      <4>1. r.subscriptionId # {} => The(r.subscriptionId) \in r.subscriptionId
        BY <2>1, TheOption
      <4> QED BY <1>0, <3>1, <4>1, SoundLeaves
    <3> QED BY <3>2, <3>3, <3>4
  <2>4. <<Str("EVENT")>> \in Seq(T) /\ id \in Seq(T) /\ <<b>> \in Seq(T)
    <3>1. Str("EVENT") \in T /\ b \in T
      OBVIOUS
    <3>2. r.subscriptionId # {} => Str(The(r.subscriptionId)) \in T
      OBVIOUS
    <3> HIDE DEF T
    <3> QED BY <3>1, <3>2
  <2> HIDE DEF T, id
  <2>5. <<Str("EVENT")>> \o id \o <<b>> \in Seq(T)
    BY <2>4, JoinedSeq
  <2> QED BY <2>2, <2>3, <2>5, SoundArray DEF id
<1>2. CASE r.type = "OK"
  <2> DEFINE T == {Str("OK"), Str(r.eventId), Bool(r.success), Str(r.message)}
             head == <<Str("OK"), Str(r.eventId), Bool(r.success)>>
  <2>1. PICK t \in OptionalText(r.message) : j = Arr(head \o t)
    BY <1>2 DEF Encodings
  <2>2. \A v \in T : IsSoundValue(v)
    BY <1>0, <1>2, SoundLeaves DEF MessageTypes, MessageTexts
  <2>3. head \in Seq(T) /\ {Str(r.message)} \subseteq T
    OBVIOUS
  <2> HIDE DEF T, head
  <2>4. t \in Seq(T)
    BY <2>3, OptionalTextIsSeq, LargerSeq
  <2> QED BY <2>1, <2>2, <2>3, <2>4, JoinedSeq, SoundArray
<1>3. CASE r.type = "CLOSED"
  <2> DEFINE T == {Str("CLOSED"), Str(r.subscriptionId), Str(r.reason)}
             head == <<Str("CLOSED"), Str(r.subscriptionId)>>
  <2>1. PICK t \in OptionalText(r.reason) : j = Arr(head \o t)
    BY <1>3 DEF Encodings
  <2>2. \A v \in T : IsSoundValue(v)
    BY <1>0, <1>3, SoundLeaves DEF MessageTypes, MessageTexts
  <2>3. head \in Seq(T) /\ {Str(r.reason)} \subseteq T
    OBVIOUS
  <2> HIDE DEF T, head
  <2>4. t \in Seq(T)
    BY <2>3, OptionalTextIsSeq, LargerSeq
  <2> QED BY <2>1, <2>2, <2>3, <2>4, JoinedSeq, SoundArray
<1>4. ASSUME NEW v, NEW w, IsSoundValue(v), IsSoundValue(w) PROVE IsSound(Arr(<<v, w>>))
  <2>1. <<v, w>> \in Seq({v, w})
    OBVIOUS
  <2> QED BY <1>4, <2>1, SoundArray
<1>5. CASE r.type = "NOTICE"
  <2>1. j = Arr(<<Str("NOTICE"), Str(r.message)>>)
    BY <1>5 DEF Encodings
  <2>2. IsSoundValue(Str("NOTICE")) /\ IsSoundValue(Str(r.message))
    BY <1>0, <1>5, SoundLeaves DEF MessageTypes, MessageTexts
  <2> QED BY <1>4, <2>1, <2>2
<1>6. CASE r.type = "EOSE"
  <2>1. j = Arr(<<Str("EOSE"), Str(r.subscriptionId)>>)
    BY <1>6 DEF Encodings
  <2>2. IsSoundValue(Str("EOSE")) /\ IsSoundValue(Str(r.subscriptionId))
    BY <1>0, <1>6, SoundLeaves DEF MessageTypes, MessageTexts
  <2> QED BY <1>4, <2>1, <2>2
<1>7. CASE r.type = "AUTH"
  <2>1. PICK f \in ChallengeForms(r) : j = Arr(<<Str("AUTH"), f>>)
    BY <1>7 DEF Encodings
  <2>2. IsSoundValue(Str("AUTH")) /\ IsSoundLeaf(Str(r.challenge)) /\ IsSoundValue(Str(r.challenge))
    BY <1>0, <1>7, SoundLeaves DEF MessageTypes, MessageTexts
  <2>3. IsSoundValue(f)
    <3>1. CASE r.expiresAt = {}
      <4>1. f = Str(r.challenge) \/ \E p \in ChallengeNames : f = ChallengeAlone(p, r.challenge)
        BY <3>1 DEF ChallengeForms
      <4>2. ASSUME NEW p PROVE IsSoundValue(ChallengeAlone(p, r.challenge))
        <5>1. PICK o : o = [x \in {p} |-> Str(r.challenge)]
          OBVIOUS
        <5>2. \A x \in DOMAIN o : IsSoundLeaf(o[x])
          BY <2>2, <5>1
        <5> QED BY <5>1, <5>2, SoundLeaves, Zenon DEF ChallengeAlone
      <4> QED BY <2>2, <4>1, <4>2
    <3>2. CASE r.expiresAt # {}
      <4>1. PICK p \in ChallengeNames, q \in ExpiryNames, time \in ExpiryForms(r.expiresAt) :
              f = ChallengeBody(p, r.challenge, q, time)
        BY <2>1, <3>2 DEF ChallengeForms
      <4>2. The(r.expiresAt) \in Int
        BY <1>7, <3>2, WorldAssumption, TheOption
      <4>3. IsSoundLeaf(time)
        BY <1>0, <4>1, <4>2, SoundLeaves DEF ExpiryForms
      <4> DEFINE o == [x \in {p, q} |-> IF x = p THEN Str(r.challenge) ELSE time]
      <4>4. \A x \in DOMAIN o : IsSoundLeaf(o[x])
        BY <2>2, <4>3
      <4> HIDE DEF o
      <4> QED BY <4>1, <4>4, SoundLeaves DEF ChallengeBody, o
    <3> QED BY <3>1, <3>2
  <2> QED BY <1>4, <2>1, <2>2, <2>3
<1> QED
  BY <1>0, <1>1, <1>2, <1>3, <1>5, <1>6, <1>7 DEF MessageTypes

LEMMA ChangedSeq ==
  ASSUME NEW S, NEW s \in Seq(S), NEW k, NEW v PROVE [s EXCEPT ![k] = v] \in Seq(S \union {v})
<1> DEFINE t == [s EXCEPT ![k] = v]
<1>1. Len(s) \in Nat /\ DOMAIN t = 1..Len(s) /\ t = [i \in 1..Len(s) |-> t[i]]
  OBVIOUS
<1>2. \A i \in 1..Len(s) : t[i] \in S \union {v}
  OBVIOUS
<1> HIDE DEF t
<1>3. [i \in 1..Len(s) |-> t[i]] \in Seq(S \union {v})
  BY <1>1, <1>2
<1> QED
  BY <1>1, <1>3, Zenon DEF t

\* So has what is left of it when it is garbled.
LEMMA GarbledIsSound ==
  ASSUME NEW j, IsSound(j), NEW g \in Garbled(j) PROVE IsSound(g)
<1> DEFINE last == Len(j.array)
           body == IF IsObject(j.array[last]) THEN j.array[last].object ELSE <<>>
           properties == DOMAIN body \ ExpiryNames
           bodies == {[body EXCEPT ![p] = Bool(FALSE)] : p \in properties}
                       \cup {[q \in DOMAIN body \ {p} |-> body[q]] : p \in properties}
                       \cup {[body EXCEPT !.kind = Whole(IntMax + 1)] : p \in properties \cap {"kind"}}
           Shorter(k) == [i \in 1..last - 1 |-> IF i < k THEN j.array[i] ELSE j.array[i + 1]]
           Changed1(k) == [j.array EXCEPT ![k] = Bool(FALSE)]
           Changed2(o) == [j.array EXCEPT ![last] = Obj(o)]
<1>1. PICK S : (\A v \in S : IsSoundValue(v)) /\ j.array \in Seq(S)
  BY DEF IsSound
<1>2. \/ \E k \in 1..last : g = Arr(Shorter(k)) \/ g = Arr(Changed1(k))
      \/ \E o \in bodies : g = Arr(Changed2(o))
  BY Zenon DEF Garbled
<1>3. \A t : Arr(t).array = t
  BY DEF Arr
<1>4. ASSUME NEW k \in 1..last, g = Arr(Shorter(k)) PROVE IsSound(g)
  <2>1. Shorter(k) \in Seq(S)
    BY <1>1
  <2> HIDE DEF Shorter
  <2> QED BY <1>1, <1>3, <1>4, <2>1, Zenon DEF IsSound
<1>5. ASSUME NEW k \in 1..last, g = Arr(Changed1(k)) PROVE IsSound(g)
  <2>1. Changed1(k) \in Seq(S \union {Bool(FALSE)})
    BY <1>1, ChangedSeq
  <2>2. \A v \in S \union {Bool(FALSE)} : IsSoundValue(v)
    BY <1>1, SoundLeaves
  <2> HIDE DEF Changed1
  <2> QED BY <1>3, <1>5, <2>1, <2>2, Zenon DEF IsSound
<1>6. ASSUME NEW o \in bodies, g = Arr(Changed2(o)) PROVE IsSound(g)
  <2>1. CASE last = 0
    <3>1. DOMAIN j.array = {} /\ Changed2(o) = j.array
      BY <1>1, <2>1
    <3> HIDE DEF Changed2
    <3> QED BY <1>1, <1>3, <1>6, <3>1, Zenon DEF IsSound
  <2>2. CASE last # 0
    <3>1. \A x \in DOMAIN body : IsSoundLeaf(body[x])
      <4>1. j.array[last] \in S
        BY <1>1, <2>2
      <4> QED BY <1>1, <4>1 DEF IsSoundValue
    <3> HIDE DEF body
    <3>2. \A x \in DOMAIN o : \/ o[x] \in {Bool(FALSE), Whole(IntMax + 1)}
                              \/ x \in DOMAIN body /\ o[x] = body[x]
      OBVIOUS
    <3>3. IsSoundValue(Obj(o))
      <4>1. IsSoundLeaf(Whole(IntMax + 1)) /\ IsSoundLeaf(Bool(FALSE))
        <5>1. IntMax + 1 \in Int
          BY MessagesAssumption
        <5> QED BY <5>1, SoundLeaves
      <4>2. \A x \in DOMAIN o : IsSoundLeaf(o[x])
        BY <3>1, <3>2, <4>1, SoundLeaves
      <4> QED BY <4>2, SoundLeaves
    <3>4. Changed2(o) \in Seq(S \union {Obj(o)})
      BY <1>1, ChangedSeq
    <3>5. \A v \in S \union {Obj(o)} : IsSoundValue(v)
      BY <1>1, <3>3
    <3> HIDE DEF Changed2
    <3> QED BY <1>3, <1>6, <3>4, <3>5, Zenon DEF IsSound
  <2> QED BY <2>1, <2>2
<1> HIDE DEF Shorter, Changed1, Changed2, bodies
<1> QED
  BY <1>2, <1>4, <1>5, <1>6, Zenon

\* An event as it is read.
IsReadEvent(e) ==
  /\ DOMAIN e = EventFields
  /\ e.kind \in -IntMax - 1..IntMax /\ e.createdAt \in Int

LEMMA TruncatedInRange ==
  ASSUME NEW d \in Int, IsInt(d) PROVE Truncated(d) \in -IntMax - 1..IntMax
<1>1. CASE d >= 0
  <2>1. d \div 2 \in Int /\ 0 <= d \div 2 /\ 2 * (d \div 2) <= d
    BY <1>1
  <2> QED BY <1>1, <2>1, MessagesAssumption DEF Truncated, IsInt
<1>2. CASE ~(d >= 0)
  <2>1. (-d) \div 2 \in Int /\ 0 <= (-d) \div 2 /\ 2 * ((-d) \div 2) <= -d
    BY <1>2
  <2> QED BY <1>2, <2>1, MessagesAssumption DEF Truncated, IsInt
<1> QED
  BY <1>1, <1>2

LEMMA EventAsRead ==
  ASSUME NEW j, IsSound(j), NEW r \in Deserialized(j), r.type = "EVENT"
  PROVE  IsReadEvent(r.event)
<1>1. IsEvent(j) /\ r = DeserializeEvent(j)
  <2>1. /\ DeserializeOk(j).type = "OK" /\ DeserializeNotice(j).type = "NOTICE"
        /\ DeserializeEndOfStoredEvents(j).type = "EOSE" /\ DeserializeClosed(j).type = "CLOSED"
        /\ DeserializeAuthChallenge(j).type = "AUTH"
    BY DEF DeserializeOk, DeserializeNotice, DeserializeEndOfStoredEvents, DeserializeClosed,
           DeserializeAuthChallenge
  <2> QED BY <2>1 DEF Deserialized
<1>2. PICK S : (\A v \in S : IsSoundValue(v)) /\ j.array \in Seq(S)
  BY DEF IsSound
<1> DEFINE b == j.array[EventIndex(j)]
<1>3. IsEventBody(b)
  BY <1>1 DEF IsEvent
<1>4. b \in S
  <2>1. Len(j.array) >= 2
    BY <1>1 DEF IsEvent, IsFrame
  <2> QED BY <1>2, <2>1 DEF EventIndex
<1>5. IsSoundValue(b)
  BY <1>2, <1>4
<1> HIDE DEF b
<1>6. Number(b.object.kind) \in Int /\ Number(b.object.created_at) \in Int /\ IsInt(Number(b.object.kind))
  BY <1>3, <1>5 DEF IsSoundValue, IsSoundLeaf, IsEventBody, HasNumber, HasInt, Has
<1>7. r.event = ReadEventObject(b)
  BY <1>1 DEF DeserializeEvent, b
<1>8. Truncated(Number(b.object.kind)) \in -IntMax - 1..IntMax
  BY <1>6, TruncatedInRange
<1>9. /\ DOMAIN r.event = EventFields /\ r.event.kind = Truncated(Number(b.object.kind))
      /\ r.event.createdAt = Number(b.object.created_at)
  <2>1. /\ ReadEventObject(b).kind = Truncated(Number(b.object.kind))
        /\ ReadEventObject(b).createdAt = Number(b.object.created_at)
    BY DEF ReadEventObject
  <2>2. DOMAIN ReadEventObject(b) = EventFields
    BY DEF ReadEventObject, EventFields
  <2> QED BY <1>7, <2>1, <2>2, Zenon
<1> QED
  BY <1>6, <1>8, <1>9 DEF IsReadEvent
-----------------------------------------------------------------------------
(* The event object and its messages.                                      *)

IsSigned(o) == o.id = ComputeEventId(o) /\ \E n \in Nonces : o.signature = Sign(o.id, n)

\* What has been sent of the object is the event it holds, with nothing left to sign.
EventsInv ==
  /\ IsOption(object) /\ \A o \in object : IsObjectEvent(o) /\ IsReadEvent(o)
  /\ \A m \in sent : \E o \in object : m = SerializeEvent(o) /\ ~RequiresSigning(o)
  /\ signed \in BOOLEAN /\ (signed => \A o \in object : IsSigned(o))
  /\ subscription = {} => sent = {} /\ signed = FALSE
  /\ \A d \in lastEvent : d \in Int

\* An object that has taken an event.
LEMMA ObjectTakes ==
  ASSUME ConversionsAreSound, NEW e, IsReadEvent(e)
  PROVE  /\ IsObjectEvent(NostrEvent(e)) /\ IsReadEvent(NostrEvent(e))
         /\ IsReadEvent(WithCStrings(e))
<1>1. DOMAIN e = EventFields
  BY DEF IsReadEvent
<1>2. IsObjectEvent(NostrEvent(e))
  BY <1>1, NostrEventIsObjectEvent
<1>3. /\ DOMAIN NostrEvent(e) = EventFields
      /\ NostrEvent(e).kind = e.kind /\ NostrEvent(e).createdAt = e.createdAt
  BY <1>1, NostrEventFields
<1>4. /\ DOMAIN WithCStrings(e) = EventFields
      /\ WithCStrings(e).kind = e.kind /\ WithCStrings(e).createdAt = e.createdAt
  BY <1>1, WithCStringsFields
<1> QED
  BY <1>2, <1>3, <1>4 DEF IsReadEvent

LEMMA ChangedStep ==
  ASSUME ConversionsAreSound, EventsInv,
         NEW o, o = {} \/ \E e : IsReadEvent(e) /\ o = {NostrEvent(e)}, Changed(o)
  PROVE  EventsInv'
<1>1. object' = o /\ sent' = {} /\ signed' = FALSE /\ UNCHANGED <<lastEvent, subscription>>
  BY DEF Changed
<1>2. IsOption(o) /\ \A x \in o : IsObjectEvent(x) /\ IsReadEvent(x)
  BY ObjectTakes DEF IsOption
<1> QED
  BY <1>1, <1>2 DEF EventsInv, IsOption

LEMMA IncomingEventStep ==
  ASSUME ConversionsAreSound, EventsInv, NEW j, IsSound(j), NEW meant,
         HandleIncomingMessage(j, meant)
  PROVE  EventsInv'
<1>1. UNCHANGED subscription
  BY DEF HandleIncomingMessage
<1>2. ASSUME NEW r \in Deserialized(j), r.type = "EVENT", DispatchEventMessage(r.event, meant)
      PROVE  EventsInv'
  <2>1. IsReadEvent(r.event)
    BY <1>2, EventAsRead
  <2>2. /\ lastEvent' = {r.event.createdAt} /\ sent' = {} /\ signed' = FALSE
        /\ object' = {NostrEvent(WithCStrings(r.event))}
    BY <1>2 DEF DispatchEventMessage, PopulateEventDispatch
  <2>3. /\ IsObjectEvent(NostrEvent(WithCStrings(r.event)))
        /\ IsReadEvent(NostrEvent(WithCStrings(r.event)))
    BY <2>1, ObjectTakes
  <2>4. r.event.createdAt \in Int
    BY <2>1 DEF IsReadEvent
  <2> QED BY <1>1, <2>2, <2>3, <2>4 DEF EventsInv, IsOption
<1>3. ASSUME UNCHANGED <<lastEvent, eventVars>> PROVE EventsInv'
  BY <1>1, <1>3 DEF EventsInv, eventVars
<1> QED
  BY <1>2, <1>3 DEF HandleIncomingMessage, DispatchAuthRequired

LEMMA RelayStep ==
  ASSUME ConversionsAreSound, EventsInv, RelaySends \/ RelayGarbles
  PROVE  EventsInv'
<1>1. CASE RelaySends
  <2>1. PICK r \in MeaningsNow : \E j \in Encodings(r) : HandleIncomingMessage(j, {r})
    BY <1>1 DEF RelaySends
  <2> QED BY <2>1, EncodingIsSound, IncomingEventStep DEF MeaningsNow
<1>2. CASE RelayGarbles
  <2>1. PICK r \in MeaningsNow : \E j \in UNION {Garbled(k) : k \in Encodings(r)} :
          HandleIncomingMessage(j, {})
    BY <1>2 DEF RelayGarbles
  <2>2. PICK k \in Encodings(r) : \E j \in Garbled(k) : HandleIncomingMessage(j, {})
    BY <2>1
  <2>3. IsSound(k)
    BY EncodingIsSound DEF MeaningsNow
  <2> QED BY <2>2, <2>3, GarbledIsSound, IncomingEventStep
<1> QED
  BY <1>1, <1>2

LEMMA ApplicationStep ==
  ASSUME ConversionsAreSound, EventsInv,
         CreateEvent \/ PutContent \/ Unsign \/ ReleaseEvent \/ CopyChallenge
  PROVE  EventsInv'
<1>1. CASE CreateEvent
  <2>1. PICK e \in IF subscription = {} THEN AuthDrafts ELSE Drafts : Changed({NostrEvent(e)})
    BY <1>1 DEF CreateEvent
  <2>2. IsReadEvent(e)
    BY <2>1, WorldAssumption DEF IsReadEvent, IsRecord
  <2> QED BY <2>1, <2>2, ChangedStep
<1>2. ASSUME NEW o \in object, NEW x, DOMAIN x = DOMAIN o, x.kind = o.kind,
             x.createdAt = o.createdAt, Changed({NostrEvent(x)})
      PROVE  EventsInv'
  <2>1. IsReadEvent(x)
    BY <1>2 DEF EventsInv, IsReadEvent
  <2> QED BY <1>2, <2>1, ChangedStep
<1>3. CASE PutContent
  <2>1. PICK o \in object, t \in Contents : Changed({NostrEvent([o EXCEPT !.content = t])})
    BY <1>3 DEF PutContent
  <2> DEFINE x == [o EXCEPT !.content = t]
  <2>2. DOMAIN x = DOMAIN o /\ x.kind = o.kind /\ x.createdAt = o.createdAt
    OBVIOUS
  <2>3. Changed({NostrEvent(x)})
    BY <2>1
  <2> HIDE DEF x
  <2> QED BY <1>2, <2>2, <2>3
<1>4. CASE Unsign
  <2>1. PICK o \in object : Changed({NostrEvent([o EXCEPT !.id = "", !.signature = ""])})
    BY <1>4 DEF Unsign
  <2> DEFINE x == [o EXCEPT !.id = "", !.signature = ""]
  <2>2. DOMAIN x = DOMAIN o /\ x.kind = o.kind /\ x.createdAt = o.createdAt
    OBVIOUS
  <2>3. Changed({NostrEvent(x)})
    BY <2>1
  <2> HIDE DEF x
  <2> QED BY <1>2, <2>2, <2>3
<1>5. CASE ReleaseEvent
  BY <1>5, ChangedStep DEF ReleaseEvent
<1>6. CASE CopyChallenge
  <2>1. PICK o \in object, c \in announced :
          Changed({NostrEvent([o EXCEPT !.tags =
                     <<<<"relay", c.relayUrl>>, <<"challenge", c.challenge>>>>])})
    BY <1>6 DEF CopyChallenge
  <2> DEFINE x == [o EXCEPT !.tags =
                     <<<<"relay", c.relayUrl>>, <<"challenge", c.challenge>>>>]
  <2>2. DOMAIN x = DOMAIN o /\ x.kind = o.kind /\ x.createdAt = o.createdAt
    OBVIOUS
  <2>3. Changed({NostrEvent(x)})
    BY <2>1
  <2> HIDE DEF x
  <2> QED BY <1>2, <2>2, <2>3
<1> QED
  BY <1>1, <1>3, <1>4, <1>5, <1>6

LEMMA WithSignatureFields ==
  ASSUME NEW e, DOMAIN e = EventFields, NEW n
  PROVE  LET x == WithSignature(e, n)
         IN  /\ x = [p \in EventFields |-> x[p]]
             /\ x.id = ComputeEventId(e) /\ x.signature = Sign(Hash(Hashed(CreateEventDraft(e))), n)
             /\ x.publicKey = e.publicKey /\ x.content = e.content /\ x.tags = e.tags
             /\ x.kind = e.kind /\ x.createdAt = e.createdAt
BY DEF WithSignature, EventFields

\* The id covers five fields of an event.
LEMMA IdCovers ==
  ASSUME NEW x, NEW y, x.publicKey = y.publicKey, x.createdAt = y.createdAt, x.kind = y.kind,
         x.tags = y.tags, x.content = y.content
  PROVE  Hashed(x) = Hashed(y) /\ ComputeEventId(x) = ComputeEventId(y)
BY DEF Hashed, ComputeEventId

\* The signer's draft of an event that an object has held is the event.
LEMMA DraftIsEvent ==
  ASSUME NEW e, CStr(e.publicKey) = e.publicKey, CStr(e.content) = e.content, CTags(e.tags) = e.tags
  PROVE  Hashed(CreateEventDraft(e)) = Hashed(e)
<1>1. TagMatrix(SafeArrayFromTags(CTags(e.tags))) = e.tags
  BY TagsThroughArrays
<1>2. LET d == CreateEventDraft(e)
      IN  /\ d.publicKey = e.publicKey /\ d.createdAt = e.createdAt /\ d.kind = e.kind
          /\ d.tags = e.tags /\ d.content = e.content
  BY <1>1 DEF CreateEventDraft
<1> QED
  BY <1>2, IdCovers

LEMMA SigningCompletes ==
  ASSUME ConversionsAreSound, NEW o, IsObjectEvent(o), IsReadEvent(o), NEW n \in Nonces
  PROVE  LET e == WithSignature(WithKey(o), n)
         IN  IsObjectEvent(e) /\ IsReadEvent(e) /\ IsSigned(e) /\ ~RequiresSigning(e)
<1> DEFINE k == WithKey(o)
           e == WithSignature(k, n)
<1>1. DOMAIN o = EventFields
  BY DEF IsReadEvent
<1>2. /\ DOMAIN k = EventFields /\ k.content = o.content /\ k.tags = o.tags
      /\ k.kind = o.kind /\ k.createdAt = o.createdAt
      /\ k.publicKey = IF o.publicKey = "" THEN SignerKey ELSE o.publicKey
  BY <1>1 DEF WithKey, EventFields
<1>3. IsPlainText(SignerKey) /\ IsPlainText(ComputeEventId(k)) /\ IsPlainText(Sign(Hash(Hashed(k)), n))
  BY DEF ConversionsAreSound, ComputeEventId
<1>4. /\ CStr(o.publicKey) = o.publicKey /\ CStr(o.content) = o.content /\ CTags(o.tags) = o.tags
  BY DEF IsObjectEvent
<1>5. CStr(k.publicKey) = k.publicKey /\ k.publicKey # ""
  BY <1>2, <1>3, <1>4 DEF IsPlainText
<1>6. Hashed(CreateEventDraft(k)) = Hashed(k)
  BY <1>2, <1>4, <1>5, DraftIsEvent
<1> HIDE DEF k
<1>7. /\ e = [p \in EventFields |-> e[p]]
      /\ e.id = ComputeEventId(k) /\ e.signature = Sign(Hash(Hashed(k)), n)
      /\ e.publicKey = k.publicKey /\ e.content = k.content /\ e.tags = k.tags
      /\ e.kind = k.kind /\ e.createdAt = k.createdAt
  <2>1. /\ e = [p \in EventFields |-> e[p]]
        /\ e.id = ComputeEventId(k) /\ e.signature = Sign(Hash(Hashed(CreateEventDraft(k))), n)
        /\ e.publicKey = k.publicKey /\ e.content = k.content /\ e.tags = k.tags
        /\ e.kind = k.kind /\ e.createdAt = k.createdAt
    BY <1>2, WithSignatureFields, Zenon
  <2> HIDE DEF e
  <2> QED BY <1>6, <2>1
<1> HIDE DEF e
<1>8. IsObjectEvent(e)
  BY <1>2, <1>3, <1>4, <1>5, <1>7 DEF IsObjectEvent, IsPlainText
<1>9. IsReadEvent(e)
  BY <1>2, <1>7 DEF IsReadEvent
<1>10. IsSigned(e)
  <2>1. ComputeEventId(e) = ComputeEventId(k)
    BY <1>7, IdCovers
  <2>2. Hash(Hashed(k)) = ComputeEventId(k)
    BY DEF ComputeEventId
  <2> QED BY <1>7, <2>1, <2>2 DEF IsSigned
<1>11. ~RequiresSigning(e)
  BY <1>3, <1>5, <1>7 DEF RequiresSigning, IsPlainText
<1> QED
  BY <1>8, <1>9, <1>10, <1>11 DEF e, k

LEMMA PublishStep ==
  ASSUME ConversionsAreSound, EventsInv, NEW n \in Nonces, PublishEvent(n)
  PROVE  EventsInv'
<1>1. PICK o \in object :
        LET own == ReadEventFromDispatch(o)
            event == IF RequiresSigning(own) THEN WithSignature(WithKey(own), n) ELSE own
        IN  /\ object' = {WriteEventBackToDispatch(event)}
            /\ sent' = sent \union {SerializeEvent(event)}
            /\ signed' = (signed \/ RequiresSigning(own))
  BY DEF PublishEvent
<1>2. subscription # {} /\ UNCHANGED <<lastEvent, subscription>>
  BY DEF PublishEvent
<1>3. /\ IsObjectEvent(o) /\ IsReadEvent(o) /\ object = {o}
      /\ \A m \in sent : m = SerializeEvent(o) /\ ~RequiresSigning(o)
      /\ signed \in BOOLEAN /\ (signed => IsSigned(o)) /\ \A d \in lastEvent : d \in Int
  BY DEF EventsInv, IsOption
<1>4. ReadEventFromDispatch(o) = o /\ WriteEventBackToDispatch(o) = o
  BY <1>3, ObjectEventIsKept
<1>5. CASE RequiresSigning(o)
  <2> DEFINE e == WithSignature(WithKey(o), n)
  <2>1. IsObjectEvent(e) /\ IsReadEvent(e) /\ IsSigned(e) /\ ~RequiresSigning(e)
    BY <1>3, SigningCompletes
  <2> HIDE DEF e
  <2>2. object' = {WriteEventBackToDispatch(e)} /\ sent' = sent \union {SerializeEvent(e)} /\ signed' = TRUE
    BY <1>1, <1>4, <1>5 DEF e
  <2>3. WriteEventBackToDispatch(e) = e
    BY <2>1, ObjectEventIsKept
  <2>4. sent = {}
    BY <1>3, <1>5
  <2> QED BY <1>2, <1>3, <2>1, <2>2, <2>3, <2>4 DEF EventsInv, IsOption, IsSigned
<1>6. CASE ~RequiresSigning(o)
  <2>1. object' = object /\ sent' = sent \union {SerializeEvent(o)} /\ signed' = signed
    BY <1>1, <1>3, <1>4, <1>6
  <2> QED BY <1>2, <1>3, <1>6, <2>1 DEF EventsInv, IsOption, IsSigned
<1> QED
  BY <1>5, <1>6

LEMMA AuthEventFields ==
  ASSUME NEW e, DOMAIN e = EventFields
  PROVE  LET x == AuthEvent(e)
         IN  /\ DOMAIN x = EventFields /\ x.kind = kAuthKind
             /\ x.createdAt = IF e.createdAt <= 0 THEN Now ELSE e.createdAt
             /\ x.tags = ChallengeTags(RelayTags(e.tags), ChallengeValue(e.tags))
             /\ x.publicKey = SignerKey /\ x.content = e.content
BY DEF AuthEvent, EventFields

LEMMA RespondStep ==
  ASSUME ConversionsAreSound, EventsInv, NEW n \in Nonces, RespondAuth(n)
  PROVE  EventsInv'
<1>1. subscription = {} /\ UNCHANGED <<lastEvent, subscription, sent, signed>>
  BY DEF RespondAuth, eventVars
<1>2. PICK o \in object :
        \/ object' = object
        \/ object' = {WriteEventBackToDispatch(WithSignature(AuthEvent(ReadEventFromDispatch(o)), n))}
  BY DEF RespondAuth, eventVars
<1>3. IsObjectEvent(o) /\ IsReadEvent(o)
  BY DEF EventsInv
<1>4. DOMAIN o = EventFields /\ ReadEventFromDispatch(o) = o
  BY <1>3, ObjectEventIsKept
<1> DEFINE x == AuthEvent(o)
           e == WithSignature(x, n)
<1>5. DOMAIN x = EventFields /\ x.kind \in -IntMax - 1..IntMax /\ x.createdAt \in Int
  <2>1. kAuthKind \in -IntMax - 1..IntMax /\ Now \in Int
    BY WorldAssumption, MessagesAssumption
  <2>2. o.createdAt \in Int
    BY <1>3 DEF IsReadEvent
  <2> QED BY <1>4, <2>1, <2>2, AuthEventFields
<1> HIDE DEF x
<1>6. IsReadEvent(e)
  BY <1>5, WithSignatureFields DEF IsReadEvent
<1> HIDE DEF e
<1>7. LET y == WriteEventBackToDispatch(e) IN IsObjectEvent(y) /\ IsReadEvent(y)
  BY <1>6, ObjectTakes DEF WriteEventBackToDispatch
<1>8. object' = object \/ object' = {WriteEventBackToDispatch(e)}
  BY <1>2, <1>4 DEF e, x
<1>9. sent = {} /\ signed = FALSE /\ IsOption(object) /\ (\A y \in object : IsObjectEvent(y) /\ IsReadEvent(y))
      /\ \A d \in lastEvent : d \in Int
  BY <1>1 DEF EventsInv
<1>10. IsOption(object') /\ \A y \in object' : IsObjectEvent(y) /\ IsReadEvent(y)
  BY <1>7, <1>8, <1>9 DEF IsOption
<1> QED
  BY <1>1, <1>9, <1>10 DEF EventsInv, IsOption

LEMMA EventsInvariant == ASSUME ConversionsAreSound PROVE Spec => []EventsInv
<1>1. Init => EventsInv
  BY DEF Init, ExchangeInit, EventsInv, IsOption
<1>2. EventsInv /\ [Next]_vars => EventsInv'
  <2> SUFFICES ASSUME EventsInv, [Next]_vars PROVE EventsInv'
    OBVIOUS
  <2>1. ASSUME UNCHANGED <<lastEvent, eventVars, subscription>> PROVE EventsInv'
    BY <2>1 DEF EventsInv, eventVars, IsSigned
  <2>2. CASE UNCHANGED exchangeVars
    BY <2>1, <2>2 DEF exchangeVars
  <2>3. CASE Exchange
    <3>1. CASE RelaySends \/ RelayGarbles
      BY <3>1, RelayStep
    <3>2. CASE CreateEvent \/ PutContent \/ Unsign \/ ReleaseEvent \/ CopyChallenge
      BY <3>2, ApplicationStep
    <3>3. CASE \E n \in Nonces : PublishEvent(n) \/ RespondAuth(n)
      BY <3>3, PublishStep, RespondStep
    <3>4. CASE OpenSubscription
      <4>1. subscription = {} /\ UNCHANGED <<lastEvent, eventVars>>
        BY <3>4 DEF OpenSubscription
      <4> QED BY <4>1 DEF EventsInv, eventVars, IsSigned
    <3>5. CASE UpdateFilters
      BY <2>1, <3>5 DEF UpdateFilters
    <3> QED BY <2>3, <3>1, <3>2, <3>3, <3>4, <3>5 DEF Exchange
  <2> QED BY <2>2, <2>3 DEF Next, vars
<1> QED
  BY <1>1, <1>2, PTL DEF Spec

\* Publishing an event again sends the same message, whether the first call signed it
\* or not: WriteEventBackToDispatch has put into the object what PublishEvent computed.
THEOREM SameMessageAgainHolds == ASSUME ConversionsAreSound PROVE Spec => []SameMessageAgain
<1>1. EventsInv => SameMessageAgain
  BY DEF EventsInv, IsOption, SameMessageAgain
<1> QED
  BY <1>1, EventsInvariant, PTL

\* What a reader of an EVENT message finds in it.
LEMMA SentEventFields ==
  ASSUME NEW o, o.kind \in Int, NEW type
  PROVE  LET e == SentEvent(Arr(<<Str(type), BuildEventObject(o)>>))
         IN  /\ e.id = Utf8(o.id) /\ e.publicKey = Utf8(o.publicKey)
             /\ e.content = Utf8(o.content) /\ e.signature = Utf8(o.signature)
             /\ e.tags = [i \in DOMAIN o.tags |-> [k \in DOMAIN o.tags[i] |-> Utf8(o.tags[i][k])]]
             /\ e.kind = o.kind /\ e.createdAt = o.createdAt
             /\ e = [p \in EventFields |-> e[p]]
<1> DEFINE j == BuildEventObject(o)
           Texts(s) == [k \in DOMAIN s |-> Utf8(s[k])]
<1>1. SentEvent(Arr(<<Str(type), j>>)) = ReadEventObject(j)
  BY DEF SentEvent, Arr
<1>2. DOMAIN j.object = {"id", "pubkey", "created_at", "kind", "tags", "content", "sig"}
  BY DEF BuildEventObject, Obj
<1>3. /\ j.object.id = Str(Utf8(o.id)) /\ j.object.pubkey = Str(Utf8(o.publicKey))
      /\ j.object.content = Str(Utf8(o.content)) /\ j.object.sig = Str(Utf8(o.signature))
      /\ j.object.created_at = Real(o.createdAt) /\ j.object.kind = Whole(o.kind)
      /\ j.object.tags = Arr([i \in DOMAIN o.tags |-> Strings(o.tags[i])])
  BY DEF BuildEventObject, Obj
<1> HIDE DEF j
<1>4. Number(Real(o.createdAt)) = o.createdAt
  BY DEF Number, Real
<1>5. Truncated(Number(Whole(o.kind))) = o.kind
  <2>1. Number(Whole(o.kind)) = 2 * o.kind
    BY DEF Number, Whole
  <2>2. (2 * o.kind) \div 2 = o.kind /\ (-(2 * o.kind)) \div 2 = -o.kind
    OBVIOUS
  <2> QED BY <2>1, <2>2 DEF Truncated
<1>6. ReadTags(j) = [i \in DOMAIN o.tags |-> Texts(o.tags[i])]
  <2>1. ASSUME NEW s PROVE StringsIn(Strings(s)) = Texts(s)
    BY DEF StringsIn, Strings, Arr, Str
  <2>2. Has(j, "tags")
    BY <1>2 DEF Has
  <2>3. j.object.tags.array = [i \in DOMAIN o.tags |-> Strings(o.tags[i])]
    BY <1>3 DEF Arr
  <2> HIDE DEF Texts
  <2> QED BY <2>1, <2>2, <2>3 DEF ReadTags
<1>7. Has(j, "content")
  BY <1>2 DEF Has
<1>8. \A t : Str(t).string = t
  BY DEF Str
<1> DEFINE e == ReadEventObject(j)
<1>9. /\ e.id = Utf8(o.id) /\ e.publicKey = Utf8(o.publicKey)
      /\ e.content = Utf8(o.content) /\ e.signature = Utf8(o.signature)
      /\ e.tags = [i \in DOMAIN o.tags |-> Texts(o.tags[i])]
      /\ e.kind = o.kind /\ e.createdAt = o.createdAt
  <2> HIDE DEF Texts
  <2> QED BY <1>3, <1>4, <1>5, <1>6, <1>7, <1>8 DEF ReadEventObject
<1>10. e = [p \in EventFields |-> e[p]]
  BY DEF ReadEventObject, EventFields
<1> QED
  BY <1>1, <1>9, <1>10 DEF j

\* An id that has been computed from an event is the id of what is sent of it.
LEMMA IdOfSent ==
  ASSUME ConversionsAreSound, NEW o, o.kind \in Int, NEW type
  PROVE  LET e == SentEvent(Arr(<<Str(type), BuildEventObject(o)>>))
         IN  ComputeEventId(e) = ComputeEventId(o)
<1> DEFINE e == SentEvent(Arr(<<Str(type), BuildEventObject(o)>>))
           Texts(tags) == [i \in DOMAIN tags |-> [k \in DOMAIN tags[i] |-> Utf8(tags[i][k])]]
<1>1. /\ e.publicKey = Utf8(o.publicKey) /\ e.content = Utf8(o.content)
      /\ e.tags = Texts(o.tags) /\ e.kind = o.kind /\ e.createdAt = o.createdAt
  BY SentEventFields, ZenonT(30)
<1> HIDE DEF e
<1>2. \A t : Utf8(Utf8(t)) = Utf8(t)
  BY DEF ConversionsAreSound
<1>3. Texts(e.tags) = Texts(o.tags)
  BY <1>1, <1>2
<1>4. /\ Hashed(e) = <<Utf8(e.publicKey), Rounded(e.createdAt), e.kind, Texts(e.tags), Utf8(e.content)>>
      /\ Hashed(o) = <<Utf8(o.publicKey), Rounded(o.createdAt), o.kind, Texts(o.tags), Utf8(o.content)>>
  BY DEF Hashed
<1> HIDE DEF Texts
<1> QED
  BY <1>1, <1>2, <1>3, <1>4 DEF ComputeEventId, e

\* Of a whole second, what ComputeEventId hashes is the event as it is read.
LEMMA IdOfWholeSecond ==
  ASSUME ConversionsAreSound, NEW o, o.kind \in Int, o.createdAt \in Int, NEW type
  PROVE  LET e == SentEvent(Arr(<<Str(type), BuildEventObject(o)>>))
         IN  OnWholeSecond(e) => ComputeEventId(e) = IdOf(e)
<1> DEFINE e == SentEvent(Arr(<<Str(type), BuildEventObject(o)>>))
           Texts(tags) == [i \in DOMAIN tags |-> [k \in DOMAIN tags[i] |-> Utf8(tags[i][k])]]
<1>1. /\ e.publicKey = Utf8(o.publicKey) /\ e.content = Utf8(o.content)
      /\ e.tags = Texts(o.tags) /\ e.createdAt = o.createdAt
  BY SentEventFields, ZenonT(30)
<1> HIDE DEF e
<1>2. \A t : Utf8(Utf8(t)) = Utf8(t)
  BY DEF ConversionsAreSound
<1>3. Texts(e.tags) = e.tags
  BY <1>1, <1>2
<1>4. Utf8(e.publicKey) = e.publicKey /\ Utf8(e.content) = e.content
  BY <1>1, <1>2
<1>5. Hashed(e) = <<Utf8(e.publicKey), Rounded(e.createdAt), e.kind, Texts(e.tags), Utf8(e.content)>>
  BY DEF Hashed
<1> HIDE DEF Texts
<1>6. ASSUME OnWholeSecond(e) PROVE Rounded(e.createdAt) = e.createdAt \div 2
  <2>1. e.createdAt \in Int /\ e.createdAt % 2 = 0
    BY <1>1, <1>6 DEF OnWholeSecond
  <2> QED BY <2>1, SMTT(30) DEF Rounded
<1>7. ASSUME OnWholeSecond(e) PROVE ComputeEventId(e) = IdOf(e)
  BY <1>3, <1>4, <1>5, <1>6, <1>7 DEF ComputeEventId, IdOf
<1> QED
  BY <1>7 DEF e

\* A relay that reads a signed event of a whole second computes the id it finds in it,
\* and the signature is one of that id: ComputeEventId, CreateEventDraft and
\* SerializeEvent see the same event.
THEOREM SignatureCoversSentHolds ==
  ASSUME ConversionsAreSound PROVE Spec => []SignatureCoversSent
<1>1. EventsInv => SignatureCoversSent
  <2> SUFFICES ASSUME EventsInv, signed, NEW m \in sent
               PROVE  /\ OnWholeSecond(SentEvent(m)) => SentEvent(m).id = IdOf(SentEvent(m))
                      /\ \E n \in Nonces : SentEvent(m).signature = Sign(SentEvent(m).id, n)
    BY DEF SignatureCoversSent
  <2>1. PICK o \in object : m = SerializeEvent(o)
    BY DEF EventsInv
  <2>2. IsSigned(o) /\ o.kind \in Int /\ o.createdAt \in Int
    BY MessagesAssumption DEF EventsInv, IsReadEvent
  <2>3. /\ SentEvent(m).id = Utf8(o.id) /\ SentEvent(m).signature = Utf8(o.signature)
        /\ ComputeEventId(SentEvent(m)) = ComputeEventId(o)
        /\ OnWholeSecond(SentEvent(m)) => ComputeEventId(SentEvent(m)) = IdOf(SentEvent(m))
    BY <2>1, <2>2, SentEventFields, IdOfSent, IdOfWholeSecond DEF SerializeEvent
  <2>4. /\ Utf8(o.id) = o.id /\ o.id = ComputeEventId(o)
    BY <2>2 DEF IsSigned, ConversionsAreSound, IsPlainText, ComputeEventId
  <2>5. PICK n \in Nonces : o.signature = Sign(o.id, n)
    BY <2>2 DEF IsSigned
  <2>6. Utf8(o.signature) = o.signature
    BY <2>5 DEF ConversionsAreSound, IsPlainText
  <2> QED BY <2>3, <2>4, <2>5, <2>6
<1> QED
  BY <1>1, EventsInvariant, PTL
-----------------------------------------------------------------------------
(* The answer to a challenge.                                              *)

LEMMA LeastOf ==
  ASSUME NEW S, S \subseteq Nat, S # {} PROVE Min(S) \in S /\ \A y \in S : Min(S) <= y
<1>1. PICK x \in S : \A y \in S : ~(<<y, x>> \in OpToRel(<, Nat))
  BY WFMin, NatLessThanWellFounded, Zenon
<1>2. \A y \in S : x =< y
  <2> SUFFICES ASSUME NEW y \in S PROVE x =< y
    OBVIOUS
  <2>1. y \in Nat /\ x \in Nat
    OBVIOUS
  <2>2. ~(y < x)
    BY <1>1, <2>1 DEF OpToRel
  <2> QED BY <2>1, <2>2
<1> QED
  BY <1>2 DEF Min

LEMMA GreatestOf ==
  ASSUME NEW n \in Nat, NEW S, S \subseteq 0..n, S # {} PROVE Max(S) \in S
<1> DEFINE T == {n - x : x \in S}
<1>1. T \subseteq Nat /\ T # {}
  OBVIOUS
<1>2. Min(T) \in T /\ \A y \in T : Min(T) <= y
  BY <1>1, LeastOf
<1>3. PICK x \in S : Min(T) = n - x
  BY <1>2
<1>4. \A y \in S : x >= y
  BY <1>2, <1>3
<1> QED
  BY <1>4 DEF Max

LEMMA MaxOfTwo == ASSUME NEW m \in Int, NEW n \in Int PROVE Max({m, n}) = IF m >= n THEN m ELSE n
<1> DEFINE k == IF m >= n THEN m ELSE n
<1>1. k \in {m, n} /\ \A y \in {m, n} : k >= y
  OBVIOUS
<1>2. \A z \in {m, n} : (\A y \in {m, n} : z >= y) => z = k
  OBVIOUS
<1> QED
  BY <1>1, <1>2 DEF Max

LEMMA WithSecondIs ==
  ASSUME NEW S, NEW tag \in Seq(S), tag # << >>, NEW text \in S
  PROVE  LET t == WithSecond(tag, text)
         IN  t \in Seq(S) /\ t # << >> /\ Len(t) >= 2 /\ t[1] = tag[1] /\ t[2] = text
<1>1. Len(tag) \in Nat \ {0}
  OBVIOUS
<1>2. Max({2, Len(tag)}) = IF 2 >= Len(tag) THEN 2 ELSE Len(tag)
  BY <1>1, MaxOfTwo
<1>3. PICK n \in Nat : n = Max({2, Len(tag)}) /\ n >= 2 /\ (n = 2 \/ n = Len(tag))
  BY <1>1, <1>2
<1>4. WithSecond(tag, text) = [i \in 1..n |-> IF i = 2 THEN text ELSE tag[i]]
  BY <1>3 DEF WithSecond
<1>5. \A i \in 1..n : (IF i = 2 THEN text ELSE tag[i]) \in S
  BY <1>1, <1>3
<1>6. [i \in 1..n |-> IF i = 2 THEN text ELSE tag[i]] \in Seq(S)
  BY <1>5
<1> QED
  BY <1>3, <1>4, <1>6

LEMMA SeqElements == ASSUME NEW S, NEW s \in Seq(S) PROVE \A i \in DOMAIN s : i \in 1..Len(s) /\ s[i] \in S
OBVIOUS

LEMMA LabelledAt ==
  ASSUME NEW S, NEW tags \in Seq(Seq(S)), NEW label
  PROVE  /\ LabelledIn(tags, label) \subseteq 1..Len(tags)
         /\ \A i \in LabelledIn(tags, label) :
              tags[i] \in Seq(S) /\ tags[i] # << >> /\ tags[i][1] = label
<1>1. \A i \in DOMAIN tags : i \in 1..Len(tags) /\ tags[i] \in Seq(S)
  BY SeqElements
<1> QED
  BY <1>1 DEF LabelledIn, Labelled

LEMMA AppendedElement ==
  ASSUME NEW S, NEW s \in Seq(S), NEW x \in S
  PROVE  LET t == Append(s, x)
             n == Len(s) + 1
         IN  /\ t \in Seq(S) /\ n \in Nat \ {0} /\ n \notin DOMAIN s
             /\ DOMAIN t = DOMAIN s \union {n} /\ t[n] = x
             /\ \A i \in DOMAIN s : t[i] = s[i]
OBVIOUS

\* A tag that is appended is the only one of its label, if there was none.
LEMMA AppendedTag ==
  ASSUME NEW S, NEW tags \in Seq(Seq(S)), NEW label \in S, NEW text \in S
  PROVE  LET t == Append(tags, <<label, text>>)
             n == Len(tags) + 1
         IN  /\ t \in Seq(Seq(S)) /\ n \in Nat \ {0} /\ n \notin DOMAIN tags
             /\ DOMAIN t = DOMAIN tags \union {n} /\ t[n] = <<label, text>>
             /\ \A i \in DOMAIN tags : t[i] = tags[i]
             /\ \A other : LabelledIn(t, other) =
                  LabelledIn(tags, other) \union (IF other = label THEN {n} ELSE {})
<1> DEFINE t == Append(tags, <<label, text>>)
           n == Len(tags) + 1
           tag == <<label, text>>
<1>1. tag \in Seq(S) /\ tag # << >> /\ tag[1] = label
  OBVIOUS
<1>2. /\ t \in Seq(Seq(S)) /\ n \in Nat \ {0} /\ n \notin DOMAIN tags
      /\ DOMAIN t = DOMAIN tags \union {n} /\ t[n] = tag
      /\ \A i \in DOMAIN tags : t[i] = tags[i]
  <2>1. t = Append(tags, tag) /\ tag \in Seq(S)
    BY <1>1
  <2> HIDE DEF t, tag
  <2> QED BY <2>1, AppendedElement
<1> HIDE DEF t, n, tag
<1>3. ASSUME NEW other
      PROVE  LabelledIn(t, other) =
               LabelledIn(tags, other) \union (IF other = label THEN {n} ELSE {})
  BY <1>1, <1>2 DEF LabelledIn, Labelled
<1> QED
  BY <1>2, <1>3 DEF t, n, tag

\* RespondAuth leaves no relay tag that names another relay, and puts one in.
LEMMA RelayTagsNameRelay ==
  ASSUME NEW S, NEW tags \in Seq(Seq(S)), UrlText(Session.url) \in S, "relay" \in S
  PROVE  LET r == RelayTags(tags)
         IN  /\ r \in Seq(Seq(S)) /\ LabelledIn(r, "relay") # {}
             /\ \A i \in LabelledIn(r, "relay") : r[i][2] = UrlText(Session.url)
<1> DEFINE url == UrlText(Session.url)
           at == LabelledIn(tags, "relay")
           r == RelayTags(tags)
<1>0. url \in S
  OBVIOUS
<1>1. CASE at = {}
  <2>1. r = Append(tags, <<"relay", url>>)
    BY <1>1 DEF RelayTags
  <2> HIDE DEF url, r
  <2>2. PICK n : /\ r \in Seq(Seq(S)) /\ r[n] = <<"relay", url>>
                 /\ LabelledIn(r, "relay") = at \union {n}
    BY <1>0, <2>1, AppendedTag, SMTT(30)
  <2>3. <<"relay", url>>[2] = url
    OBVIOUS
  <2> QED BY <1>1, <2>2, <2>3 DEF r, url
<1>2. CASE at # {}
  <2> DEFINE New(i) == IF i \in at THEN WithSecond(tags[i], url) ELSE tags[i]
  <2>1. r = [i \in DOMAIN tags |-> New(i)]
    BY <1>2 DEF RelayTags
  <2> HIDE DEF url, r
  <2>2. /\ at \subseteq DOMAIN tags /\ DOMAIN tags = 1..Len(tags) /\ Len(tags) \in Nat
        /\ \A i \in DOMAIN tags : tags[i] \in Seq(S)
    BY SeqElements, LabelledAt
  <2>3. \A i \in at : New(i) \in Seq(S) /\ New(i) # << >> /\ New(i)[1] = "relay" /\ New(i)[2] = url
    <3> SUFFICES ASSUME NEW i \in at
                 PROVE  New(i) \in Seq(S) /\ New(i) # << >> /\ New(i)[1] = "relay" /\ New(i)[2] = url
      OBVIOUS
    <3>1. tags[i] \in Seq(S) /\ tags[i] # << >> /\ tags[i][1] = "relay"
      BY LabelledAt
    <3>2. New(i) = WithSecond(tags[i], url)
      OBVIOUS
    <3> HIDE DEF New, at
    <3>3. PICK t : t = WithSecond(tags[i], url)
      OBVIOUS
    <3>4. t \in Seq(S) /\ t # << >> /\ t[1] = tags[i][1] /\ t[2] = url
      BY <1>0, <3>1, <3>3, WithSecondIs, ZenonT(30)
    <3> QED BY <3>1, <3>2, <3>3, <3>4
  <2>4. \A i \in DOMAIN tags : New(i) \in Seq(S)
    BY <2>2, <2>3
  <2>5. ASSUME NEW i \in LabelledIn(r, "relay") PROVE i \in at
    <3>1. CASE i \in at
      BY <3>1
    <3>2. CASE i \notin at
      <4>1. i \in DOMAIN tags /\ r[i] = tags[i] /\ r[i] # << >> /\ r[i][1] = "relay"
        BY <2>1, <3>2 DEF LabelledIn, Labelled
      <4> QED BY <4>1 DEF LabelledIn, Labelled
    <3> QED BY <3>1, <3>2
  <2> HIDE DEF New
  <2>6. r \in Seq(Seq(S))
    BY <2>1, <2>2, <2>4
  <2>7. at \subseteq LabelledIn(r, "relay")
    BY <2>1, <2>2, <2>3 DEF LabelledIn, Labelled
  <2>8. \A i \in LabelledIn(r, "relay") : r[i][2] = url
    BY <2>1, <2>2, <2>3, <2>5
  <2> QED BY <1>2, <2>6, <2>7, <2>8 DEF r, url
<1> QED
  BY <1>1, <1>2

\* The first challenge tag has the value, and the relay tags stay.
HasAnswer(c, tags, value) ==
  /\ LabelledIn(c, "challenge") # {}
  /\ c[Min(LabelledIn(c, "challenge"))][2] = value
  /\ LabelledIn(c, "relay") = LabelledIn(tags, "relay")
  /\ \A i \in LabelledIn(c, "relay") : c[i] = tags[i]

LEMMA ChallengeTagsAnswer ==
  ASSUME NEW S, NEW tags \in Seq(Seq(S)), NEW value \in S, "challenge" \in S,
         NEW c, c = ChallengeTags(tags, value)
  PROVE  c \in Seq(Seq(S)) /\ HasAnswer(c, tags, value)
<1> DEFINE at == LabelledIn(tags, "challenge")
<1>0. /\ at \subseteq DOMAIN tags /\ DOMAIN tags = 1..Len(tags) /\ Len(tags) \in Nat
      /\ LabelledIn(tags, "relay") \subseteq DOMAIN tags
      /\ \A i \in at : tags[i] \in Seq(S) /\ tags[i] # << >> /\ tags[i][1] = "challenge"
  BY SeqElements, LabelledAt
<1>1. CASE at = {}
  <2>1. c = Append(tags, <<"challenge", value>>)
    BY <1>1 DEF ChallengeTags
  <2> DEFINE n == Len(tags) + 1
  <2>2. /\ n \in Nat \ {0} /\ c \in Seq(Seq(S)) /\ c[n] = <<"challenge", value>>
        /\ \A other : LabelledIn(c, other) =
             LabelledIn(tags, other) \union (IF other = "challenge" THEN {n} ELSE {})
        /\ \A i \in DOMAIN tags : c[i] = tags[i]
    BY <2>1, AppendedTag
  <2> HIDE DEF n
  <2>a. /\ LabelledIn(c, "challenge") = {n}
        /\ LabelledIn(c, "relay") = LabelledIn(tags, "relay")
    BY <1>1, <2>2
  <2>3. Min({n}) = n
    <3>1. {n} \subseteq Nat /\ {n} # {}
      BY <2>2
    <3> QED BY <3>1, LeastOf
  <2>4. <<"challenge", value>>[2] = value
    OBVIOUS
  <2> QED BY <1>0, <2>2, <2>a, <2>3, <2>4 DEF HasAnswer
<1>2. CASE at # {}
  <2>1. PICK m \in at : m = Min(at)
    BY <1>0, <1>2, LeastOf
  <2>2. PICK new : new = WithSecond(tags[m], value)
    OBVIOUS
  <2>3. new \in Seq(S) /\ new # << >> /\ new[1] = "challenge" /\ new[2] = value
    <3>1. tags[m] \in Seq(S) /\ tags[m] # << >> /\ tags[m][1] = "challenge"
      BY <1>0, <2>1
    <3> HIDE DEF at
    <3> QED BY <2>2, <3>1, WithSecondIs, ZenonT(30)
  <2>4. c = [tags EXCEPT ![m] = new]
    BY <1>2, <2>1, <2>2 DEF ChallengeTags
  <2>5. /\ DOMAIN c = DOMAIN tags /\ c[m] = new
        /\ \A i \in DOMAIN tags \ {m} : c[i] = tags[i]
    BY <1>0, <2>1, <2>4
  <2>6. c \in Seq(Seq(S))
    <3>1. tags \in Seq(Seq(S)) /\ m \in 1..Len(tags)
      BY <1>0, <2>1
    <3> QED BY <2>3, <2>4, <3>1
  <2>7. LabelledIn(c, "challenge") = at
    BY <1>0, <2>1, <2>3, <2>5 DEF LabelledIn, Labelled
  <2>8. LabelledIn(c, "relay") = LabelledIn(tags, "relay") /\ m \notin LabelledIn(tags, "relay")
    BY <1>0, <2>1, <2>3, <2>5 DEF LabelledIn, Labelled
  <2>9. \A i \in LabelledIn(c, "relay") : c[i] = tags[i]
    BY <1>0, <2>5, <2>8
  <2> QED BY <1>2, <2>1, <2>3, <2>5, <2>6, <2>7, <2>8, <2>9 DEF HasAnswer
<1> QED
  BY <1>1, <1>2

\* Tags whose texts UTF-8 can write.
IsTexts(tags) == \E S : (\A t \in S : IsUtf8(t)) /\ tags \in Seq(Seq(S))

LEMMA TextsStay ==
  ASSUME NEW tags, IsTexts(tags)
  PROVE  [i \in DOMAIN tags |-> [k \in DOMAIN tags[i] |-> Utf8(tags[i][k])]] = tags
<1>1. PICK S : (\A t \in S : IsUtf8(t)) /\ tags \in Seq(Seq(S))
  BY DEF IsTexts
<1>2. \A i \in DOMAIN tags : tags[i] \in Seq(S)
  BY <1>1, SeqElements
<1>3. ASSUME NEW i \in DOMAIN tags
      PROVE  [k \in DOMAIN tags[i] |-> Utf8(tags[i][k])] = tags[i]
  <2>1. \A k \in DOMAIN tags[i] : Utf8(tags[i][k]) = tags[i][k]
    BY <1>1, <1>2, SeqElements DEF IsUtf8
  <2>2. tags[i] = [k \in DOMAIN tags[i] |-> tags[i][k]]
    BY <1>2
  <2> QED BY <2>1, <2>2
<1>4. tags = [i \in DOMAIN tags |-> tags[i]]
  BY <1>1
<1> QED
  BY <1>3, <1>4

LEMMA CTagsAreTexts ==
  ASSUME ConversionsAreSound, NEW tags, IsTexts(tags) PROVE IsTexts(CTags(tags))
<1>1. PICK S : (\A t \in S : IsUtf8(t)) /\ tags \in Seq(Seq(S))
  BY DEF IsTexts
<1> DEFINE T == {CStr(t) : t \in S}
           Short(s) == [k \in DOMAIN s |-> CStr(s[k])]
<1>2. \A t \in T : IsUtf8(t)
  BY <1>1 DEF ConversionsAreSound
<1>3. ASSUME NEW s \in Seq(S) PROVE Short(s) \in Seq(T)
  <2>1. DOMAIN s = 1..Len(s) /\ Len(s) \in Nat
    OBVIOUS
  <2>2. \A k \in 1..Len(s) : CStr(s[k]) \in T
    OBVIOUS
  <2> HIDE DEF T
  <2> QED BY <2>1, <2>2
<1>4. DOMAIN tags = 1..Len(tags) /\ Len(tags) \in Nat /\ \A i \in 1..Len(tags) : tags[i] \in Seq(S)
  BY <1>1
<1>5. CTags(tags) = [i \in 1..Len(tags) |-> Short(tags[i])]
  BY <1>4 DEF CTags
<1> HIDE DEF T, Short
<1>6. \A i \in 1..Len(tags) : Short(tags[i]) \in Seq(T)
  BY <1>3, <1>4
<1>7. CTags(tags) \in Seq(Seq(T))
  BY <1>4, <1>5, <1>6
<1> QED
  BY <1>2, <1>7 DEF IsTexts

\* A challenge that is read is one text.
LEMMA ChallengeIsText ==
  ASSUME NEW b, IsSoundValue(b), NEW t \in Challenge(b)
  PROVE  IsUtf8(t) /\ Challenge(b) = {t}
<1>1. ASSUME NEW v, IsSoundLeaf(v), NEW u \in Text(v) PROVE IsUtf8(u) /\ Text(v) = {u}
  BY <1>1 DEF Text, IsSoundLeaf
<1>2. CASE ~IsObject(b)
  BY <1>1, <1>2 DEF Challenge, IsSoundValue
<1>3. CASE IsObject(b)
  <2> DEFINE names == <<"challenge", "message", "value">>
             R(i) == UNION {Text(v) : v \in Property(b, names[i])}
             readings == [i \in DOMAIN names |-> R(i)]
             some == {i \in DOMAIN readings : readings[i] # {}}
  <2>1. Challenge(b) = FirstOf(readings)
    BY <1>3 DEF Challenge
  <2>2. DOMAIN names = 1..3
    OBVIOUS
  <2>3. ASSUME NEW i, NEW u \in R(i) PROVE IsUtf8(u) /\ R(i) = {u}
    <3>1. PICK v \in Property(b, names[i]) : u \in Text(v)
      OBVIOUS
    <3>2. Property(b, names[i]) = {v} /\ IsSoundLeaf(v)
      BY <1>3, <3>1 DEF Property, Has, IsSoundValue
    <3>3. R(i) = Text(v)
      BY <3>2
    <3> HIDE DEF R
    <3> QED BY <1>1, <3>1, <3>2, <3>3
  <2> HIDE DEF R
  <2>4. DOMAIN readings = 1..3 /\ \A i \in 1..3 : readings[i] = R(i)
    BY <2>2
  <2> HIDE DEF names, readings
  <2>5. some # {} /\ t \in readings[Min(some)] /\ Challenge(b) = readings[Min(some)]
    BY <2>1 DEF FirstOf
  <2>6. Min(some) \in some
    <3>1. some \subseteq Nat
      BY <2>4
    <3> HIDE DEF some
    <3> QED BY <2>5, <3>1, LeastOf
  <2>7. Min(some) \in 1..3
    BY <2>4, <2>6
  <2> HIDE DEF some
  <2> QED BY <2>3, <2>4, <2>5, <2>7
<1> QED
  BY <1>2, <1>3

LEMMA ChallengeAsRead ==
  ASSUME NEW j, IsSound(j), NEW r \in Deserialized(j), r.type = "AUTH"
  PROVE  r.challenge # "" /\ IsUtf8(r.challenge)
<1>1. IsAuth(j) /\ r = DeserializeAuthChallenge(j)
  <2>1. /\ DeserializeOk(j).type = "OK" /\ DeserializeNotice(j).type = "NOTICE"
        /\ DeserializeEndOfStoredEvents(j).type = "EOSE" /\ DeserializeClosed(j).type = "CLOSED"
        /\ DeserializeEvent(j).type = "EVENT"
    BY DEF DeserializeOk, DeserializeNotice, DeserializeEndOfStoredEvents, DeserializeClosed,
           DeserializeEvent
  <2> QED BY <2>1 DEF Deserialized
<1>2. PICK S : (\A v \in S : IsSoundValue(v)) /\ j.array \in Seq(S)
  BY DEF IsSound
<1>3. IsSoundValue(j.array[2])
  <2>1. Len(j.array) >= 2
    BY <1>1 DEF IsAuth, IsFrame
  <2> QED BY <1>2, <2>1
<1>4. PICK t : t \in Challenge(j.array[2])
  BY <1>1 DEF IsAuth
<1>5. IsUtf8(t) /\ Challenge(j.array[2]) = {t}
  BY <1>3, <1>4, ChallengeIsText
<1>6. t # ""
  BY <1>1, <1>5 DEF IsAuth
<1>7. r.challenge = t
  BY <1>1, <1>5, TheOnly DEF DeserializeAuthChallenge
<1> QED
  BY <1>5, <1>6, <1>7

LEMMA SessionUrlIsUtf8 ==
  ASSUME SetupInv, DOMAIN sessions # {} PROVE IsUtf8(UrlText(Session.url))
<1>1. PICK u \in DOMAIN sessions : Session = sessions[u]
  BY DEF Session
<1>2. PICK x \in objects : SessionFor(x, u)
  BY DEF SetupInv, SessionsInv
<1>3. IsConnected(x)
  BY ConnectedIsPlace
<1>4. PICK c \in Connections : x.descriptor = c[1]
  BY <1>3 DEF IsConnected
<1>5. IsUrl(c[1].url)
  BY UrlsAssumption DEF IsUrl
<1>6. NormalizeRelayUrl(c[1].url) = {UrlOf(Meant(c[1].url))}
  BY <1>3, <1>4, <1>5, NormalizedIsMeant DEF IsConnected
<1>7. Session.url = UrlOf(Meant(c[1].url))
  BY <1>1, <1>2, <1>4 DEF SessionFor
<1> QED
  BY <1>6, <1>7, UrlTextsAssumption

\* What a relay asks of the event in an AUTH message, when "waiting" is the challenge
\* that it waits to be answered.
AnswersWith(e, url, waiting) ==
  /\ e.kind = kAuthKind /\ e.publicKey = SignerKey
  /\ LabelledIn(e.tags, "relay") # {}
  /\ \A i \in LabelledIn(e.tags, "relay") : e.tags[i][2] = url
  /\ LabelledIn(e.tags, "challenge") # {}
  /\ \A p \in waiting : e.tags[Min(LabelledIn(e.tags, "challenge"))][2] = p.challenge
  /\ OnWholeSecond(e) => e.id = IdOf(e)
  /\ Plain(e) => \E n \in Nonces : e.signature = Sign(e.id, n)

PendingInv == IsOption(pending) /\ \A p \in pending : IsGiven(p.challenge) /\ IsUtf8(p.challenge)

\* Every text that an answer is made of can be written in UTF-8.
AuthInv ==
  /\ PendingInv
  /\ \A c \in announced : IsUtf8(c.relayUrl) /\ IsUtf8(c.challenge)
  /\ subscription = {} => \A o \in object : IsTexts(o.tags)
  /\ answer # {} => object # {}
  /\ \A a \in answer : AnswersWith(SentEvent(a.message), UrlText(Session.url), a.pending)

LEMMA ChallengeValueIsText ==
  ASSUME PendingInv, NEW S, \A t \in S : IsUtf8(t), NEW tags \in Seq(Seq(S)),
         IsGiven(ChallengeValue(tags))
  PROVE  IsUtf8(ChallengeValue(tags))
<1>1. Len(tags) \in Nat
  OBVIOUS
<1>2. LabelledIn(tags, "challenge") \subseteq 1..Len(tags)
  BY LabelledAt
<1>3. ASSUME NEW m \in LabelledIn(tags, "challenge"), Len(tags[m]) >= 2 PROVE tags[m][2] \in S
  <2>1. PICK tag : tag = tags[m]
    OBVIOUS
  <2>2. tag \in Seq(S) /\ Len(tag) >= 2
    BY <1>3, <2>1, LabelledAt
  <2>3. tag[2] \in S
    BY <2>2
  <2> QED BY <2>1, <2>3
<1> DEFINE at == {i \in LabelledIn(tags, "challenge") : Len(tags[i]) >= 2}
           value == IF at = {} THEN "" ELSE tags[Max(at)][2]
<1>4. ChallengeValue(tags) = IF value # "" THEN value
                             ELSE IF pending = {} THEN "" ELSE The(pending).challenge
  BY Zenon DEF ChallengeValue
<1>5. ASSUME at # {} PROVE IsUtf8(tags[Max(at)][2])
  <2>1. at \subseteq 0..Len(tags)
    BY <1>1, <1>2
  <2>2. PICK m \in at : m = Max(at)
    <3> HIDE DEF at
    <3> QED BY <1>1, <1>5, <2>1, GreatestOf
  <2> QED BY <1>3, <2>2
<1>6. pending # {} => IsUtf8(The(pending).challenge)
  BY TheOption DEF PendingInv
<1> HIDE DEF at
<1> QED
  BY <1>4, <1>5, <1>6, Zenon DEF IsGiven

LEMMA AnswerTags ==
  ASSUME SetupInv, DOMAIN sessions # {}, NEW tags, IsTexts(tags), NEW value, IsUtf8(value),
         NEW r, r = RelayTags(tags), NEW t, t = ChallengeTags(r, value)
  PROVE  /\ IsTexts(t)
         /\ LabelledIn(t, "relay") # {}
         /\ \A i \in LabelledIn(t, "relay") : t[i][2] = UrlText(Session.url)
         /\ LabelledIn(t, "challenge") # {}
         /\ t[Min(LabelledIn(t, "challenge"))][2] = value
<1>1. PICK S0 : (\A u \in S0 : IsUtf8(u)) /\ tags \in Seq(Seq(S0))
  BY DEF IsTexts
<1>2. PICK S : S = S0 \union {UrlText(Session.url), "relay", "challenge", value}
  OBVIOUS
<1>3. \A u \in S : IsUtf8(u)
  BY <1>1, <1>2, SessionUrlIsUtf8, WorldAssumption
<1>4. tags \in Seq(Seq(S))
  <2>1. S0 \subseteq S
    BY <1>2
  <2>2. Seq(S0) \subseteq Seq(S)
    BY <2>1, LargerSeq
  <2> QED BY <1>1, <2>2, LargerSeq
<1>5. UrlText(Session.url) \in S /\ "relay" \in S /\ "challenge" \in S /\ value \in S
  BY <1>2
<1>7. /\ r \in Seq(Seq(S)) /\ LabelledIn(r, "relay") # {}
      /\ \A i \in LabelledIn(r, "relay") : r[i][2] = UrlText(Session.url)
  BY <1>4, <1>5, RelayTagsNameRelay
<1>8. t \in Seq(Seq(S)) /\ HasAnswer(t, r, value)
  BY <1>5, <1>7, ChallengeTagsAnswer
<1> QED
  BY <1>3, <1>7, <1>8, ZenonT(30) DEF IsTexts, HasAnswer

LEMMA AnswerIsRight ==
  ASSUME ConversionsAreSound, SetupInv, DOMAIN sessions # {}, PendingInv,
         NEW o, IsObjectEvent(o), IsReadEvent(o), IsTexts(o.tags), MayAnswer(o), NEW n \in Nonces
  PROVE  LET x == WithSignature(AuthEvent(o), n)
         IN  /\ AnswersWith(SentEvent(SerializeAuth(x)), UrlText(Session.url), pending)
             /\ IsTexts(x.tags) /\ DOMAIN x = EventFields
<1> DEFINE y == AuthEvent(o)
           x == WithSignature(y, n)
           e == SentEvent(SerializeAuth(x))
           value == ChallengeValue(o.tags)
           t == ChallengeTags(RelayTags(o.tags), value)
<1>1. IsGiven(value) /\ (\A p \in pending : p.challenge = value) /\ IsUtf8(value)
  <2>1. PICK S : (\A u \in S : IsUtf8(u)) /\ o.tags \in Seq(Seq(S))
    BY DEF IsTexts
  <2>2. IsGiven(value) /\ \A p \in pending : value = p.challenge
    BY DEF MayAnswer, IsGiven
  <2> QED BY <2>1, <2>2, ChallengeValueIsText
<1>2. /\ IsTexts(t) /\ LabelledIn(t, "relay") # {}
      /\ \A i \in LabelledIn(t, "relay") : t[i][2] = UrlText(Session.url)
      /\ LabelledIn(t, "challenge") # {} /\ t[Min(LabelledIn(t, "challenge"))][2] = value
  <2> HIDE DEF value
  <2> QED BY <1>1, AnswerTags
<1> HIDE DEF value
<1>3. /\ DOMAIN y = EventFields /\ y.kind = kAuthKind /\ y.tags = t
      /\ y.publicKey = SignerKey /\ y.content = o.content /\ y.createdAt \in Int
  BY AuthEventFields, WorldAssumption DEF IsReadEvent, value
<1> HIDE DEF y, t
<1>4. /\ x.id = ComputeEventId(y) /\ x.signature = Sign(Hash(Hashed(CreateEventDraft(y))), n)
      /\ x.publicKey = y.publicKey /\ x.content = y.content /\ x.tags = y.tags
      /\ x.kind = y.kind /\ x.createdAt = y.createdAt /\ DOMAIN x = EventFields
  <2>1. x = [p \in EventFields |-> x[p]]
    BY <1>3, WithSignatureFields, Zenon
  <2>2. /\ x.id = ComputeEventId(y) /\ x.signature = Sign(Hash(Hashed(CreateEventDraft(y))), n)
        /\ x.publicKey = y.publicKey /\ x.content = y.content /\ x.tags = y.tags
        /\ x.kind = y.kind /\ x.createdAt = y.createdAt
    BY <1>3, WithSignatureFields, Zenon
  <2> HIDE DEF x
  <2> QED BY <2>1, <2>2
<1> HIDE DEF x
<1>5. x.kind \in Int /\ x.createdAt \in Int
  BY <1>3, <1>4, WorldAssumption, MessagesAssumption
<1>6. /\ e.id = Utf8(x.id) /\ e.publicKey = Utf8(x.publicKey)
      /\ e.content = Utf8(x.content) /\ e.signature = Utf8(x.signature)
      /\ e.tags = [i \in DOMAIN x.tags |-> [k \in DOMAIN x.tags[i] |-> Utf8(x.tags[i][k])]]
      /\ e.kind = x.kind /\ DOMAIN e = EventFields /\ ComputeEventId(e) = ComputeEventId(x)
      /\ OnWholeSecond(e) => ComputeEventId(e) = IdOf(e)
  <2>1. e = SentEvent(Arr(<<Str("AUTH"), BuildEventObject(x)>>))
    BY DEF SerializeAuth
  <2> HIDE DEF e
  <2>2. /\ e.id = Utf8(x.id) /\ e.publicKey = Utf8(x.publicKey)
        /\ e.content = Utf8(x.content) /\ e.signature = Utf8(x.signature)
        /\ e.tags = [i \in DOMAIN x.tags |-> [k \in DOMAIN x.tags[i] |-> Utf8(x.tags[i][k])]]
        /\ e.kind = x.kind /\ e = [p \in EventFields |-> e[p]]
    BY <1>5, <2>1, SentEventFields
  <2>3. ComputeEventId(e) = ComputeEventId(x)
    BY <1>5, <2>1, IdOfSent
  <2>4. OnWholeSecond(e) => ComputeEventId(e) = IdOf(e)
    BY <1>5, <2>1, IdOfWholeSecond
  <2> QED BY <2>2, <2>3, <2>4
<1> HIDE DEF e
<1>7. e.tags = t
  BY <1>2, <1>3, <1>4, <1>6, TextsStay
<1>8. e.publicKey = SignerKey /\ e.kind = kAuthKind
  BY <1>3, <1>4, <1>6 DEF ConversionsAreSound, IsPlainText
<1>9. e.id = ComputeEventId(e) /\ e.id = ComputeEventId(y)
  <2>1. ComputeEventId(x) = ComputeEventId(y)
    BY <1>4, IdCovers
  <2>2. Utf8(ComputeEventId(y)) = ComputeEventId(y)
    BY DEF ConversionsAreSound, IsPlainText, ComputeEventId
  <2> QED BY <1>4, <1>6, <2>1, <2>2
<1>10. ASSUME Plain(e) PROVE e.signature = Sign(e.id, n)
  <2>1. CTags(e.tags) = e.tags
    <3>1. WithCStrings(e).tags = CTags(e.tags)
      BY <1>6, WithCStringsFields
    <3>2. WithCStrings(e) = e
      BY <1>10 DEF Plain
    <3> QED BY <3>1, <3>2
  <2>2. CStr(y.publicKey) = y.publicKey
    BY <1>3 DEF ConversionsAreSound, IsPlainText
  <2>3. CStr(y.content) = y.content
    BY <1>3 DEF IsObjectEvent
  <2>4. Hashed(CreateEventDraft(y)) = Hashed(y)
    BY <1>3, <1>7, <2>1, <2>2, <2>3, DraftIsEvent
  <2>5. x.signature = Sign(e.id, n)
    BY <1>4, <1>9, <2>4 DEF ComputeEventId
  <2>6. Utf8(Sign(e.id, n)) = Sign(e.id, n)
    BY DEF ConversionsAreSound, IsPlainText
  <2> QED BY <1>6, <2>5, <2>6
<1>11. AnswersWith(e, UrlText(Session.url), pending)
  BY <1>1, <1>2, <1>6, <1>7, <1>8, <1>9, <1>10 DEF AnswersWith
<1> QED
  BY <1>2, <1>3, <1>4, <1>11 DEF e, x, y

LEMMA AuthRespondStep ==
  ASSUME ConversionsAreSound, SetupInv, DOMAIN sessions # {}, EventsInv, AuthInv,
         UNCHANGED setupVars, NEW n \in Nonces, RespondAuth(n)
  PROVE  AuthInv'
<1>1. subscription = {} /\ UNCHANGED <<announced, subscription>>
  BY DEF RespondAuth
<1>2. PICK o \in object :
        LET own == ReadEventFromDispatch(o)
            event == WithSignature(AuthEvent(own), n)
            kept == {[challenge |-> ChallengeValue(own.tags),
                      expiresAt |-> UNION {p.expiresAt : p \in pending}]}
        IN  /\ MayAnswer(own)
            /\ \/ pending' = kept /\ answer' = {} /\ UNCHANGED eventVars
               \/ /\ pending' \in {kept, {}}
                  /\ object' = {WriteEventBackToDispatch(event)}
                  /\ answer' = {[pending |-> pending, message |-> SerializeAuth(event)]}
  BY DEF RespondAuth
<1>3. IsObjectEvent(o) /\ IsReadEvent(o) /\ IsTexts(o.tags)
  BY <1>1 DEF EventsInv, AuthInv
<1>4. ReadEventFromDispatch(o) = o
  BY <1>3, ObjectEventIsKept
<1> DEFINE x == WithSignature(AuthEvent(o), n)
           kept == {[challenge |-> ChallengeValue(o.tags),
                     expiresAt |-> UNION {p.expiresAt : p \in pending}]}
           out == SerializeAuth(x)
<1>5. /\ MayAnswer(o)
      /\ \/ pending' = kept /\ answer' = {} /\ UNCHANGED eventVars
         \/ /\ pending' \in {kept, {}} /\ object' = {WriteEventBackToDispatch(x)}
            /\ answer' = {[pending |-> pending, message |-> out]}
  BY <1>2, <1>4
<1>6. /\ AnswersWith(SentEvent(out), UrlText(Session.url), pending)
      /\ IsTexts(x.tags) /\ DOMAIN x = EventFields
  BY <1>3, <1>5, AnswerIsRight DEF AuthInv
<1> HIDE DEF x, out
<1>7. IsTexts(WriteEventBackToDispatch(x).tags)
  <2>1. WithCStrings(x).tags = CTags(x.tags) /\ DOMAIN WithCStrings(x) = EventFields
    BY <1>6, WithCStringsFields
  <2>2. NostrEvent(WithCStrings(x)).tags = CTags(CTags(x.tags))
    BY <2>1, NostrEventFields
  <2> QED BY <1>6, <2>2, CTagsAreTexts DEF WriteEventBackToDispatch
<1>8. PendingInv'
  <2>1. IsGiven(ChallengeValue(o.tags)) /\ IsUtf8(ChallengeValue(o.tags))
    <3>1. PICK S : (\A t \in S : IsUtf8(t)) /\ o.tags \in Seq(Seq(S))
      BY <1>3 DEF IsTexts
    <3>2. IsGiven(ChallengeValue(o.tags))
      BY <1>5 DEF MayAnswer, IsGiven
    <3> QED BY <3>1, <3>2, ChallengeValueIsText DEF AuthInv
  <2>2. pending' = kept \/ pending' = {}
    BY <1>5
  <2>3. IsOption(pending') /\ \A p \in pending' : p.challenge = ChallengeValue(o.tags)
    <3> DEFINE k == [challenge |-> ChallengeValue(o.tags),
                     expiresAt |-> UNION {p.expiresAt : p \in pending}]
    <3>1. kept = {k} /\ k.challenge = ChallengeValue(o.tags)
      OBVIOUS
    <3> HIDE DEF kept, k
    <3> QED BY <2>2, <3>1 DEF IsOption
  <2> QED BY <2>1, <2>3 DEF PendingInv, IsOption
<1> HIDE DEF kept
<1>9. Session' = Session
  BY DEF Session, setupVars
<1>10. CASE answer' = {} /\ UNCHANGED eventVars
  BY <1>1, <1>8, <1>10 DEF AuthInv, eventVars
<1>11. CASE /\ object' = {WriteEventBackToDispatch(x)}
            /\ answer' = {[pending |-> pending, message |-> out]}
  <2>1. \A a \in answer' : AnswersWith(SentEvent(a.message), UrlText(Session.url), a.pending)
    BY <1>6, <1>11
  <2> QED BY <1>1, <1>7, <1>8, <1>9, <1>11, <2>1 DEF AuthInv
<1> QED
  BY <1>5, <1>10, <1>11

LEMMA AuthIncomingStep ==
  ASSUME ConversionsAreSound, SetupInv, DOMAIN sessions # {}, AuthInv,
         NEW j, IsSound(j), NEW meant, HandleIncomingMessage(j, meant)
  PROVE  AuthInv'
<1>1. answer' = {} /\ UNCHANGED subscription
  BY DEF HandleIncomingMessage, NothingAnswered
<1>2. ASSUME subscription # {}, UNCHANGED authVars PROVE AuthInv'
  BY <1>1, <1>2 DEF AuthInv, PendingInv, authVars
<1>3. ASSUME UNCHANGED <<eventVars, authVars>> PROVE AuthInv'
  BY <1>1, <1>3 DEF AuthInv, PendingInv, eventVars, authVars
<1>4. ASSUME NEW r \in Deserialized(j), r.type = "AUTH", DispatchAuthRequired(r) PROVE AuthInv'
  <2>1. IsGiven(r.challenge) /\ IsUtf8(r.challenge)
    BY <1>4, ChallengeAsRead, Zenon DEF IsGiven
  <2>2. /\ pending' = {[challenge |-> r.challenge, expiresAt |-> r.expiresAt]}
        /\ announced' = {CAuthChallenge(r)} /\ UNCHANGED eventVars
    BY <1>4 DEF DispatchAuthRequired
  <2>3. IsUtf8(CAuthChallenge(r).relayUrl) /\ IsUtf8(CAuthChallenge(r).challenge)
    <3>1. /\ CAuthChallenge(r).relayUrl = CStr(UrlText(Session.url))
          /\ CAuthChallenge(r).challenge = CStr(r.challenge)
      BY DEF CAuthChallenge
    <3> QED BY <2>1, <3>1, SessionUrlIsUtf8 DEF ConversionsAreSound
  <2>4. PendingInv'
    <3>1. IsOption(pending') /\ \A p \in pending' : p.challenge = r.challenge
      BY <2>2 DEF IsOption
    <3> QED BY <2>1, <3>1 DEF PendingInv, IsOption
  <2> HIDE DEF DispatchAuthRequired
  <2> QED BY <1>1, <2>2, <2>3, <2>4 DEF AuthInv, eventVars
<1> QED
  BY <1>2, <1>3, <1>4 DEF HandleIncomingMessage, DispatchEventMessage

LEMMA AuthRelayStep ==
  ASSUME ConversionsAreSound, SetupInv, DOMAIN sessions # {}, AuthInv, RelaySends \/ RelayGarbles
  PROVE  AuthInv'
<1>1. CASE RelaySends
  <2>1. PICK r \in MeaningsNow : \E j \in Encodings(r) : HandleIncomingMessage(j, {r})
    BY <1>1 DEF RelaySends
  <2> QED BY <2>1, EncodingIsSound, AuthIncomingStep DEF MeaningsNow
<1>2. CASE RelayGarbles
  <2>1. PICK r \in MeaningsNow : \E j \in UNION {Garbled(k) : k \in Encodings(r)} :
          HandleIncomingMessage(j, {})
    BY <1>2 DEF RelayGarbles
  <2>2. PICK k \in Encodings(r) : \E j \in Garbled(k) : HandleIncomingMessage(j, {})
    BY <2>1
  <2>3. IsSound(k)
    BY EncodingIsSound DEF MeaningsNow
  <2> QED BY <2>2, <2>3, GarbledIsSound, AuthIncomingStep
<1> QED
  BY <1>1, <1>2

LEMMA AuthChangedStep ==
  ASSUME AuthInv, NEW o, Changed(o),
         subscription = {} => \A x \in o : IsTexts(x.tags)
  PROVE  AuthInv'
<1>1. object' = o /\ answer' = {} /\ UNCHANGED <<authVars, subscription>>
  BY DEF Changed, NothingAnswered
<1> QED
  BY <1>1 DEF AuthInv, PendingInv, authVars

\* An event object has the tags it was given, with its texts cut at a NUL.
LEMMA ObjectTags ==
  ASSUME ConversionsAreSound, NEW e, DOMAIN e = EventFields, IsTexts(e.tags)
  PROVE  IsTexts(NostrEvent(e).tags)
BY NostrEventFields, CTagsAreTexts

LEMMA MatrixIsTexts == ASSUME NEW tags, IsTextMatrix(tags) PROVE IsTexts(tags)
BY DEF IsTextMatrix, IsTexts

LEMMA AuthApplicationStep ==
  ASSUME ConversionsAreSound, EventsInv, AuthInv,
         CreateEvent \/ PutContent \/ Unsign \/ ReleaseEvent \/ CopyChallenge
  PROVE  AuthInv'
<1>1. CASE CreateEvent
  <2>1. PICK e \in IF subscription = {} THEN AuthDrafts ELSE Drafts : Changed({NostrEvent(e)})
    BY <1>1 DEF CreateEvent
  <2>2. subscription = {} => DOMAIN e = EventFields /\ IsTexts(e.tags)
    BY <2>1, WorldAssumption, MatrixIsTexts DEF IsRecord
  <2>3. subscription = {} => IsTexts(NostrEvent(e).tags)
    BY <2>2, ObjectTags
  <2> QED BY <2>1, <2>3, AuthChangedStep
<1>2. ASSUME NEW o \in object, NEW x, DOMAIN x = DOMAIN o, x.tags = o.tags, Changed({NostrEvent(x)})
      PROVE  AuthInv'
  <2>1. DOMAIN x = EventFields
    BY <1>2 DEF EventsInv, IsReadEvent
  <2>2. subscription = {} => IsTexts(NostrEvent(x).tags)
    BY <1>2, <2>1, ObjectTags DEF AuthInv
  <2> QED BY <1>2, <2>2, AuthChangedStep
<1>3. CASE PutContent
  <2>1. PICK o \in object, t \in Contents : Changed({NostrEvent([o EXCEPT !.content = t])})
    BY <1>3 DEF PutContent
  <2> DEFINE x == [o EXCEPT !.content = t]
  <2>2. DOMAIN x = DOMAIN o /\ x.tags = o.tags
    OBVIOUS
  <2>3. Changed({NostrEvent(x)})
    BY <2>1
  <2> HIDE DEF x
  <2> QED BY <1>2, <2>2, <2>3
<1>4. CASE Unsign
  <2>1. PICK o \in object : Changed({NostrEvent([o EXCEPT !.id = "", !.signature = ""])})
    BY <1>4 DEF Unsign
  <2> DEFINE x == [o EXCEPT !.id = "", !.signature = ""]
  <2>2. DOMAIN x = DOMAIN o /\ x.tags = o.tags
    OBVIOUS
  <2>3. Changed({NostrEvent(x)})
    BY <2>1
  <2> HIDE DEF x
  <2> QED BY <1>2, <2>2, <2>3
<1>5. CASE ReleaseEvent
  BY <1>5, AuthChangedStep DEF ReleaseEvent
<1>6. CASE CopyChallenge
  <2> DEFINE Tags(c) == <<<<"relay", c.relayUrl>>, <<"challenge", c.challenge>>>>
  <2>1. PICK o \in object, c \in announced : Changed({NostrEvent([o EXCEPT !.tags = Tags(c)])})
    BY <1>6 DEF CopyChallenge
  <2>2. PICK x : x = [o EXCEPT !.tags = Tags(c)]
    OBVIOUS
  <2>3. DOMAIN x = EventFields /\ x.tags = Tags(c)
    <3> HIDE DEF Tags
    <3> QED BY <2>2 DEF EventsInv, IsReadEvent, EventFields
  <2>4. IsTexts(Tags(c))
    <3>1. PICK S : S = {"relay", "challenge", c.relayUrl, c.challenge}
      OBVIOUS
    <3>2. \A t \in S : IsUtf8(t)
      BY <3>1, WorldAssumption DEF AuthInv
    <3>3. <<"relay", c.relayUrl>> \in Seq(S) /\ <<"challenge", c.challenge>> \in Seq(S)
      BY <3>1
    <3>4. Tags(c) \in Seq(Seq(S))
      BY <3>3
    <3> QED BY <3>2, <3>4 DEF IsTexts
  <2> HIDE DEF Tags
  <2>5. IsTexts(NostrEvent(x).tags)
    BY <2>3, <2>4, ObjectTags
  <2> QED BY <2>1, <2>2, <2>5, AuthChangedStep
<1> QED
  BY <1>1, <1>3, <1>4, <1>5, <1>6

LEMMA AuthInvariant == ASSUME ConversionsAreSound PROVE Spec => []AuthInv
<1>1. Init => AuthInv
  BY DEF Init, ExchangeInit, AuthInv, PendingInv, IsOption
<1>2. SetupInv /\ EventsInv /\ AuthInv /\ [Next]_vars => AuthInv'
  <2> SUFFICES ASSUME SetupInv, EventsInv, AuthInv, [Next]_vars PROVE AuthInv'
    OBVIOUS
  <2>1. ASSUME Idle, UNCHANGED exchangeVars PROVE AuthInv'
    <3>1. answer = {}
      BY <2>1 DEF Idle, AuthInv
    <3> QED BY <2>1, <3>1 DEF exchangeVars, eventVars, authVars, AuthInv, PendingInv
  <2>2. CASE UNCHANGED vars
    <3>1. Session' = Session
      BY <2>2 DEF Session, vars, setupVars
    <3> QED BY <2>2, <3>1 DEF vars, exchangeVars, eventVars, authVars, AuthInv, PendingInv
  <2>3. CASE DOMAIN sessions # {} /\ Exchange /\ UNCHANGED setupVars
    <3>1. CASE RelaySends \/ RelayGarbles
      BY <2>3, <3>1, AuthRelayStep
    <3>2. CASE CreateEvent \/ PutContent \/ Unsign \/ ReleaseEvent \/ CopyChallenge
      BY <3>2, AuthApplicationStep
    <3>3. ASSUME NEW n \in Nonces, PublishEvent(n) PROVE AuthInv'
      <4>1. subscription # {} /\ answer' = {} /\ UNCHANGED <<authVars, subscription>>
        BY <3>3 DEF PublishEvent, NothingAnswered
      <4> QED BY <4>1 DEF AuthInv, PendingInv, authVars
    <3>4. ASSUME NEW n \in Nonces, RespondAuth(n) PROVE AuthInv'
      BY <2>3, <3>4, AuthRespondStep
    <3>5. CASE OpenSubscription
      <4>1. subscription = {} /\ answer' = {} /\ UNCHANGED <<eventVars, authVars>>
        BY <3>5 DEF OpenSubscription, NothingAnswered
      <4> QED BY <4>1 DEF AuthInv, PendingInv, eventVars, authVars
    <3>6. CASE UpdateFilters
      <4>1. answer' = {} /\ UNCHANGED <<eventVars, authVars, subscription>>
        BY <3>6 DEF UpdateFilters, NothingAnswered
      <4> QED BY <4>1 DEF AuthInv, PendingInv, eventVars, authVars
    <3> QED BY <2>3, <3>1, <3>2, <3>3, <3>4, <3>5, <3>6 DEF Exchange
  <2> QED BY <2>1, <2>2, <2>3 DEF Next
<1> QED
  BY <1>1, <1>2, SetupInvariant, EventsInvariant, PTL DEF Spec

\* What RespondAuth sends answers the challenge that the relay waits to be answered,
\* names its URL and no other in every relay tag, and has the id and the signature
\* of the event as it is sent, however the application prepared the event.
THEOREM AuthAnswersChallengeHolds ==
  ASSUME ConversionsAreSound PROVE Spec => []AuthAnswersChallenge
<1>1. AuthInv => AuthAnswersChallenge
  BY DEF AuthInv, AnswersWith, AuthAnswersChallenge
<1> QED
  BY <1>1, AuthInvariant, PTL
-----------------------------------------------------------------------------
(* Messages that are not garbled are read as they were meant.              *)

LEMMA Wrapped ==
  /\ \A t : Str(t).string = t /\ IsString(Str(t)) /\ ~IsArray(Str(t)) /\ ~IsObject(Str(t))
            /\ ~IsNumber(Str(t)) /\ ~IsBool(Str(t))
  /\ \A t : Bool(t).boolean = t /\ IsBool(Bool(t)) /\ ~IsString(Bool(t))
  /\ \A t : Arr(t).array = t /\ IsArray(Arr(t)) /\ ~IsString(Arr(t))
  /\ \A t : Obj(t).object = t /\ IsObject(Obj(t)) /\ ~IsString(Obj(t))
  /\ \A t, u : Str(t) = Str(u) => t = u
<1>1. \A t : Str(t).string = t /\ IsString(Str(t)) /\ ~IsArray(Str(t)) /\ ~IsObject(Str(t))
             /\ ~IsNumber(Str(t)) /\ ~IsBool(Str(t))
  BY DEF Str, IsString, IsArray, IsObject, IsNumber, IsBool
<1>2. \A t : Bool(t).boolean = t /\ IsBool(Bool(t)) /\ ~IsString(Bool(t))
  BY DEF Bool, IsBool, IsString
<1>3. \A t : Arr(t).array = t /\ IsArray(Arr(t)) /\ ~IsString(Arr(t))
  BY DEF Arr, IsArray, IsString
<1>4. \A t : Obj(t).object = t /\ IsObject(Obj(t)) /\ ~IsString(Obj(t))
  BY DEF Obj, IsObject, IsString
<1>5. \A t, u : Str(t) = Str(u) => t = u
  <2> SUFFICES ASSUME NEW t, NEW u, Str(t) = Str(u) PROVE t = u
    OBVIOUS
  <2> QED BY <1>1
<1> QED
  BY <1>1, <1>2, <1>3, <1>4, <1>5

LEMMA NumbersWrapped ==
  /\ \A n \in Int : Number(Whole(n)) = 2 * n /\ IsNumber(Whole(n))
  /\ \A n : Number(Real(n)) = n /\ IsNumber(Real(n))
<1>1. \A n \in Int : Number(Whole(n)) = 2 * n /\ IsNumber(Whole(n))
  BY DEF Number, IsNumber, Whole
<1>2. \A n : Number(Real(n)) = n /\ IsNumber(Real(n))
  BY DEF Number, IsNumber, Real
<1> QED
  BY <1>1, <1>2

\* A whole number of kinds goes there and back.
LEMMA KindStays ==
  ASSUME NEW k \in -IntMax - 1..IntMax
  PROVE  /\ Number(Whole(k)) \in Int /\ IsInt(Number(Whole(k))) /\ Truncated(Number(Whole(k))) = k
<1>1. k \in Int /\ Number(Whole(k)) = 2 * k
  BY MessagesAssumption, NumbersWrapped
<1>2. (2 * k) \div 2 = k /\ (-(2 * k)) \div 2 = -k
  BY <1>1
<1>3. IsInt(2 * k)
  BY MessagesAssumption DEF IsInt
<1> QED
  BY <1>1, <1>2, <1>3 DEF Truncated

WrittenTags(tags) ==
  [i \in DOMAIN tags |-> Arr([k \in DOMAIN tags[i] |-> Str(tags[i][k])])]

LEMMA TagsAreRead ==
  ASSUME NEW tags, IsTextMatrix(tags), NEW v, v = Arr(WrittenTags(tags))
  PROVE  /\ IsArray(v) /\ \A i \in DOMAIN v.array : IsStringArray(v.array[i])
         /\ [i \in DOMAIN v.array |-> StringsIn(v.array[i])] = tags
<1>1. v.array = WrittenTags(tags) /\ IsArray(v) /\ DOMAIN v.array = DOMAIN tags
  BY Wrapped DEF WrittenTags
<1>2. ASSUME NEW i \in DOMAIN tags
      PROVE  /\ v.array[i].array = [k \in DOMAIN tags[i] |-> Str(tags[i][k])]
             /\ IsArray(v.array[i])
  BY <1>1, Wrapped DEF WrittenTags
<1>3. ASSUME NEW i \in DOMAIN tags
      PROVE  IsStringArray(v.array[i]) /\ StringsIn(v.array[i]) = tags[i]
  <2>1. PICK w, t : w = v.array[i] /\ t = tags[i]
    OBVIOUS
  <2>2. w.array = [k \in DOMAIN t |-> Str(t[k])] /\ IsArray(w)
    BY <1>2, <2>1
  <2>3. DOMAIN w.array = DOMAIN t /\ \A k \in DOMAIN t : w.array[k] = Str(t[k])
    BY <2>2
  <2>4. IsStringArray(w)
    BY <2>2, <2>3, Wrapped DEF IsStringArray
  <2>5. StringsIn(w) = [k \in DOMAIN t |-> t[k]]
    BY <2>3, Wrapped DEF StringsIn
  <2>6. t = [k \in DOMAIN t |-> t[k]]
    BY <2>1 DEF IsTextMatrix
  <2> QED BY <2>1, <2>4, <2>5, <2>6
<1>5. tags = [i \in DOMAIN tags |-> tags[i]]
  BY DEF IsTextMatrix
<1> QED
  BY <1>1, <1>3, <1>5

\* The properties of an event as a relay writes it: content and tags may be left out
\* of an event that has none.
LEMMA FormOfEvent ==
  ASSUME NEW e, NEW b \in EventForms(e)
  PROVE  /\ IsObject(b)
         /\ b.object.id = Str(e.id) /\ b.object.pubkey = Str(e.publicKey)
         /\ b.object.sig = Str(e.signature) /\ b.object.kind = Whole(e.kind)
         /\ b.object.created_at = IF e.createdAt % 2 = 0 THEN Whole(e.createdAt \div 2)
                                                        ELSE Real(e.createdAt)
         /\ {"id", "pubkey", "sig", "created_at", "kind"} \subseteq DOMAIN b.object
         /\ IF Has(b, "content") THEN b.object.content = Str(e.content) ELSE ~IsGiven(e.content)
         /\ IF Has(b, "tags") THEN b.object.tags = Arr(WrittenTags(e.tags)) ELSE e.tags = << >>
<1> DEFINE at == IF e.createdAt % 2 = 0 THEN Whole(e.createdAt \div 2) ELSE Real(e.createdAt)
           o == [id |-> Str(e.id), pubkey |-> Str(e.publicKey), sig |-> Str(e.signature),
                 created_at |-> at, kind |-> Whole(e.kind), content |-> Str(e.content),
                 tags |-> Arr(WrittenTags(e.tags))]
           optional == {p \in {"content", "tags"} : IF p = "tags" THEN e.tags = << >> ELSE ~IsGiven(e.content)}
<1>1. PICK left \in SUBSET optional : b = Obj([p \in DOMAIN o \ left |-> o[p]])
  BY Zenon DEF EventForms, WrittenTags, IsGiven
<1>2. left \subseteq {"content", "tags"}
  BY <1>1
<1>3. /\ "content" \in left => ~IsGiven(e.content)
      /\ "tags" \in left => e.tags = << >>
  BY <1>1
<1> HIDE DEF at, optional
<1>4. IsObject(b) /\ b.object = [p \in DOMAIN o \ left |-> o[p]]
  <2> HIDE DEF o
  <2> QED BY <1>1, Wrapped
<1>5. /\ DOMAIN o = {"id", "pubkey", "sig", "created_at", "kind", "content", "tags"}
      /\ o.id = Str(e.id) /\ o.pubkey = Str(e.publicKey) /\ o.sig = Str(e.signature)
      /\ o.kind = Whole(e.kind) /\ o.created_at = at /\ o.content = Str(e.content)
      /\ o.tags = Arr(WrittenTags(e.tags))
  OBVIOUS
<1> HIDE DEF o
<1>6. DOMAIN b.object = DOMAIN o \ left /\ \A p \in DOMAIN o \ left : b.object[p] = o[p]
  BY <1>4
<1> QED
  BY <1>2, <1>3, <1>4, <1>5, <1>6 DEF at, Has

LEMMA BodyIsRead ==
  ASSUME NEW e, IsRecord(e, EventFields), e.kind \in -IntMax - 1..IntMax, e.createdAt \in Int,
         IsTextMatrix(e.tags), NEW b \in EventForms(e)
  PROVE  IsEventBody(b) /\ ReadEventObject(b) = e
<1> DEFINE x == ReadEventObject(b)
<1>1. Number(b.object.created_at) = e.createdAt /\ IsNumber(b.object.created_at)
  <2>1. e.createdAt % 2 = 0 => e.createdAt \div 2 \in Int /\ 2 * (e.createdAt \div 2) = e.createdAt
    OBVIOUS
  <2> QED BY <2>1, FormOfEvent, NumbersWrapped
<1>2. /\ IsNumber(b.object.kind) /\ IsInt(Number(b.object.kind))
      /\ Truncated(Number(b.object.kind)) = e.kind
  <2>1. b.object.kind = Whole(e.kind) /\ e.kind \in Int
    BY FormOfEvent, MessagesAssumption
  <2> QED BY <2>1, KindStays, NumbersWrapped
<1>3. Has(b, "tags") => /\ IsArray(b.object.tags)
                        /\ \A i \in DOMAIN b.object.tags.array : IsStringArray(b.object.tags.array[i])
  BY FormOfEvent, TagsAreRead
<1>4. ReadTags(b) = e.tags
  BY FormOfEvent, TagsAreRead DEF ReadTags
<1>5. IsEventBody(b)
  <2>1. \A p \in {"id", "pubkey", "sig"} : HasString(b, p)
    BY FormOfEvent, Wrapped DEF HasString, Has
  <2>2. HasNumber(b, "created_at") /\ HasInt(b, "kind")
    BY <1>1, <1>2, FormOfEvent DEF HasNumber, HasInt, Has
  <2>3. Has(b, "content") => IsString(b.object.content)
    BY FormOfEvent, Wrapped
  <2>4. IsObject(b)
    BY FormOfEvent
  <2> QED BY <1>3, <2>1, <2>2, <2>3, <2>4, Zenon DEF IsEventBody
<1>6. /\ x = [p \in EventFields |-> x[p]]
      /\ x.id = b.object.id.string /\ x.publicKey = b.object.pubkey.string
      /\ x.signature = b.object.sig.string /\ x.createdAt = Number(b.object.created_at)
      /\ x.kind = Truncated(Number(b.object.kind)) /\ x.tags = ReadTags(b)
  BY DEF ReadEventObject, EventFields
<1>7. x.content = IF Has(b, "content") THEN b.object.content.string ELSE ""
  BY DEF ReadEventObject
<1> HIDE DEF x
<1>8. x.content = e.content
  <2>1. CASE Has(b, "content")
    BY <1>7, <2>1, FormOfEvent, Wrapped
  <2>2. CASE ~Has(b, "content")
    BY <1>7, <2>2, FormOfEvent, Zenon DEF IsGiven
  <2> QED BY <2>1, <2>2
<1>9. /\ x.id = e.id /\ x.publicKey = e.publicKey /\ x.signature = e.signature
      /\ x.createdAt = e.createdAt /\ x.kind = e.kind /\ x.tags = e.tags
  BY <1>1, <1>2, <1>4, <1>6, FormOfEvent, Wrapped
<1>10. \A p \in EventFields : x[p] = e[p]
  BY <1>8, <1>9 DEF EventFields
<1>11. x = e
  BY <1>6, <1>10, Zenon DEF IsRecord
<1> QED
  BY <1>5, <1>11 DEF x

\* A message has one type.
LEMMA ReadByType ==
  ASSUME NEW j
  PROVE  /\ IsEvent(j) => Deserialized(j) = {DeserializeEvent(j)}
         /\ IsOk(j) => Deserialized(j) = {DeserializeOk(j)}
         /\ IsNotice(j) => Deserialized(j) = {DeserializeNotice(j)}
         /\ IsEose(j) => Deserialized(j) = {DeserializeEndOfStoredEvents(j)}
         /\ IsClosed(j) => Deserialized(j) = {DeserializeClosed(j)}
         /\ IsAuth(j) => Deserialized(j) = {DeserializeAuthChallenge(j)}
<1>1. /\ (IsEvent(j) => j.array[1] = Str("EVENT")) /\ (IsOk(j) => j.array[1] = Str("OK"))
      /\ (IsNotice(j) => j.array[1] = Str("NOTICE")) /\ (IsEose(j) => j.array[1] = Str("EOSE"))
      /\ (IsClosed(j) => j.array[1] = Str("CLOSED"))
  BY DEF IsEvent, IsOk, IsNotice, IsEose, IsClosed, IsFrame
<1>2. IsAuth(j) => j.array[1] = Str("AUTH")
  BY Zenon DEF IsAuth, IsFrame
<1> QED
  BY <1>1, <1>2, Wrapped DEF Deserialized

LEMMA OptionalTextForms ==
  ASSUME NEW text, NEW t \in OptionalText(text)
  PROVE  t = <<Str(text)>> \/ (t = << >> /\ ~IsGiven(text))
BY Zenon DEF OptionalText, IsGiven

LEMMA JoinedIs ==
  ASSUME NEW S, NEW s \in Seq(S), NEW t \in Seq(S), NEW u \in Seq(S), Len(u) = Len(s) + Len(t),
         \A i \in 1..Len(s) : u[i] = s[i], \A i \in 1..Len(t) : u[Len(s) + i] = t[i]
  PROVE  s \o t = u
<1>1. s \o t \in Seq(S) /\ Len(s \o t) = Len(u)
  OBVIOUS
<1>2. ASSUME NEW i \in 1..Len(u) PROVE (s \o t)[i] = u[i]
  <2>1. CASE i <= Len(s)
    BY <2>1
  <2>2. CASE i > Len(s)
    <3>1. i - Len(s) \in 1..Len(t)
      BY <2>2
    <3>2. (s \o t)[i] = t[i - Len(s)]
      BY <2>2
    <3>3. u[Len(s) + (i - Len(s))] = t[i - Len(s)]
      BY <3>1
    <3> QED BY <3>2, <3>3
  <2> QED BY <2>1, <2>2
<1> QED
  BY <1>1, <1>2

LEMMA Concatenated ==
  ASSUME NEW a, NEW b, NEW c
  PROVE  <<a>> \o << >> \o <<b>> = <<a, b>> /\ <<a>> \o <<b>> \o <<c>> = <<a, b, c>>
<1>1. ASSUME NEW S, NEW s \in Seq(S) PROVE s \o << >> = s
  OBVIOUS
<1>2. PICK S : S = {a, b, c}
  OBVIOUS
<1>3. a \in S /\ b \in S /\ c \in S
  BY <1>2
<1>4. /\ <<a>> \in Seq(S) /\ <<b>> \in Seq(S) /\ <<c>> \in Seq(S)
      /\ <<a, b>> \in Seq(S) /\ <<a, b, c>> \in Seq(S)
  BY <1>3
<1>5. <<a>> \o <<b>> = <<a, b>>
  <2>1. PICK s, t, u : s = <<a>> /\ t = <<b>> /\ u = <<a, b>>
    OBVIOUS
  <2>2. /\ Len(s) = 1 /\ Len(t) = 1 /\ Len(u) = 2
        /\ s[1] = a /\ t[1] = b /\ u[1] = a /\ u[2] = b
    BY <2>1
  <2>3. s \in Seq(S) /\ t \in Seq(S) /\ u \in Seq(S)
    BY <1>4, <2>1, Zenon
  <2>4. /\ Len(u) = Len(s) + Len(t)
        /\ \A i \in 1..Len(s) : u[i] = s[i]
        /\ \A i \in 1..Len(t) : u[Len(s) + i] = t[i]
    BY <2>2
  <2>5. s \o t = u
    BY <2>3, <2>4, JoinedIs
  <2> QED BY <2>1, <2>5, Zenon
<1>6. <<a, b>> \o <<c>> = <<a, b, c>>
  <2>1. PICK s, t, u : s = <<a, b>> /\ t = <<c>> /\ u = <<a, b, c>>
    OBVIOUS
  <2>2. /\ Len(s) = 2 /\ Len(t) = 1 /\ Len(u) = 3
        /\ s[1] = a /\ s[2] = b /\ t[1] = c /\ u[1] = a /\ u[2] = b /\ u[3] = c
    BY <2>1
  <2>3. s \in Seq(S) /\ t \in Seq(S) /\ u \in Seq(S)
    BY <1>4, <2>1, Zenon
  <2>4. /\ Len(u) = Len(s) + Len(t)
        /\ \A i \in 1..Len(s) : u[i] = s[i]
        /\ \A i \in 1..Len(t) : u[Len(s) + i] = t[i]
    BY <2>2
  <2>5. s \o t = u
    BY <2>3, <2>4, JoinedIs
  <2> QED BY <2>1, <2>5, Zenon
<1> QED
  BY <1>1, <1>4, <1>5, <1>6, Zenon

LEMMA EventIsRead ==
  ASSUME NEW r \in Meanings, r.type = "EVENT", NEW j \in Encodings(r) PROVE Deserialized(j) = {r}
<1>1. PICK b \in EventForms(r.event) :
        j = Arr(<<Str("EVENT")>> \o (IF r.subscriptionId = {} THEN << >>
                                     ELSE <<Str(The(r.subscriptionId))>>) \o <<b>>)
  BY DEF Encodings
<1>2. /\ IsRecord(r, MessageFields(r.type)) /\ IsOption(r.subscriptionId)
      /\ IsTextMatrix(r.event.tags) /\ IsRecord(r.event, EventFields)
      /\ r.event.kind \in -IntMax - 1..IntMax /\ r.event.createdAt \in Int
  BY WorldAssumption
<1>3. IsEventBody(b) /\ ReadEventObject(b) = r.event
  BY <1>2, BodyIsRead
<1> DEFINE x == DeserializeEvent(j)
<1>4. IsEvent(j) /\ x.subscriptionId = r.subscriptionId /\ x.event = r.event
  <2>1. CASE r.subscriptionId = {}
    <3>1. j = Arr(<<Str("EVENT"), b>>)
      <4>1. j = Arr(<<Str("EVENT")>> \o << >> \o <<b>>)
        BY <1>1, <2>1, Zenon
      <4> QED BY <4>1, Concatenated, Zenon
    <3>2. /\ IsArray(j) /\ Len(j.array) = 2 /\ j.array[1] = Str("EVENT") /\ j.array[2] = b
      BY <3>1, Wrapped
    <3>3. EventIndex(j) = 2
      BY <3>2 DEF EventIndex
    <3> QED BY <1>3, <2>1, <3>2, <3>3 DEF IsEvent, IsFrame, DeserializeEvent
  <2>2. CASE r.subscriptionId # {}
    <3>1. PICK id : r.subscriptionId = {id} /\ The(r.subscriptionId) = id
      BY <1>2, <2>2, TheOption
    <3>2. j = Arr(<<Str("EVENT"), Str(id), b>>)
      <4>1. j = Arr(<<Str("EVENT")>> \o <<Str(id)>> \o <<b>>)
        BY <1>1, <2>2, <3>1, Zenon
      <4> QED BY <4>1, Concatenated, Zenon
    <3>3. /\ IsArray(j) /\ Len(j.array) = 3 /\ j.array[1] = Str("EVENT")
          /\ j.array[2] = Str(id) /\ j.array[3] = b
      BY <3>2, Wrapped
    <3>4. EventIndex(j) = 3
      BY <3>3 DEF EventIndex
    <3>5. IsString(j.array[2]) /\ j.array[2].string = id
      BY <3>3, Wrapped
    <3> QED BY <1>3, <3>1, <3>3, <3>4, <3>5 DEF IsEvent, IsFrame, DeserializeEvent
  <2> QED BY <2>1, <2>2
<1>5. x = [p \in {"type", "subscriptionId", "event"} |-> x[p]] /\ x.type = "EVENT"
  BY DEF DeserializeEvent
<1> HIDE DEF x
<1>6. r = [p \in {"type", "subscriptionId", "event"} |-> r[p]]
  BY <1>2 DEF IsRecord, MessageFields
<1>7. x = r
  BY <1>4, <1>5, <1>6
<1> QED
  BY <1>4, <1>7, ReadByType DEF x

IsJoin(w, s, t) ==
  /\ Len(w) = Len(s) + Len(t)
  /\ \A i \in 1..Len(s) : w[i] = s[i]
  /\ \A i \in 1..Len(t) : w[Len(s) + i] = t[i]

LEMMA JoinedElements ==
  ASSUME NEW S, NEW s \in Seq(S), NEW t \in Seq(S) PROVE IsJoin(s \o t, s, t)
<1>1. ASSUME NEW i \in 1..Len(t) PROVE (s \o t)[Len(s) + i] = t[i]
  <2>1. Len(s) + i \in 1..Len(s) + Len(t) /\ ~(Len(s) + i <= Len(s)) /\ (Len(s) + i) - Len(s) = i
    OBVIOUS
  <2> QED BY <2>1
<1> QED
  BY <1>1 DEF IsJoin

\* A text at the end of a message that is left out if it is empty.
LEMMA OptionalTextRead ==
  ASSUME NEW S, NEW s \in Seq(S), NEW text, NEW t \in OptionalText(text), NEW w, w = s \o t
  PROVE  /\ Len(w) >= Len(s) /\ \A i \in 1..Len(s) : w[i] = s[i]
         /\ IF Len(w) > Len(s) THEN w[Len(s) + 1] = Str(text) ELSE ~IsGiven(text)
<1>1. CASE t = << >> /\ ~IsGiven(text)
  <2>1. w = s
    BY <1>1
  <2> QED BY <1>1, <2>1
<1>2. CASE t = <<Str(text)>>
  <2>1. PICK T : T = S \union {Str(text)}
    OBVIOUS
  <2>2. s \in Seq(T) /\ Str(text) \in T
    BY <2>1
  <2>3. t \in Seq(T) /\ Len(t) = 1 /\ t[1] = Str(text)
    BY <1>2, <2>2
  <2>4. IsJoin(w, s, t)
    BY <2>2, <2>3, JoinedElements, Zenon
  <2> QED BY <2>2, <2>3, <2>4 DEF IsJoin
<1> QED
  BY <1>1, <1>2, OptionalTextForms

LEMMA OkIsRead ==
  ASSUME NEW r \in Meanings, r.type = "OK", NEW j \in Encodings(r) PROVE Deserialized(j) = {r}
<1>1. PICK s, t : /\ s = <<Str("OK"), Str(r.eventId), Bool(r.success)>>
                  /\ t \in OptionalText(r.message) /\ j = Arr(s \o t)
  BY DEF Encodings
<1>2. PICK S : S = {Str("OK"), Str(r.eventId), Bool(r.success)}
  OBVIOUS
<1>3. Str("OK") \in S /\ Str(r.eventId) \in S /\ Bool(r.success) \in S
  BY <1>2
<1>4. /\ s \in Seq(S) /\ Len(s) = 3
      /\ s[1] = Str("OK") /\ s[2] = Str(r.eventId) /\ s[3] = Bool(r.success)
  BY <1>1, <1>3
<1>5. j.array = s \o t /\ IsArray(j)
  BY <1>1, Wrapped
<1>6. /\ Len(j.array) >= 3 /\ j.array[1] = s[1] /\ j.array[2] = s[2] /\ j.array[3] = s[3]
      /\ IF Len(j.array) > 3 THEN j.array[4] = Str(r.message) ELSE ~IsGiven(r.message)
  <2>1. /\ Len(j.array) >= Len(s) /\ \A i \in 1..Len(s) : j.array[i] = s[i]
        /\ IF Len(j.array) > Len(s) THEN j.array[Len(s) + 1] = Str(r.message) ELSE ~IsGiven(r.message)
    <3>1. s \in Seq(S) /\ t \in OptionalText(r.message) /\ j.array = s \o t
      BY <1>1, <1>4, <1>5, Zenon
    <3> QED BY <3>1, OptionalTextRead
  <2> QED BY <1>4, <2>1
<1>7. Len(j.array) \in Int
  OBVIOUS
<1> DEFINE x == DeserializeOk(j)
<1>8. IsOk(j)
  BY <1>4, <1>5, <1>6, <1>7, Wrapped DEF IsOk, IsFrame
<1>9. /\ x = [p \in {"type", "eventId", "success", "message"} |-> x[p]]
      /\ x.type = "OK" /\ x.eventId = j.array[2].string /\ x.success = j.array[3].boolean
  BY DEF DeserializeOk
<1>10. x.message = IF Len(j.array) >= 4 THEN j.array[4].string ELSE ""
  BY DEF DeserializeOk
<1> HIDE DEF x
<1>11. x.message = r.message
  <2>1. CASE Len(j.array) >= 4
    <3>1. j.array[4] = Str(r.message)
      BY <1>6, <1>7, <2>1
    <3> QED BY <1>10, <2>1, <3>1, Wrapped
  <2>2. CASE ~(Len(j.array) >= 4)
    <3>1. ~IsGiven(r.message)
      BY <1>6, <1>7, <2>2
    <3> QED BY <1>10, <2>2, <3>1, Zenon DEF IsGiven
  <2> QED BY <2>1, <2>2
<1>12. r = [p \in {"type", "eventId", "success", "message"} |-> r[p]]
  BY WorldAssumption DEF IsRecord, MessageFields
<1>13. x = r
  BY <1>4, <1>6, <1>9, <1>11, <1>12, Wrapped
<1> QED
  BY <1>8, <1>13, ReadByType DEF x

LEMMA ClosedIsRead ==
  ASSUME NEW r \in Meanings, r.type = "CLOSED", NEW j \in Encodings(r) PROVE Deserialized(j) = {r}
<1>1. PICK s, t : /\ s = <<Str("CLOSED"), Str(r.subscriptionId)>>
                  /\ t \in OptionalText(r.reason) /\ j = Arr(s \o t)
  BY DEF Encodings
<1>2. PICK S : S = {Str("CLOSED"), Str(r.subscriptionId)}
  OBVIOUS
<1>3. Str("CLOSED") \in S /\ Str(r.subscriptionId) \in S
  BY <1>2
<1>4. s \in Seq(S) /\ Len(s) = 2 /\ s[1] = Str("CLOSED") /\ s[2] = Str(r.subscriptionId)
  BY <1>1, <1>3
<1>5. j.array = s \o t /\ IsArray(j)
  BY <1>1, Wrapped
<1>6. /\ Len(j.array) >= 2 /\ j.array[1] = s[1] /\ j.array[2] = s[2]
      /\ IF Len(j.array) > 2 THEN j.array[3] = Str(r.reason) ELSE ~IsGiven(r.reason)
  <2>1. /\ Len(j.array) >= Len(s) /\ \A i \in 1..Len(s) : j.array[i] = s[i]
        /\ IF Len(j.array) > Len(s) THEN j.array[Len(s) + 1] = Str(r.reason) ELSE ~IsGiven(r.reason)
    <3>1. s \in Seq(S) /\ t \in OptionalText(r.reason) /\ j.array = s \o t
      BY <1>1, <1>4, <1>5, Zenon
    <3> QED BY <3>1, OptionalTextRead
  <2> QED BY <1>4, <2>1
<1> DEFINE x == DeserializeClosed(j)
<1>7. IsClosed(j)
  BY <1>4, <1>5, <1>6, Wrapped DEF IsClosed, IsFrame
<1>8. /\ x = [p \in {"type", "subscriptionId", "reason"} |-> x[p]]
      /\ x.type = "CLOSED" /\ x.subscriptionId = j.array[2].string
  BY DEF DeserializeClosed
<1>9. x.reason = IF Len(j.array) >= 3 THEN j.array[3].string ELSE ""
  BY DEF DeserializeClosed
<1> HIDE DEF x
<1>10. x.reason = r.reason
  <2>1. CASE Len(j.array) >= 3
    <3>1. j.array[3] = Str(r.reason)
      BY <1>6, <2>1
    <3> QED BY <1>9, <2>1, <3>1, Wrapped
  <2>2. CASE ~(Len(j.array) >= 3)
    <3>1. ~IsGiven(r.reason)
      BY <1>6, <2>2
    <3> QED BY <1>9, <2>2, <3>1, Zenon DEF IsGiven
  <2> QED BY <2>1, <2>2
<1>11. r = [p \in {"type", "subscriptionId", "reason"} |-> r[p]]
  BY WorldAssumption DEF IsRecord, MessageFields
<1>12. x = r
  BY <1>4, <1>6, <1>8, <1>10, <1>11, Wrapped
<1> QED
  BY <1>7, <1>12, ReadByType DEF x

LEMMA NoticeAndEoseAreRead ==
  ASSUME NEW r \in Meanings, r.type \in {"NOTICE", "EOSE"}, NEW j \in Encodings(r)
  PROVE  Deserialized(j) = {r}
<1>1. CASE r.type = "NOTICE"
  <2>1. j = Arr(<<Str("NOTICE"), Str(r.message)>>)
    BY <1>1 DEF Encodings
  <2>2. IsArray(j) /\ Len(j.array) = 2 /\ j.array[1] = Str("NOTICE") /\ j.array[2] = Str(r.message)
    BY <2>1, Wrapped
  <2>3. IsNotice(j) /\ j.array[2].string = r.message
    BY <2>2, Wrapped DEF IsNotice, IsFrame
  <2>4. r = [p \in {"type", "message"} |-> r[p]]
    BY <1>1, WorldAssumption DEF IsRecord, MessageFields
  <2>5. DeserializeNotice(j) = r
    BY <1>1, <2>3, <2>4 DEF DeserializeNotice
  <2> QED BY <2>3, <2>5, ReadByType
<1>2. CASE r.type = "EOSE"
  <2>1. j = Arr(<<Str("EOSE"), Str(r.subscriptionId)>>)
    BY <1>2 DEF Encodings
  <2>2. /\ IsArray(j) /\ Len(j.array) = 2 /\ j.array[1] = Str("EOSE")
        /\ j.array[2] = Str(r.subscriptionId)
    BY <2>1, Wrapped
  <2>3. IsEose(j) /\ j.array[2].string = r.subscriptionId
    BY <2>2, Wrapped DEF IsEose, IsFrame
  <2>4. r = [p \in {"type", "subscriptionId"} |-> r[p]]
    BY <1>2, WorldAssumption DEF IsRecord, MessageFields
  <2>5. DeserializeEndOfStoredEvents(j) = r
    BY <1>2, <2>3, <2>4 DEF DeserializeEndOfStoredEvents
  <2> QED BY <2>3, <2>5, ReadByType
<1> QED
  BY <1>1, <1>2

\* If only one of the readings gives something, it is what is read.
LEMMA OnlyReading ==
  ASSUME NEW f, DOMAIN f \subseteq Nat, NEW k \in DOMAIN f, f[k] # {},
         \A i \in DOMAIN f : i # k => f[i] = {}
  PROVE  FirstOf(f) = f[k]
<1>1. {i \in DOMAIN f : f[i] # {}} = {k}
  OBVIOUS
<1>2. Min({k}) = k
  <2>1. \A x \in {k} : Min({k}) <= x /\ Min({k}) \in {k}
    BY LeastOf
  <2> QED BY <2>1
<1> QED
  BY <1>1, <1>2 DEF FirstOf

LEMMA NoReading == ASSUME NEW f, \A i \in DOMAIN f : f[i] = {} PROVE FirstOf(f) = {}
<1>1. {i \in DOMAIN f : f[i] # {}} = {}
  OBVIOUS
<1> QED
  BY <1>1 DEF FirstOf

\* A challenge is found under each of its names.
LEMMA ChallengeInObject ==
  ASSUME NEW o, NEW c, NEW p \in ChallengeNames, p \in DOMAIN o, o[p] = Str(c),
         \A q \in ChallengeNames : q \in DOMAIN o => q = p
  PROVE  Challenge(Obj(o)) = {c}
<1> DEFINE Reading(q) == UNION {Text(v) : v \in Property(Obj(o), q)}
           names == <<"challenge", "message", "value">>
           f == [i \in DOMAIN names |-> Reading(names[i])]
<1>1. Reading(p) = {c}
  <2>1. Property(Obj(o), p) = {Str(c)}
    BY Wrapped DEF Property, Has
  <2>2. Text(Str(c)) = {c}
    BY Wrapped DEF Text
  <2> QED BY <2>1, <2>2
<1>2. ASSUME NEW q \in ChallengeNames, q # p PROVE Reading(q) = {}
  <2>1. Property(Obj(o), q) = {}
    BY <1>2, Wrapped DEF Property, Has
  <2> QED BY <2>1
<1>3. Challenge(Obj(o)) = FirstOf(f)
  BY Wrapped DEF Challenge
<1>4. /\ DOMAIN f = 1..3 /\ \A i \in 1..3 : f[i] = Reading(names[i])
      /\ names[1] = "challenge" /\ names[2] = "message" /\ names[3] = "value"
  <2> HIDE DEF Reading
  <2> QED OBVIOUS
<1> HIDE DEF Reading, names, f
<1>5. PICK k \in 1..3 : names[k] = p /\ \A i \in 1..3 : i # k => names[i] \in ChallengeNames \ {p}
  BY <1>4 DEF ChallengeNames
<1>6. /\ DOMAIN f \subseteq Nat /\ k \in DOMAIN f /\ f[k] = {c}
      /\ \A i \in DOMAIN f : i # k => f[i] = {}
  BY <1>1, <1>2, <1>4, <1>5
<1> QED
  BY <1>3, <1>6, OnlyReading

\* So is its expiry, and an object without these names has none.
LEMMA ExpiryInObject ==
  ASSUME NEW o, NEW times, NEW p \in ExpiryNames, p \in DOMAIN o,
         TryParseUnixTimestamp(o[p]) = times, times # {},
         \A q \in ExpiryNames : q \in DOMAIN o => q = p
  PROVE  ReadAuthExpiration(Obj(o)) = times
<1> DEFINE Reading(q) == UNION {TryParseUnixTimestamp(v) : v \in Property(Obj(o), q)}
           names == <<"expires_at", "expiration", "expiresAt">>
           f == [i \in DOMAIN names |-> Reading(names[i])]
<1>1. Reading(p) = times
  <2>1. Property(Obj(o), p) = {o[p]}
    BY Wrapped DEF Property, Has
  <2> QED BY <2>1
<1>2. ASSUME NEW q \in ExpiryNames, q # p PROVE Reading(q) = {}
  <2>1. Property(Obj(o), q) = {}
    BY <1>2, Wrapped DEF Property, Has
  <2> QED BY <2>1
<1>3. ReadAuthExpiration(Obj(o)) = FirstOf(f)
  BY Wrapped DEF ReadAuthExpiration
<1>4. /\ DOMAIN f = 1..3 /\ \A i \in 1..3 : f[i] = Reading(names[i])
      /\ names[1] = "expires_at" /\ names[2] = "expiration" /\ names[3] = "expiresAt"
  <2> HIDE DEF Reading
  <2> QED OBVIOUS
<1> HIDE DEF Reading, names, f
<1>5. PICK k \in 1..3 : names[k] = p /\ \A i \in 1..3 : i # k => names[i] \in ExpiryNames \ {p}
  BY <1>4 DEF ExpiryNames
<1>6. /\ DOMAIN f \subseteq Nat /\ k \in DOMAIN f /\ f[k] = times
      /\ \A i \in DOMAIN f : i # k => f[i] = {}
  BY <1>1, <1>2, <1>4, <1>5
<1> QED
  BY <1>3, <1>6, OnlyReading

LEMMA NoExpiryInObject ==
  ASSUME NEW o, \A q \in ExpiryNames : q \notin DOMAIN o PROVE ReadAuthExpiration(Obj(o)) = {}
<1> DEFINE Reading(q) == UNION {TryParseUnixTimestamp(v) : v \in Property(Obj(o), q)}
           names == <<"expires_at", "expiration", "expiresAt">>
           f == [i \in DOMAIN names |-> Reading(names[i])]
<1>1. ASSUME NEW q \in ExpiryNames PROVE Reading(q) = {}
  <2>1. Property(Obj(o), q) = {}
    BY Wrapped DEF Property, Has
  <2> QED BY <2>1
<1>2. ReadAuthExpiration(Obj(o)) = FirstOf(f)
  BY Wrapped DEF ReadAuthExpiration
<1>3. /\ DOMAIN f = 1..3 /\ \A i \in 1..3 : f[i] = Reading(names[i])
      /\ \A i \in 1..3 : names[i] \in ExpiryNames
  <2> HIDE DEF Reading
  <2> QED BY DEF ExpiryNames
<1> HIDE DEF Reading, names, f
<1>4. \A i \in DOMAIN f : f[i] = {}
  BY <1>1, <1>3
<1> QED
  BY <1>2, <1>4, NoReading

LEMMA AuthIsRead ==
  ASSUME NEW r \in Meanings, r.type = "AUTH", NEW j \in Encodings(r) PROVE Deserialized(j) = {r}
<1>1. PICK f \in ChallengeForms(r) : j = Arr(<<Str("AUTH"), f>>)
  BY DEF Encodings
<1>2. /\ IsGiven(r.challenge) /\ IsOption(r.expiresAt)
      /\ r = [p \in {"type", "challenge", "expiresAt"} |-> r[p]]
  BY WorldAssumption DEF IsRecord, MessageFields
<1>3. \A p \in ChallengeNames : p \notin ExpiryNames
  BY DEF ChallengeNames, ExpiryNames
<1>4. Challenge(f) = {r.challenge} /\ ReadAuthExpiration(f) = r.expiresAt
  <2>1. CASE r.expiresAt = {}
    <3>1. CASE f = Str(r.challenge)
      BY <2>1, <3>1, Wrapped DEF Challenge, ReadAuthExpiration, Text
    <3>2. ASSUME NEW p \in ChallengeNames, f = ChallengeAlone(p, r.challenge)
          PROVE  Challenge(f) = {r.challenge} /\ ReadAuthExpiration(f) = {}
      <4>1. PICK o : o = [x \in {p} |-> Str(r.challenge)]
        OBVIOUS
      <4>2. DOMAIN o = {p} /\ o[p] = Str(r.challenge)
        BY <4>1
      <4>3. f = Obj(o)
        BY <3>2, <4>1, Zenon DEF ChallengeAlone
      <4> QED BY <1>3, <4>2, <4>3, ChallengeInObject, NoExpiryInObject
    <3>3. f = Str(r.challenge) \/ \E p \in ChallengeNames : f = ChallengeAlone(p, r.challenge)
      BY <2>1 DEF ChallengeForms
    <3> QED BY <2>1, <3>1, <3>2, <3>3
  <2>2. CASE r.expiresAt # {}
    <3>1. PICK p \in ChallengeNames, q \in ExpiryNames, time \in ExpiryForms(r.expiresAt) :
            f = ChallengeBody(p, r.challenge, q, time)
      BY <2>2 DEF ChallengeForms
    <3>2. TryParseUnixTimestamp(time) = r.expiresAt
      <4>1. CASE time = Real(The(r.expiresAt))
        <5>1. r.expiresAt = {The(r.expiresAt)}
          BY <1>2, <2>2, TheOption
        <5> QED BY <4>1, <5>1, NumbersWrapped DEF TryParseUnixTimestamp
      <4>2. ASSUME NEW t, r.expiresAt = TimeOf(t), time = Str(t)
            PROVE  TryParseUnixTimestamp(time) = r.expiresAt
        BY <4>2, Wrapped DEF TryParseUnixTimestamp, TimeOf
      <4> QED BY <3>1, <4>1, <4>2 DEF ExpiryForms
    <3>3. PICK o : o = [x \in {p, q} |-> IF x = p THEN Str(r.challenge) ELSE time]
      OBVIOUS
    <3>4. DOMAIN o = {p, q} /\ o[p] = Str(r.challenge) /\ o[q] = time
      BY <1>3, <3>1, <3>3
    <3>5. f = Obj(o)
      BY <3>1, <3>3, Zenon DEF ChallengeBody
    <3>6. /\ \A x \in ChallengeNames : x \in DOMAIN o => x = p
          /\ \A x \in ExpiryNames : x \in DOMAIN o => x = q
      BY <1>3, <3>1, <3>4
    <3>7. Challenge(f) = {r.challenge}
      BY <3>1, <3>4, <3>5, <3>6, ChallengeInObject
    <3>8. ReadAuthExpiration(f) = r.expiresAt
      BY <2>2, <3>1, <3>2, <3>4, <3>5, <3>6, ExpiryInObject
    <3> QED BY <3>7, <3>8
  <2> QED BY <2>1, <2>2
<1>5. IsArray(j) /\ Len(j.array) = 2 /\ j.array[1] = Str("AUTH") /\ j.array[2] = f
  BY <1>1, Wrapped
<1>6. IsAuth(j)
  <2>1. IsFrame(j, "AUTH", 2)
    BY <1>5 DEF IsFrame
  <2> QED BY <1>2, <1>4, <1>5, <2>1, Zenon DEF IsAuth, IsGiven
<1>7. DeserializeAuthChallenge(j) = r
  BY <1>2, <1>4, <1>5, TheOnly DEF DeserializeAuthChallenge
<1> QED
  BY <1>6, <1>7, ReadByType

\* Each form in which a relay may write a message is read as that message.
LEMMA EncodedIsRead ==
  ASSUME NEW r \in Meanings, NEW j \in Encodings(r) PROVE Deserialized(j) = {r}
<1>1. r.type \in MessageTypes
  BY WorldAssumption
<1> QED
  BY <1>1, EventIsRead, OkIsRead, ClosedIsRead, NoticeAndEoseAreRead, AuthIsRead DEF MessageTypes

-----------------------------------------------------------------------------
(* An event on its way from the relay to the application and back.         *)

\* An event as a relay means it, whose texts UTF-8 can write.
IsMeantEvent(e) ==
  /\ IsRecord(e, EventFields) /\ e.kind \in -IntMax - 1..IntMax
  /\ \A t \in {e.id, e.publicKey, e.content, e.signature} : IsUtf8(t)
  /\ IsTextMatrix(e.tags)

\* What the relay meant is what the object holds; with no subscription there is no
\* one to show it to.
KeptInv ==
  /\ subscription = {} => source = {}
  /\ \A e \in source : IsMeantEvent(e) /\ (Plain(e) => object = {e})

LEMMA MeantEvent == ASSUME NEW r \in Meanings, r.type = "EVENT" PROVE IsMeantEvent(r.event)
<1>1. MessageTexts(r) = r.subscriptionId \union {r.event.id, r.event.publicKey,
                                                 r.event.content, r.event.signature}
  BY DEF MessageTexts
<1>2. /\ \A t \in MessageTexts(r) : IsUtf8(t)
      /\ IsTextMatrix(r.event.tags) /\ IsRecord(r.event, EventFields)
      /\ r.event.kind \in -IntMax - 1..IntMax
  BY WorldAssumption
<1> QED
  BY <1>1, <1>2 DEF IsMeantEvent

LEMMA PlainEventFits ==
  ASSUME NEW e, IsRecord(e, EventFields), Plain(e) PROVE IsObjectEvent(e)
<1>1. DOMAIN e = EventFields /\ e = [p \in EventFields |-> e[p]]
  BY DEF IsRecord
<1>2. WithCStrings(e) = e
  BY DEF Plain
<1>3. LET o == WithCStrings(e)
      IN  /\ o.id = CStr(e.id) /\ o.publicKey = CStr(e.publicKey)
          /\ o.content = CStr(e.content) /\ o.signature = CStr(e.signature)
          /\ o.tags = CTags(e.tags)
  BY <1>1, WithCStringsFields
<1> QED
  BY <1>1, <1>2, <1>3 DEF IsObjectEvent

LEMMA KeptIncomingStep ==
  ASSUME KeptInv, NEW j, NEW meant, meant = {} \/ \E r \in Meanings : meant = {r} /\ Deserialized(j) = {r},
         HandleIncomingMessage(j, meant)
  PROVE  KeptInv'
<1>1. UNCHANGED subscription
  BY DEF HandleIncomingMessage
<1>2. ASSUME NEW x \in Deserialized(j), x.type = "EVENT", subscription # {},
             DispatchEventMessage(x.event, meant)
      PROVE  KeptInv'
  <2>1. source' = {r.event : r \in meant} /\ object' = {NostrEvent(WithCStrings(x.event))}
    BY <1>2 DEF DispatchEventMessage, PopulateEventDispatch
  <2>2. CASE meant = {}
    BY <1>1, <1>2, <2>1, <2>2 DEF KeptInv
  <2>3. ASSUME NEW r \in Meanings, meant = {r}, Deserialized(j) = {r} PROVE KeptInv'
    <3>1. x = r /\ source' = {r.event}
      BY <1>2, <2>1, <2>3
    <3>2. IsMeantEvent(r.event)
      BY <1>2, <3>1, MeantEvent
    <3>3. ASSUME Plain(r.event) PROVE NostrEvent(WithCStrings(r.event)) = r.event
      <4>1. IsObjectEvent(r.event)
        BY <3>2, <3>3, PlainEventFits DEF IsMeantEvent
      <4> QED BY <4>1, ObjectEventIsKept
    <3> QED BY <1>1, <1>2, <2>1, <3>1, <3>2, <3>3 DEF KeptInv
  <2> QED BY <2>2, <2>3
<1>3. ASSUME UNCHANGED eventVars PROVE KeptInv'
  BY <1>1, <1>3 DEF KeptInv, eventVars
<1> QED
  BY <1>2, <1>3 DEF HandleIncomingMessage, DispatchAuthRequired

LEMMA KeptPublishStep ==
  ASSUME EventsInv, KeptInv, NEW n \in Nonces, PublishEvent(n) PROVE KeptInv'
<1>1. PICK o \in object :
        LET own == ReadEventFromDispatch(o)
            event == IF RequiresSigning(own) THEN WithSignature(WithKey(own), n) ELSE own
        IN  /\ object' = {WriteEventBackToDispatch(event)}
            /\ source' = IF RequiresSigning(own) THEN {} ELSE source
  BY DEF PublishEvent
<1>2. subscription # {} /\ UNCHANGED subscription
  BY DEF PublishEvent
<1>3. IsObjectEvent(o) /\ object = {o}
  BY DEF EventsInv, IsOption
<1>4. ReadEventFromDispatch(o) = o /\ WriteEventBackToDispatch(o) = o
  BY <1>3, ObjectEventIsKept
<1>5. CASE RequiresSigning(o)
  BY <1>1, <1>2, <1>4, <1>5 DEF KeptInv
<1>6. CASE ~RequiresSigning(o)
  BY <1>1, <1>2, <1>3, <1>4, <1>6 DEF KeptInv
<1> QED
  BY <1>5, <1>6

\* UTF-8 leaves the texts of tags alone that it can write.
LEMMA TextsAreKept ==
  ASSUME NEW tags, IsTextMatrix(tags)
  PROVE  [i \in DOMAIN tags |-> [k \in DOMAIN tags[i] |-> Utf8(tags[i][k])]] = tags
<1>1. ASSUME NEW i \in DOMAIN tags
      PROVE  [k \in DOMAIN tags[i] |-> Utf8(tags[i][k])] = tags[i]
  <2>1. tags[i] = [k \in DOMAIN tags[i] |-> tags[i][k]]
    BY DEF IsTextMatrix
  <2>2. ASSUME NEW k \in DOMAIN tags[i] PROVE Utf8(tags[i][k]) = tags[i][k]
    <3>1. tags[i][k] \in TextsOf(tags)
      BY DEF TextsOf, Range
    <3> QED BY <3>1 DEF IsTextMatrix, IsUtf8
  <2> QED BY <2>1, <2>2, Zenon
<1>2. tags = [i \in DOMAIN tags |-> tags[i]]
  BY DEF IsTextMatrix
<1> QED
  BY <1>1, <1>2, Zenon

LEMMA KeptInvariant == ASSUME ConversionsAreSound PROVE Spec => []KeptInv
<1>1. Init => KeptInv
  BY DEF Init, ExchangeInit, KeptInv
<1>2. EventsInv /\ KeptInv /\ [Next]_vars => KeptInv'
  <2> SUFFICES ASSUME EventsInv, KeptInv, [Next]_vars PROVE KeptInv'
    OBVIOUS
  <2>1. ASSUME UNCHANGED <<eventVars, subscription>> PROVE KeptInv'
    BY <2>1 DEF KeptInv, eventVars
  <2>2. CASE UNCHANGED exchangeVars
    BY <2>1, <2>2 DEF exchangeVars
  <2>3. CASE Exchange
    <3>1. CASE RelaySends
      <4>1. PICK r \in MeaningsNow : \E j \in Encodings(r) : HandleIncomingMessage(j, {r})
        BY <3>1 DEF RelaySends
      <4>2. r \in Meanings
        BY DEF MeaningsNow
      <4> QED BY <4>1, <4>2, EncodedIsRead, KeptIncomingStep
    <3>2. CASE RelayGarbles
      <4>1. \E j : HandleIncomingMessage(j, {})
        BY <3>2 DEF RelayGarbles
      <4> QED BY <4>1, KeptIncomingStep
    <3>3. ASSUME NEW o, Changed(o) PROVE KeptInv'
      BY <3>3 DEF Changed, KeptInv
    <3>4. CASE CreateEvent \/ PutContent \/ Unsign \/ ReleaseEvent \/ CopyChallenge
      BY <3>3, <3>4 DEF CreateEvent, PutContent, Unsign, ReleaseEvent, CopyChallenge
    <3>5. ASSUME NEW n \in Nonces, RespondAuth(n) PROVE KeptInv'
      <4>1. subscription = {} /\ UNCHANGED <<source, subscription>>
        BY <3>5 DEF RespondAuth, eventVars
      <4> QED BY <4>1 DEF KeptInv
    <3>6. CASE OpenSubscription
      <4>1. subscription = {} /\ UNCHANGED eventVars
        BY <3>6 DEF OpenSubscription
      <4> QED BY <4>1 DEF KeptInv, eventVars
    <3>7. CASE UpdateFilters
      BY <2>1, <3>7 DEF UpdateFilters
    <3> QED BY <2>3, <3>1, <3>2, <3>4, <3>5, <3>6, <3>7, KeptPublishStep DEF Exchange
  <2> QED BY <2>2, <2>3 DEF Next, vars
<1> QED
  BY <1>1, <1>2, EventsInvariant, PTL DEF Spec

\* An event that a relay sends reaches the application as the relay meant it, whatever
\* form it was written in, and is sent back as that event if it is published again.
THEOREM EventKeptWholeHolds == ASSUME ConversionsAreSound PROVE Spec => []EventKeptWhole
<1>1. EventsInv /\ KeptInv => EventKeptWhole
  <2> SUFFICES ASSUME EventsInv, KeptInv, NEW e \in source, Plain(e)
               PROVE  object = {e} /\ \A m \in sent : SentEvent(m) = e
    BY DEF EventKeptWhole
  <2>1. object = {e} /\ IsMeantEvent(e) /\ e.kind \in Int
    BY MessagesAssumption DEF KeptInv, IsMeantEvent
  <2>2. ASSUME NEW m \in sent PROVE SentEvent(m) = e
    <3>1. m = Arr(<<Str("EVENT"), BuildEventObject(e)>>)
      BY <2>1 DEF EventsInv, SerializeEvent
    <3> DEFINE x == SentEvent(m)
    <3>2. /\ x.id = Utf8(e.id) /\ x.publicKey = Utf8(e.publicKey)
          /\ x.content = Utf8(e.content) /\ x.signature = Utf8(e.signature)
          /\ x.tags = [i \in DOMAIN e.tags |-> [k \in DOMAIN e.tags[i] |-> Utf8(e.tags[i][k])]]
          /\ x.kind = e.kind /\ x.createdAt = e.createdAt
          /\ x = [p \in EventFields |-> x[p]]
      BY <2>1, <3>1, SentEventFields
    <3> HIDE DEF x
    <3>3. [i \in DOMAIN e.tags |-> [k \in DOMAIN e.tags[i] |-> Utf8(e.tags[i][k])]] = e.tags
      BY <2>1, TextsAreKept DEF IsMeantEvent
    <3>4. /\ x.id = e.id /\ x.publicKey = e.publicKey /\ x.content = e.content
          /\ x.signature = e.signature /\ x.tags = e.tags
      BY <2>1, <3>2, <3>3 DEF IsMeantEvent, IsUtf8
    <3>5. \A p \in EventFields : x[p] = e[p]
      BY <3>2, <3>4 DEF EventFields
    <3>6. x = e
      BY <2>1, <3>2, <3>5, Zenon DEF IsMeantEvent, IsRecord
    <3> QED BY <3>6 DEF x
  <2> QED BY <2>1, <2>2
<1> QED
  BY <1>1, EventsInvariant, KeptInvariant, PTL

-----------------------------------------------------------------------------
(* Filters as the application gives them and as UpdateFilters reads them.  *)

OwnTexts(s) == Array("variant", [i \in DOMAIN s |-> IF IsGiven(s[i]) THEN Bstr(s[i]) ELSE Empty])
OwnKinds(s) == Array("variant", [i \in DOMAIN s |-> I4(s[i])])
OwnTag(t) == [label |-> Bstr(t.label), values |-> OwnTexts(t.values)]
OwnTags(s) == Array("variant", [i \in DOMAIN s |-> Dispatch(OwnTag(s[i]))])

\* Texts up to their NULs.
Cut(s) == [i \in DOMAIN s |-> CStr(s[i])]

LEMMA ListIs ==
  ASSUME NEW s, IsList(s)
  PROVE  Len(s) \in Nat /\ DOMAIN s = 1..Len(s) /\ s = [i \in DOMAIN s |-> s[i]]
BY DEF IsList

LEMMA Variants ==
  /\ \A t : Bstr(t) # Empty /\ Bstr(t).bstr = t /\ Holds(Bstr(t), "bstr")
  /\ \A n : I4(n) # Empty /\ I4(n).i4 = n
  /\ \A o : Dispatch(o).dispatch = o /\ Holds(Dispatch(o), "dispatch")
  /\ ~Holds(Empty, "dispatch")
  /\ \A type, s : /\ Array(type, s).of = type /\ Array(type, s).array = s
                  /\ IsSafeArray(Array(type, s))
<1>1. \A t : Bstr(t) # Empty /\ Bstr(t).bstr = t /\ Holds(Bstr(t), "bstr")
  <2>1. \A t : DOMAIN Bstr(t) = {"bstr"} /\ Bstr(t).bstr = t
    BY DEF Bstr
  <2>2. DOMAIN Empty = {"empty"}
    BY DEF Empty
  <2> QED BY <2>1, <2>2 DEF Holds
<1>2. \A n : I4(n) # Empty /\ I4(n).i4 = n
  <2>1. \A n : DOMAIN I4(n) = {"i4"} /\ I4(n).i4 = n
    BY DEF I4
  <2>2. DOMAIN Empty = {"empty"}
    BY DEF Empty
  <2> QED BY <2>1, <2>2
<1>3. \A o : Dispatch(o).dispatch = o /\ Holds(Dispatch(o), "dispatch")
  BY DEF Dispatch, Holds
<1>4. ~Holds(Empty, "dispatch")
  BY DEF Empty, Holds
<1>5. \A type, s : /\ Array(type, s).of = type /\ Array(type, s).array = s
                   /\ IsSafeArray(Array(type, s))
  BY DEF Array, IsSafeArray
<1> QED
  BY <1>1, <1>2, <1>3, <1>4, <1>5

LEMMA OwnTextsAreRead ==
  ASSUME ConversionsAreSound, NEW s, NEW a, a = OwnTexts(s)
  PROVE  IsSafeArray(a) /\ AreStrings(a) /\ StringVector(a) = Cut(s)
<1>1. /\ a.of = "variant" /\ IsSafeArray(a) /\ DOMAIN a.array = DOMAIN s
      /\ \A i \in DOMAIN s : a.array[i] = IF IsGiven(s[i]) THEN Bstr(s[i]) ELSE Empty
  BY Variants DEF OwnTexts
<1>2. AreStrings(a)
  BY <1>1, Variants DEF AreStrings
<1>3. /\ DOMAIN StringVector(a) = DOMAIN s
      /\ \A i \in DOMAIN s : StringVector(a)[i] = IF a.array[i] = Empty THEN "" ELSE CStr(a.array[i].bstr)
  BY <1>1, Zenon DEF StringVector
<1>4. ASSUME NEW i \in DOMAIN s PROVE StringVector(a)[i] = CStr(s[i])
  <2>1. CASE IsGiven(s[i])
    <3>1. a.array[i] # Empty /\ a.array[i].bstr = s[i]
      BY <1>1, <2>1, Variants
    <3> QED BY <1>3, <3>1, Zenon
  <2>2. CASE ~IsGiven(s[i])
    <3>1. a.array[i] = Empty /\ CStr(s[i]) = s[i]
      BY <1>1, <2>2 DEF ConversionsAreSound
    <3> QED BY <1>3, <2>2, <3>1, Zenon DEF IsGiven
  <2> QED BY <2>1, <2>2
<1>5. StringVector(a) = [i \in DOMAIN StringVector(a) |-> StringVector(a)[i]]
  BY DEF StringVector
<1>6. StringVector(a) = Cut(s)
  BY <1>3, <1>4, <1>5 DEF Cut
<1> QED
  BY <1>1, <1>2, <1>6

LEMMA CStringsAreRead ==
  ASSUME ConversionsAreSound, NEW s, NEW a, a = CStrings(s)
  PROVE  IsSafeArray(a) /\ AreStrings(a) /\ StringVector(a) = Cut(s)
<1>1. a.of = "bstr" /\ IsSafeArray(a) /\ a.array = [i \in DOMAIN s |-> CStr(s[i])]
  BY Variants DEF CStrings
<1>2. \A t : CStr(CStr(t)) = CStr(t)
  BY DEF ConversionsAreSound
<1>3. DOMAIN a.array = DOMAIN s /\ \A i \in DOMAIN s : CStr(a.array[i]) = CStr(s[i])
  BY <1>1, <1>2
<1>4. StringVector(a) = [i \in DOMAIN a.array |-> CStr(a.array[i])]
  BY <1>1, Zenon DEF StringVector
<1>5. AreStrings(a)
  BY <1>1 DEF AreStrings
<1> QED
  BY <1>1, <1>3, <1>4, <1>5 DEF Cut

LEMMA LongOfInt ==
  ASSUME NEW n \in -IntMax - 1..IntMax PROVE VariantToLong(I4(n)) = {n}
<1>1. n \in Int /\ VariantToDouble(I4(n)) = {2 * n}
  BY MessagesAssumption DEF VariantToDouble, I4, Holds
<1>2. RoundedToEven(2 * n) = n
  <2>1. (2 * n) \div 2 = n /\ (2 * n) % 2 = 0
    BY <1>1
  <2> QED BY <2>1 DEF RoundedToEven
<1> QED
  BY <1>1, <1>2 DEF VariantToLong

LEMMA KindsAreRead ==
  ASSUME NEW s, IsList(s), \A i \in DOMAIN s : s[i] \in -IntMax - 1..IntMax,
         NEW a, a \in {Array("i4", s), OwnKinds(s)}
  PROVE  IsSafeArray(a) /\ LongVector(a) = s
<1>1. s = [i \in DOMAIN s |-> s[i]]
  BY ListIs
<1>2. CASE a = Array("i4", s)
  <2>1. a.of = "i4" /\ a.array = s /\ IsSafeArray(a)
    BY <1>2, Variants
  <2> QED BY <1>1, <2>1 DEF LongVector
<1>3. CASE a = OwnKinds(s)
  <2>1. /\ a.of = "variant" /\ IsSafeArray(a) /\ DOMAIN a.array = DOMAIN s
        /\ \A i \in DOMAIN s : a.array[i] = I4(s[i])
    BY <1>3, Variants DEF OwnKinds
  <2>2. ASSUME NEW i \in DOMAIN s PROVE The(VariantToLong(a.array[i])) = s[i] /\ a.array[i] # Empty
    <3>1. a.array[i] = I4(s[i]) /\ VariantToLong(I4(s[i])) = {s[i]}
      BY <2>1, LongOfInt
    <3> QED BY <3>1, TheOnly, Variants
  <2> QED BY <1>1, <2>1, <2>2 DEF LongVector
<1> QED
  BY <1>2, <1>3

LEMMA OwnFilterFields ==
  ASSUME NEW f
  PROVE  LET p == OwnFilter(f)
         IN  /\ p.ids = OwnTexts(f.ids) /\ p.authors = OwnTexts(f.authors)
             /\ p.kinds = OwnKinds(f.kinds) /\ p.tags = OwnTags(f.tags)
             /\ p.since = f.since /\ p.until = f.until /\ p.limit = f.limit
BY DEF OwnFilter, NostrFilter, OwnTexts, OwnKinds, OwnTags, OwnTag

LEMMA NostrFilterFields ==
  ASSUME NEW f
  PROVE  LET p == NostrFilter(f)
         IN  /\ p.ids = CStrings(f.ids) /\ p.authors = CStrings(f.authors)
             /\ p.kinds = Array("i4", f.kinds)
             /\ IsSafeArray(p.tags) /\ p.tags.of = "dispatch" /\ DOMAIN p.tags.array = DOMAIN f.tags
             /\ p.since = f.since /\ p.until = f.until /\ p.limit = f.limit
BY Variants DEF NostrFilter

FilterFields == {"ids", "authors", "kinds", "tagQueries", "since", "until", "limit"}

\* The data of a filter is what was asked for, but for its since.
IsAskedFor(d, f) ==
  /\ d = [p \in FilterFields |-> d[p]]
  /\ d.ids = Cut(f.ids) /\ d.authors = Cut(f.authors) /\ d.kinds = f.kinds
  /\ d.until = VariantToDouble(f.until) /\ d.limit = VariantToLong(f.limit)
  /\ DOMAIN d.tagQueries = {f.tags[k].label : k \in DOMAIN f.tags}
  /\ \A k \in DOMAIN f.tags :
       (\A i \in DOMAIN f.tags : f.tags[i].label = f.tags[k].label => i = k)
         => d.tagQueries[f.tags[k].label] = Cut(f.tags[k].values)

LastOf(q, t) == Max({i \in DOMAIN q : q[i].label.bstr = t})

FilterFieldsAre(d, p, q) ==
  /\ d = [x \in FilterFields |-> d[x]]
  /\ d.ids = StringVector(p.ids) /\ d.authors = StringVector(p.authors)
  /\ d.kinds = LongVector(p.kinds) /\ d.limit = VariantToLong(p.limit)
  /\ d.since = VariantToDouble(p.since) /\ d.until = VariantToDouble(p.until)
  /\ DOMAIN d.tagQueries = {q[i].label.bstr : i \in DOMAIN q}
  /\ \A i \in DOMAIN q :
       d.tagQueries[q[i].label.bstr] = StringVector(q[LastOf(q, q[i].label.bstr)].values)

LEMMA FilterDataFields ==
  ASSUME NEW p, IsSafeArray(p.ids), IsSafeArray(p.authors), IsSafeArray(p.kinds), IsSafeArray(p.tags),
         NEW q, q = ObjectsOf(p.tags), NEW d, d = FilterData(p)
  PROVE  FilterFieldsAre(d, p, q)
<1>1. /\ d.ids = StringVector(p.ids) /\ d.authors = StringVector(p.authors)
      /\ d.kinds = LongVector(p.kinds) /\ d.limit = VariantToLong(p.limit)
      /\ d.since = VariantToDouble(p.since) /\ d.until = VariantToDouble(p.until)
  BY DEF FilterData
<1>2. d = [x \in FilterFields |-> d[x]]
  BY DEF FilterData, FilterFields
<1>3. d.tagQueries = [t \in {q[i].label.bstr : i \in DOMAIN q} |-> StringVector(q[LastOf(q, t)].values)]
  BY DEF FilterData, LastOf
<1> QED
  BY <1>1, <1>2, <1>3 DEF FilterFieldsAre

LEMMA NostrFilterAsAsked ==
  ASSUME ConversionsAreSound, NEW f, IsFilter(f), NEW p, p = NostrFilter(f), IsReadable(p)
  PROVE  IsAskedFor(FilterData(p), f) /\ FilterData(p).since = VariantToDouble(f.since)
<1>1. DOMAIN f.tags = {}
  BY NostrFilterFields, Variants DEF IsReadable, AreObjects, ElementAsVariant
<1>2. /\ IsSafeArray(p.ids) /\ StringVector(p.ids) = Cut(f.ids)
      /\ IsSafeArray(p.authors) /\ StringVector(p.authors) = Cut(f.authors)
      /\ IsSafeArray(p.kinds) /\ LongVector(p.kinds) = f.kinds /\ IsSafeArray(p.tags)
  BY NostrFilterFields, CStringsAreRead, KindsAreRead DEF IsFilter
<1>3. PICK q : q = ObjectsOf(p.tags)
  OBVIOUS
<1>4. DOMAIN q = {}
  BY <1>1, <1>3, NostrFilterFields DEF ObjectsOf
<1>5. PICK d : d = FilterData(p)
  OBVIOUS
<1>6. /\ d = [x \in FilterFields |-> d[x]]
      /\ d.ids = Cut(f.ids) /\ d.authors = Cut(f.authors) /\ d.kinds = f.kinds
      /\ d.since = VariantToDouble(p.since) /\ d.until = VariantToDouble(p.until)
      /\ d.limit = VariantToLong(p.limit) /\ DOMAIN d.tagQueries = {}
  <2>1. FilterFieldsAre(d, p, q)
    BY <1>2, <1>3, <1>5, FilterDataFields
  <2> QED BY <1>2, <1>4, <2>1 DEF FilterFieldsAre
<1>7. p.since = f.since /\ p.until = f.until /\ p.limit = f.limit
  BY NostrFilterFields
<1> QED
  BY <1>1, <1>5, <1>6, <1>7 DEF IsAskedFor

LEMMA OwnFilterAsAsked ==
  ASSUME ConversionsAreSound, NEW f, IsFilter(f), NEW p, p = OwnFilter(f)
  PROVE  IsAskedFor(FilterData(p), f) /\ FilterData(p).since = VariantToDouble(f.since)
<1>1. /\ IsSafeArray(p.ids) /\ StringVector(p.ids) = Cut(f.ids)
      /\ IsSafeArray(p.authors) /\ StringVector(p.authors) = Cut(f.authors)
      /\ IsSafeArray(p.kinds) /\ LongVector(p.kinds) = f.kinds
  BY OwnFilterFields, OwnTextsAreRead, KindsAreRead DEF IsFilter
<1>2. PICK q : q = ObjectsOf(p.tags)
  OBVIOUS
<1>3. /\ IsSafeArray(p.tags) /\ DOMAIN q = DOMAIN f.tags
      /\ \A i \in DOMAIN q : q[i] = OwnTag(f.tags[i])
  <2>1. PICK os : os = [i \in DOMAIN f.tags |-> Dispatch(OwnTag(f.tags[i]))]
    OBVIOUS
  <2>2. p.tags = Array("variant", os)
    BY <2>1, OwnFilterFields DEF OwnTags
  <2>3. /\ IsSafeArray(p.tags) /\ p.tags.of = "variant" /\ p.tags.array = os
    BY <2>2, Variants
  <2>4. DOMAIN os = DOMAIN f.tags /\ \A i \in DOMAIN f.tags : os[i].dispatch = OwnTag(f.tags[i])
    BY <2>1, Variants
  <2> QED BY <1>2, <2>3, <2>4 DEF ObjectsOf, ElementAsVariant
<1>4. \A i \in DOMAIN q : /\ q[i].label.bstr = f.tags[i].label
                          /\ StringVector(q[i].values) = Cut(f.tags[i].values)
  <2>1. \A t : OwnTag(t).label.bstr = t.label /\ OwnTag(t).values = OwnTexts(t.values)
    BY Variants DEF OwnTag
  <2> QED BY <1>3, <2>1, OwnTextsAreRead
<1>5. PICK d : d = FilterData(p)
  OBVIOUS
<1>6. /\ d = [x \in FilterFields |-> d[x]]
      /\ d.ids = Cut(f.ids) /\ d.authors = Cut(f.authors) /\ d.kinds = f.kinds
      /\ d.since = VariantToDouble(p.since) /\ d.until = VariantToDouble(p.until)
      /\ d.limit = VariantToLong(p.limit)
      /\ DOMAIN d.tagQueries = {q[i].label.bstr : i \in DOMAIN q}
      /\ \A i \in DOMAIN q :
           d.tagQueries[q[i].label.bstr] = StringVector(q[LastOf(q, q[i].label.bstr)].values)
  <2>1. IsSafeArray(p.ids) /\ IsSafeArray(p.authors) /\ IsSafeArray(p.kinds) /\ IsSafeArray(p.tags)
    BY <1>1, <1>3
  <2>2. FilterFieldsAre(d, p, q)
    BY <1>2, <1>5, <2>1, FilterDataFields
  <2> QED BY <1>1, <2>2 DEF FilterFieldsAre
<1>7. p.since = f.since /\ p.until = f.until /\ p.limit = f.limit
  BY OwnFilterFields
<1>8. DOMAIN d.tagQueries = {f.tags[k].label : k \in DOMAIN f.tags}
  <2>1. {q[i].label.bstr : i \in DOMAIN q} = {f.tags[k].label : k \in DOMAIN f.tags}
    BY <1>3, <1>4
  <2> QED BY <1>6, <2>1
<1>9. ASSUME NEW k \in DOMAIN f.tags,
             \A i \in DOMAIN f.tags : f.tags[i].label = f.tags[k].label => i = k
      PROVE  d.tagQueries[f.tags[k].label] = Cut(f.tags[k].values)
  <2>1. PICK t : t = f.tags[k].label
    OBVIOUS
  <2>2. d.tagQueries[t] = StringVector(q[LastOf(q, t)].values)
    BY <1>3, <1>4, <1>6, <2>1, SMTT(30)
  <2>3. {i \in DOMAIN q : q[i].label.bstr = t} = {k}
    BY <1>3, <1>4, <1>9, <2>1
  <2>4. Max({k}) = k
    <3>1. Len(f.tags) \in Nat /\ {k} \subseteq 0..Len(f.tags)
      BY ListIs DEF IsFilter
    <3>2. Max({k}) \in {k}
      BY <3>1, GreatestOf
    <3> QED BY <3>2
  <2>5. LastOf(q, t) = k
    BY <2>3, <2>4 DEF LastOf
  <2> QED BY <1>3, <1>4, <2>1, <2>2, <2>5
<1> QED
  BY <1>5, <1>6, <1>7, <1>8, <1>9 DEF IsAskedFor


-----------------------------------------------------------------------------
(* Filters as UpdateFilters writes them and as a relay reads them.         *)

Properties == {"ids", "authors", "kinds", "since", "until", "limit"}

ListsOf(d) ==
  [p \in {q \in {"ids", "authors", "kinds"} : d[q] # <<>>} |->
     IF p = "kinds" THEN Arr([i \in DOMAIN d.kinds |-> Whole(d.kinds[i])]) ELSE Strings(d[p])]

NumbersOf(d) ==
  [p \in {q \in {"since", "until", "limit"} : d[q] # {}} |->
     IF p = "limit" THEN Whole(The(d.limit)) ELSE Real(The(d[p]))]

QueriesOf(d) ==
  [p \in {Utf8(q) : q \in DOMAIN d.tagQueries} |->
     Strings(d.tagQueries[CHOOSE q \in DOMAIN d.tagQueries : Utf8(q) = p])]

IsOver(c, o, p) ==
  /\ DOMAIN c = DOMAIN o \union DOMAIN p
  /\ \A x \in DOMAIN o : c[x] = o[x]
  /\ \A x \in DOMAIN p : x \notin DOMAIN o => c[x] = p[x]

LEMMA OverIs == ASSUME NEW o, NEW p PROVE IsOver(Over(o, p), o, p)
BY DEF Over, IsOver

LEMMA WrittenFilter ==
  ASSUME NEW d, NEW b, b = BuildFilterObject(d)
  PROVE  /\ DOMAIN b.object = DOMAIN QueriesOf(d) \union DOMAIN ListsOf(d) \union DOMAIN NumbersOf(d)
         /\ \A p \in DOMAIN QueriesOf(d) : b.object[p] = QueriesOf(d)[p]
         /\ \A p \in DOMAIN ListsOf(d) : p \notin DOMAIN QueriesOf(d) => b.object[p] = ListsOf(d)[p]
         /\ \A p \in DOMAIN NumbersOf(d) :
              p \notin DOMAIN QueriesOf(d) => b.object[p] = NumbersOf(d)[p]
<1>1. b = Obj(Over(QueriesOf(d), Over(ListsOf(d), NumbersOf(d))))
  BY DEF BuildFilterObject, QueriesOf, ListsOf, NumbersOf
<1>2. b.object = Over(QueriesOf(d), Over(ListsOf(d), NumbersOf(d)))
  BY <1>1 DEF Obj
<1>3. /\ DOMAIN ListsOf(d) \subseteq {"ids", "authors", "kinds"}
      /\ DOMAIN NumbersOf(d) \subseteq {"since", "until", "limit"}
  BY DEF ListsOf, NumbersOf
<1>4. \A p \in DOMAIN NumbersOf(d) : p \notin DOMAIN ListsOf(d)
  BY <1>3
<1>5. PICK rest : rest = Over(ListsOf(d), NumbersOf(d))
  OBVIOUS
<1>6. /\ DOMAIN rest = DOMAIN ListsOf(d) \union DOMAIN NumbersOf(d)
      /\ \A p \in DOMAIN ListsOf(d) : rest[p] = ListsOf(d)[p]
      /\ \A p \in DOMAIN NumbersOf(d) : rest[p] = NumbersOf(d)[p]
  <2>1. IsOver(rest, ListsOf(d), NumbersOf(d))
    BY <1>5, OverIs
  <2> QED BY <1>4, <2>1 DEF IsOver
<1>7. PICK o : o = Over(QueriesOf(d), rest)
  OBVIOUS
<1>8. /\ DOMAIN o = DOMAIN QueriesOf(d) \union DOMAIN rest
      /\ \A p \in DOMAIN QueriesOf(d) : o[p] = QueriesOf(d)[p]
      /\ \A p \in DOMAIN rest : p \notin DOMAIN QueriesOf(d) => o[p] = rest[p]
  <2>1. IsOver(o, QueriesOf(d), rest)
    BY <1>7, OverIs
  <2> QED BY <2>1 DEF IsOver
<1>9. b.object = o
  BY <1>2, <1>5, <1>7
<1> QED
  BY <1>6, <1>8, <1>9, Zenon

LEMMA WrittenNumbers ==
  ASSUME NEW d, NEW b, b = BuildFilterObject(d), NEW p \in {"since", "until", "limit"},
         p \notin DOMAIN QueriesOf(d)
  PROVE  /\ Has(b, p) <=> d[p] # {}
         /\ Has(b, p) => b.object[p] = IF p = "limit" THEN Whole(The(d.limit)) ELSE Real(The(d[p]))
<1>1. DOMAIN ListsOf(d) \subseteq {"ids", "authors", "kinds"}
  BY DEF ListsOf
<1>2. DOMAIN NumbersOf(d) = {q \in {"since", "until", "limit"} : d[q] # {}}
  BY DEF NumbersOf
<1>3. Has(b, p) <=> p \in DOMAIN NumbersOf(d)
  BY <1>1, WrittenFilter DEF Has
<1>4. Has(b, p) => b.object[p] = NumbersOf(d)[p]
  BY <1>3, WrittenFilter
<1> QED
  BY <1>2, <1>3, <1>4 DEF NumbersOf

LEMMA WrittenLists ==
  ASSUME NEW d, NEW b, b = BuildFilterObject(d), NEW p \in {"ids", "authors", "kinds"},
         p \notin DOMAIN QueriesOf(d)
  PROVE  /\ Has(b, p) <=> d[p] # <<>>
         /\ Has(b, p) => b.object[p] = IF p = "kinds" THEN Arr([i \in DOMAIN d.kinds |-> Whole(d.kinds[i])])
                                                      ELSE Strings(d[p])
<1>1. DOMAIN NumbersOf(d) \subseteq {"since", "until", "limit"}
  BY DEF NumbersOf
<1>2. DOMAIN ListsOf(d) = {q \in {"ids", "authors", "kinds"} : d[q] # <<>>}
  BY DEF ListsOf
<1>3. Has(b, p) <=> p \in DOMAIN ListsOf(d)
  BY <1>1, WrittenFilter DEF Has
<1>4. Has(b, p) => b.object[p] = ListsOf(d)[p]
  BY <1>3, WrittenFilter
<1> QED
  BY <1>2, <1>3, <1>4 DEF ListsOf

\* A number that an object holds, if it does.
NumberIn(b, p) == IF Has(b, p) THEN {Number(b.object[p])} ELSE {}
ListIn(b, p) == IF Has(b, p) THEN StringsIn(b.object[p]) ELSE <<>>
KindsIn(b) == IF Has(b, "kinds")
              THEN [i \in DOMAIN b.object.kinds.array |-> Truncated(Number(b.object.kinds.array[i]))]
              ELSE <<>>

LEMMA ReadFilterFields ==
  ASSUME NEW b, NEW g, g = ReadFilterObject(b)
  PROVE  /\ g.ids = ListIn(b, "ids") /\ g.authors = ListIn(b, "authors") /\ g.kinds = KindsIn(b)
         /\ g.since = NumberIn(b, "since") /\ g.until = NumberIn(b, "until")
         /\ g.limit = {Truncated(n) : n \in NumberIn(b, "limit")}
         /\ DOMAIN g.tagQueries = {q \in DOMAIN b.object : IsLabel(q) /\ IsArray(b.object[q])}
         /\ \A p \in DOMAIN g.tagQueries : g.tagQueries[p] = StringsIn(b.object[p])
<1>1. /\ g.ids = ListIn(b, "ids") /\ g.authors = ListIn(b, "authors") /\ g.kinds = KindsIn(b)
      /\ g.since = NumberIn(b, "since") /\ g.until = NumberIn(b, "until")
      /\ g.limit = {Truncated(n) : n \in NumberIn(b, "limit")}
  BY DEF ReadFilterObject, ListIn, KindsIn, NumberIn
<1>2. g.tagQueries = [p \in {q \in DOMAIN b.object : IsLabel(q) /\ IsArray(b.object[q])} |->
                        StringsIn(b.object[p])]
  BY DEF ReadFilterObject
<1> QED
  BY <1>1, <1>2

LEMMA TimesAreRead ==
  ASSUME NEW d, NEW b, b = BuildFilterObject(d), NEW p \in {"since", "until"},
         p \notin DOMAIN QueriesOf(d), IsOption(d[p])
  PROVE  NumberIn(b, p) = d[p]
<1>1. CASE d[p] = {}
  BY <1>1, WrittenNumbers DEF NumberIn
<1>2. ASSUME NEW x \in d[p] PROVE NumberIn(b, p) = d[p]
  <2>1. d[p] = {x} /\ The(d[p]) = x
    BY <1>2, TheOption
  <2>2. Has(b, p) /\ b.object[p] = Real(x)
    BY <2>1, WrittenNumbers
  <2> QED BY <2>1, <2>2, NumbersWrapped DEF NumberIn
<1> QED
  BY <1>1, <1>2

LEMMA LimitIsRead ==
  ASSUME NEW d, NEW b, b = BuildFilterObject(d),
         "limit" \notin DOMAIN QueriesOf(d), IsOption(d.limit), d.limit \subseteq -IntMax - 1..IntMax
  PROVE  {Truncated(n) : n \in NumberIn(b, "limit")} = d.limit
<1>1. CASE d.limit = {}
  <2>1. NumberIn(b, "limit") = {}
    BY <1>1, WrittenNumbers DEF NumberIn
  <2> QED BY <1>1, <2>1
<1>2. ASSUME NEW x \in d.limit PROVE {Truncated(n) : n \in NumberIn(b, "limit")} = d.limit
  <2>1. d.limit = {x} /\ The(d.limit) = x
    BY <1>2, TheOption
  <2>2. Has(b, "limit") /\ b.object["limit"] = Whole(x)
    BY <2>1, WrittenNumbers
  <2>3. NumberIn(b, "limit") = {Number(Whole(x))}
    BY <2>2 DEF NumberIn
  <2>4. Truncated(Number(Whole(x))) = x
    BY <1>2, KindStays
  <2> QED BY <2>1, <2>3, <2>4
<1> QED
  BY <1>1, <1>2


Written(s) == [i \in DOMAIN s |-> Utf8(s[i])]

LEMMA StringsAreRead == ASSUME NEW s PROVE StringsIn(Strings(s)) = Written(s) /\ IsArray(Strings(s))
<1>1. Strings(s).array = [i \in DOMAIN s |-> Str(Utf8(s[i]))] /\ IsArray(Strings(s))
  BY DEF Strings, Arr, IsArray
<1>2. \A t : Str(t).string = t
  BY DEF Str
<1> QED
  BY <1>1, <1>2 DEF StringsIn, Written

LEMMA TextsAreRead ==
  ASSUME NEW d, NEW b, b = BuildFilterObject(d), NEW p \in {"ids", "authors"},
         p \notin DOMAIN QueriesOf(d)
  PROVE  ListIn(b, p) = Written(d[p])
<1>1. CASE d[p] = <<>>
  <2>1. ~Has(b, p)
    BY <1>1, WrittenLists
  <2>2. Written(<<>>) = <<>>
    BY DEF Written
  <2> QED BY <1>1, <2>1, <2>2 DEF ListIn
<1>2. CASE d[p] # <<>>
  <2>1. Has(b, p) /\ b.object[p] = Strings(d[p])
    BY <1>2, WrittenLists
  <2> QED BY <2>1, StringsAreRead DEF ListIn
<1> QED
  BY <1>1, <1>2

LEMMA WrittenKindsAreRead ==
  ASSUME NEW d, NEW b, b = BuildFilterObject(d), "kinds" \notin DOMAIN QueriesOf(d),
         IsList(d.kinds), \A i \in DOMAIN d.kinds : d.kinds[i] \in -IntMax - 1..IntMax
  PROVE  KindsIn(b) = d.kinds
<1>1. CASE d.kinds = <<>>
  <2>1. ~Has(b, "kinds")
    BY <1>1, WrittenLists
  <2> QED BY <1>1, <2>1 DEF KindsIn
<1>2. CASE d.kinds # <<>>
  <2>1. Has(b, "kinds") /\ b.object["kinds"] = Arr([i \in DOMAIN d.kinds |-> Whole(d.kinds[i])])
    BY <1>2, WrittenLists
  <2>2. b.object.kinds.array = [i \in DOMAIN d.kinds |-> Whole(d.kinds[i])]
    BY <2>1 DEF Arr
  <2>3. \A i \in DOMAIN d.kinds : Truncated(Number(Whole(d.kinds[i]))) = d.kinds[i]
    BY KindStays
  <2>4. KindsIn(b) = [i \in DOMAIN d.kinds |-> d.kinds[i]]
    BY <2>1, <2>2, <2>3 DEF KindsIn
  <2> QED BY <2>4, ListIs
<1> QED
  BY <1>1, <1>2

\* Labels that differ as a relay reads them.
LEMMA QueriesAreRead ==
  ASSUME NEW d, NEW b, b = BuildFilterObject(d), NEW f, IsAskedFor(d, f), ProperLabels(f),
         NEW g, g = ReadFilterObject(b)
  PROVE  /\ \A p \in Properties : p \notin DOMAIN QueriesOf(d)
         /\ DOMAIN g.tagQueries = {LabelAt(f, k) : k \in DOMAIN f.tags}
         /\ \A k \in DOMAIN f.tags : g.tagQueries[LabelAt(f, k)] = Written(Cut(f.tags[k].values))
<1>1. DOMAIN d.tagQueries = {f.tags[k].label : k \in DOMAIN f.tags}
  BY DEF IsAskedFor
<1>2. DOMAIN QueriesOf(d) = {LabelAt(f, k) : k \in DOMAIN f.tags}
  BY <1>1 DEF QueriesOf, LabelAt
<1>3. \A k \in DOMAIN f.tags : IsLabel(LabelAt(f, k))
  BY DEF ProperLabels
<1>4. \A p \in Properties : ~IsLabel(p)
  BY MessagesAssumption DEF Properties
<1>5. \A p \in Properties : p \notin DOMAIN QueriesOf(d)
  BY <1>2, <1>3, <1>4
<1>6. ASSUME NEW k \in DOMAIN f.tags
      PROVE  QueriesOf(d)[LabelAt(f, k)] = Strings(Cut(f.tags[k].values))
  <2>1. PICK t : t = f.tags[k].label
    OBVIOUS
  <2>2. \A i \in DOMAIN f.tags : Utf8(f.tags[i].label) = Utf8(t) => i = k
    BY <2>1 DEF ProperLabels, LabelAt
  <2>3. d.tagQueries[t] = Cut(f.tags[k].values)
    BY <2>1, <2>2 DEF IsAskedFor
  <2>4. t \in DOMAIN d.tagQueries /\ \A q \in DOMAIN d.tagQueries : Utf8(q) = Utf8(t) => q = t
    BY <1>1, <2>1, <2>2
  <2>5. (CHOOSE q \in DOMAIN d.tagQueries : Utf8(q) = Utf8(t)) = t
    BY <2>4
  <2>6. QueriesOf(d)[Utf8(t)] = Strings(d.tagQueries[CHOOSE q \in DOMAIN d.tagQueries : Utf8(q) = Utf8(t)])
    BY <2>4 DEF QueriesOf
  <2> QED BY <2>1, <2>3, <2>5, <2>6 DEF LabelAt
<1>7. ASSUME NEW k \in DOMAIN f.tags
      PROVE  /\ LabelAt(f, k) \in DOMAIN b.object
             /\ b.object[LabelAt(f, k)] = Strings(Cut(f.tags[k].values))
             /\ IsArray(b.object[LabelAt(f, k)])
  <2>1. LabelAt(f, k) \in DOMAIN QueriesOf(d)
    BY <1>2
  <2> QED BY <1>6, <2>1, WrittenFilter, StringsAreRead
<1>8. \A p \in DOMAIN b.object : IsLabel(p) => p \in DOMAIN QueriesOf(d)
  <2>1. DOMAIN ListsOf(d) \subseteq Properties /\ DOMAIN NumbersOf(d) \subseteq Properties
    BY DEF ListsOf, NumbersOf, Properties
  <2> QED BY <1>4, <2>1, WrittenFilter
<1>9. /\ DOMAIN g.tagQueries = {q \in DOMAIN b.object : IsLabel(q) /\ IsArray(b.object[q])}
      /\ \A p \in DOMAIN g.tagQueries : g.tagQueries[p] = StringsIn(b.object[p])
  BY ReadFilterFields
<1>10. DOMAIN g.tagQueries = {LabelAt(f, k) : k \in DOMAIN f.tags}
  <2>1. ASSUME NEW p \in DOMAIN g.tagQueries PROVE p \in {LabelAt(f, k) : k \in DOMAIN f.tags}
    BY <1>2, <1>8, <1>9
  <2>2. ASSUME NEW k \in DOMAIN f.tags PROVE LabelAt(f, k) \in DOMAIN g.tagQueries
    BY <1>3, <1>7, <1>9
  <2> QED BY <2>1, <2>2
<1>11. \A k \in DOMAIN f.tags : g.tagQueries[LabelAt(f, k)] = Written(Cut(f.tags[k].values))
  BY <1>7, <1>9, <1>10, StringsAreRead
<1> QED
  BY <1>5, <1>10, <1>11

LEMMA LongsAreInts ==
  ASSUME NEW v, IsReading(v)
  PROVE  IsOption(VariantToLong(v)) /\ VariantToLong(v) \subseteq -IntMax - 1..IntMax
<1>1. \A d \in Int : RoundedToEven(d) \in Int
  BY DEF RoundedToEven
<1> QED
  BY <1>1, MessagesAssumption DEF IsReading, IsOption, VariantToLong

\* A number, or a date since 1970, is read as what it says.
LEMMA NumberIsRead ==
  ASSUME NEW v, IsReading(v), IsPlainNumber(v) PROVE VariantToDouble(v) = NumberMeant(v)
<1>1. CASE v = Empty
  BY <1>1 DEF VariantToDouble, NumberMeant, Holds, Empty
<1>2. CASE NumberMeant(v) # {}
  <2>1. "r8" # "i4" /\ "r8" # "bstr" /\ "r8" # "date" /\ "i4" # "bstr" /\ "i4" # "date" /\ "bstr" # "date"
    OBVIOUS
  <2>2. CASE DOMAIN v = {"i4"}
    BY <2>1, <2>2 DEF VariantToDouble, NumberMeant, Holds
  <2>3. CASE DOMAIN v = {"r8"}
    BY <2>1, <2>3 DEF VariantToDouble, NumberMeant, Holds
  <2>4. CASE DOMAIN v = {"date"} /\ v.date >= 0
    <3>1. {v.date} \ {d \in {v.date} : d < 0} = {v.date}
      BY <2>4 DEF IsReading, Holds
    <3> QED BY <2>1, <2>4, <3>1 DEF VariantToDouble, NumberMeant, Holds
  <2> QED BY <1>2, <2>2, <2>3, <2>4 DEF NumberMeant, Holds
<1> QED
  BY <1>1, <1>2 DEF IsPlainNumber

\* Rounding to even takes a number to the nearest int.
LEMMA NearestIsEven ==
  ASSUME NEW d \in Int
  PROVE  /\ RoundedToEven(d) \in Int /\ IsNearest(RoundedToEven(d), d)
         /\ d \div 2 <= RoundedToEven(d) /\ RoundedToEven(d) <= d \div 2 + 1
<1>1. PICK k, r : k = d \div 2 /\ r = d % 2
  OBVIOUS
<1>2. k \in Int /\ r \in 0..1 /\ d = 2 * k + r
  BY <1>1
<1>3. RoundedToEven(d) \in {k, k + 1} /\ (RoundedToEven(d) = k + 1 => r = 1)
  BY <1>1 DEF RoundedToEven
<1> QED
  BY <1>1, <1>2, <1>3 DEF IsNearest

LEMMA LimitIsNearest == ASSUME NEW v, IsReading(v) PROVE NearestAsked(VariantToLong(v), v)
<1>1. v = Empty => VariantToLong(v) = {}
  BY NothingInEmpty DEF VariantToLong
<1>2. ASSUME NEW d \in NumberMeant(v)
      PROVE  /\ \A n \in VariantToLong(v) : IsNearest(n, d)
             /\ d \div 2 \in -IntMax - 1..IntMax - 1 => VariantToLong(v) # {}
  <2>1. VariantToDouble(v) = NumberMeant(v) /\ d \in Int
    BY <1>2, NumberIsRead DEF IsReading, IsPlainNumber
  <2>2. \A x \in VariantToDouble(v) : x = d
    BY <1>2, <2>1 DEF IsReading, IsOption
  <2>3. \A n \in VariantToLong(v) : IsNearest(n, d)
    BY <2>1, <2>2, NearestIsEven DEF VariantToLong
  <2>4. ASSUME d \div 2 \in -IntMax - 1..IntMax - 1 PROVE RoundedToEven(d) \in VariantToLong(v)
    <3>1. -IntMax - 1 <= RoundedToEven(d) /\ RoundedToEven(d) <= IntMax
      BY <2>1, <2>4, NearestIsEven, MessagesAssumption
    <3> QED BY <1>2, <2>1, <3>1 DEF VariantToLong
  <2> QED BY <2>3, <2>4
<1> QED
  BY <1>1, <1>2 DEF NearestAsked

\* A relay reads in a filter what was asked for.
LEMMA FilterIsRead ==
  ASSUME NEW f, IsFilter(f), NEW d, IsAskedFor(d, f), ProperLabels(f),
         NEW g, g = ReadFilterObject(BuildFilterObject(d))
  PROVE  /\ g.ids = Converted(f.ids) /\ g.authors = Converted(f.authors) /\ g.kinds = f.kinds
         /\ DOMAIN g.tagQueries = {LabelAt(f, k) : k \in DOMAIN f.tags}
         /\ \A k \in DOMAIN f.tags : g.tagQueries[LabelAt(f, k)] = Converted(f.tags[k].values)
         /\ g.until = VariantToDouble(f.until) /\ g.limit = VariantToLong(f.limit)
<1>1. PICK b : b = BuildFilterObject(d)
  OBVIOUS
<1>2. /\ d.ids = Cut(f.ids) /\ d.authors = Cut(f.authors) /\ d.kinds = f.kinds
      /\ d.until = VariantToDouble(f.until) /\ d.limit = VariantToLong(f.limit)
  BY DEF IsAskedFor
<1>3. \A s : Written(Cut(s)) = Converted(s)
  BY DEF Written, Cut, Converted
<1>4. \A p \in Properties : p \notin DOMAIN QueriesOf(d)
  BY <1>1, QueriesAreRead
<1>5. /\ DOMAIN g.tagQueries = {LabelAt(f, k) : k \in DOMAIN f.tags}
      /\ \A k \in DOMAIN f.tags : g.tagQueries[LabelAt(f, k)] = Converted(f.tags[k].values)
  BY <1>1, <1>3, QueriesAreRead
<1>6. g.ids = Converted(f.ids) /\ g.authors = Converted(f.authors)
  <2>1. ListIn(b, "ids") = Written(d["ids"]) /\ ListIn(b, "authors") = Written(d["authors"])
    BY <1>1, <1>4, TextsAreRead DEF Properties
  <2> QED BY <1>1, <1>2, <1>3, <2>1, ReadFilterFields
<1>7. g.kinds = f.kinds
  <2>1. IsList(d.kinds) /\ \A i \in DOMAIN d.kinds : d.kinds[i] \in -IntMax - 1..IntMax
    BY <1>2 DEF IsFilter
  <2>2. KindsIn(b) = d.kinds
    BY <1>1, <1>4, <2>1, WrittenKindsAreRead DEF Properties
  <2> QED BY <1>1, <1>2, <2>2, ReadFilterFields
<1>8. g.until = VariantToDouble(f.until)
  <2>1. IsOption(d["until"])
    BY <1>2 DEF IsFilter, IsReading
  <2>2. NumberIn(b, "until") = d["until"]
    BY <1>1, <1>4, <2>1, TimesAreRead DEF Properties
  <2> QED BY <1>1, <1>2, <2>2, ReadFilterFields
<1>9. g.limit = VariantToLong(f.limit)
  <2>1. IsOption(d.limit) /\ d.limit \subseteq -IntMax - 1..IntMax
    BY <1>2, LongsAreInts DEF IsFilter
  <2>2. {Truncated(n) : n \in NumberIn(b, "limit")} = d.limit
    BY <1>1, <1>4, <2>1, LimitIsRead DEF Properties
  <2> QED BY <1>1, <1>2, <2>2, ReadFilterFields
<1> QED
  BY <1>5, <1>6, <1>7, <1>8, <1>9


-----------------------------------------------------------------------------
(* The requests.                                                           *)

LEMMA FiltersAreAsked ==
  ASSUME ConversionsAreSound, NEW fs, IsList(fs), \A i \in DOMAIN fs : IsFilter(fs[i]),
         NEW a \in FilterArrays(fs), AreFilters(a), NEW ds, ds = ReadFiltersFromSafeArray(a)
  PROVE  /\ DOMAIN ds = DOMAIN fs
         /\ \A i \in DOMAIN fs : /\ IsAskedFor(ds[i], fs[i])
                                 /\ ds[i].since = VariantToDouble(fs[i].since)
<1>1. PICK os : /\ os \in {[i \in DOMAIN fs |-> NostrFilter(fs[i])], [i \in DOMAIN fs |-> OwnFilter(fs[i])]}
                /\ a \in {Array("dispatch", os), Array("variant", [i \in DOMAIN fs |-> Dispatch(os[i])])}
  BY DEF FilterArrays
<1>2. DOMAIN ds = DOMAIN a.array /\ \A i \in DOMAIN a.array : ds[i] = FilterData(ObjectsOf(a)[i])
  BY DEF ReadFiltersFromSafeArray
<1>3. CASE a = Array("dispatch", os)
  <2>1. a.of = "dispatch" /\ DOMAIN a.array = DOMAIN fs
    BY <1>1, <1>3, Variants
  <2>2. DOMAIN a.array = {}
    BY <2>1, Variants DEF AreFilters, AreObjects, ElementAsVariant
  <2> QED BY <1>2, <2>1, <2>2
<1>4. CASE a = Array("variant", [i \in DOMAIN fs |-> Dispatch(os[i])])
  <2>1. PICK vs : vs = [i \in DOMAIN fs |-> Dispatch(os[i])]
    OBVIOUS
  <2>2. a.of = "variant" /\ a.array = vs
    BY <1>4, <2>1, Variants
  <2>3. DOMAIN a.array = DOMAIN fs /\ \A i \in DOMAIN fs : a.array[i].dispatch = os[i]
    BY <2>1, <2>2, Variants
  <2>4. \A i \in DOMAIN fs : ObjectsOf(a)[i] = os[i]
    BY <2>2, <2>3 DEF ObjectsOf, ElementAsVariant
  <2>5. ASSUME NEW i \in DOMAIN fs
        PROVE  IsAskedFor(ds[i], fs[i]) /\ ds[i].since = VariantToDouble(fs[i].since)
    <3>1. ds[i] = FilterData(os[i]) /\ IsReadable(os[i]) /\ IsFilter(fs[i])
      BY <1>2, <2>3, <2>4 DEF AreFilters
    <3>2. os[i] = NostrFilter(fs[i]) \/ os[i] = OwnFilter(fs[i])
      BY <1>1
    <3> QED BY <3>1, <3>2, NostrFilterAsAsked, OwnFilterAsAsked
  <2> QED BY <1>2, <2>3, <2>5
<1> QED
  BY <1>1, <1>3, <1>4

LEMMA RequestElements ==
  ASSUME NEW n \in Nat, NEW ds, DOMAIN ds = 1..n, NEW id, NEW m, m = SerializeRequest(id, ds)
  PROVE  /\ IsArray(m) /\ Len(m.array) = n + 2 /\ m.array[1] = Str("REQ")
         /\ \A i \in 1..n : m.array[i + 2] = BuildFilterObject(ds[i])
<1>1. PICK s : s = <<Str("REQ"), Str(Utf8(id))>>
  OBVIOUS
<1>2. PICK t : t = [i \in 1..n |-> BuildFilterObject(ds[i])]
  OBVIOUS
<1>3. PICK S : S = {Str("REQ"), Str(Utf8(id))} \union {BuildFilterObject(ds[i]) : i \in 1..n}
  OBVIOUS
<1>4. s \in Seq(S) /\ Len(s) = 2 /\ s[1] = Str("REQ")
  BY <1>1, <1>3
<1>5. t \in Seq(S) /\ Len(t) = n /\ \A i \in 1..n : t[i] = BuildFilterObject(ds[i])
  BY <1>2, <1>3
<1>6. m = Arr(s \o t)
  BY <1>1, <1>2 DEF SerializeRequest
<1>7. IsArray(m) /\ m.array = s \o t
  BY <1>6 DEF Arr, IsArray
<1>8. IsJoin(s \o t, s, t)
  BY <1>4, <1>5, JoinedElements
<1>9. \A i \in 1..n : i + 2 = 2 + i
  OBVIOUS
<1> QED
  BY <1>4, <1>5, <1>7, <1>8, <1>9 DEF IsJoin


\* What a relay finds in a filter that is what was asked for but for its since.
FilterAnswers(g, f) ==
  /\ (IsPlainNumber(f.since) /\ \A k \in DOMAIN f.tags : LabelAt(f, k) # "since") =>
       ClosesGap(g.since, NumberMeant(f.since))
  /\ ProperLabels(f) =>
       /\ g.ids = Converted(f.ids) /\ g.authors = Converted(f.authors) /\ g.kinds = f.kinds
       /\ DOMAIN g.tagQueries = {LabelAt(f, k) : k \in DOMAIN f.tags}
       /\ \A k \in DOMAIN f.tags : g.tagQueries[LabelAt(f, k)] = Converted(f.tags[k].values)
       /\ IsPlainNumber(f.until) => g.until = NumberMeant(f.until)
       /\ NearestAsked(g.limit, f.limit)

LEMMA SinceIsRead ==
  ASSUME NEW f, NEW d, IsAskedFor(d, f), IsOption(d.since),
         \A k \in DOMAIN f.tags : LabelAt(f, k) # "since"
  PROVE  ReadFilterObject(BuildFilterObject(d)).since = d.since
<1>1. DOMAIN QueriesOf(d) = {LabelAt(f, k) : k \in DOMAIN f.tags}
  <2>1. DOMAIN d.tagQueries = {f.tags[k].label : k \in DOMAIN f.tags}
    BY DEF IsAskedFor
  <2> QED BY <2>1 DEF QueriesOf, LabelAt
<1>2. PICK b : b = BuildFilterObject(d)
  OBVIOUS
<1>3. NumberIn(b, "since") = d["since"]
  BY <1>1, <1>2, TimesAreRead
<1> QED
  BY <1>2, <1>3, ReadFilterFields

LEMMA FilterIsAnswered ==
  ASSUME NEW f, IsFilter(f), NEW d, IsAskedFor(d, f), IsOption(d.since),
         ClosesGap(d.since, VariantToDouble(f.since))
  PROVE  FilterAnswers(ReadFilterObject(BuildFilterObject(d)), f)
<1>1. PICK g : g = ReadFilterObject(BuildFilterObject(d))
  OBVIOUS
<1>2. (\A k \in DOMAIN f.tags : LabelAt(f, k) # "since") => g.since = d.since
  BY <1>1, SinceIsRead
<1>3. IsPlainNumber(f.since) => ClosesGap(d.since, NumberMeant(f.since))
  BY NumberIsRead DEF IsFilter
<1>4. ProperLabels(f) =>
        /\ g.ids = Converted(f.ids) /\ g.authors = Converted(f.authors) /\ g.kinds = f.kinds
        /\ DOMAIN g.tagQueries = {LabelAt(f, k) : k \in DOMAIN f.tags}
        /\ \A k \in DOMAIN f.tags : g.tagQueries[LabelAt(f, k)] = Converted(f.tags[k].values)
        /\ g.until = VariantToDouble(f.until) /\ g.limit = VariantToLong(f.limit)
  BY <1>1, FilterIsRead
<1>5. IsPlainNumber(f.until) => VariantToDouble(f.until) = NumberMeant(f.until)
  BY NumberIsRead DEF IsFilter
<1>6. NearestAsked(VariantToLong(f.limit), f.limit)
  BY LimitIsNearest DEF IsFilter
<1> QED
  BY <1>1, <1>2, <1>3, <1>4, <1>5, <1>6 DEF FilterAnswers

\* The data of filters becomes a request for them.
AsksFor(ds, fs) ==
  /\ DOMAIN ds = DOMAIN fs
  /\ \A i \in DOMAIN fs : /\ IsAskedFor(ds[i], fs[i]) /\ IsOption(ds[i].since)
                          /\ ClosesGap(ds[i].since, VariantToDouble(fs[i].since))

LEMMA RequestIsAnswered ==
  ASSUME NEW fs, IsList(fs), \A i \in DOMAIN fs : IsFilter(fs[i]), NEW ds, AsksFor(ds, fs),
         NEW m \in Request(ds)
  PROVE  /\ IsArray(m) /\ Len(m.array) = Len(fs) + 2 /\ m.array[1] = Str("REQ")
         /\ \A i \in DOMAIN fs : FilterAnswers(ReadFilterObject(m.array[i + 2]), fs[i])
<1>1. Len(fs) \in Nat /\ DOMAIN fs = 1..Len(fs) /\ DOMAIN ds = 1..Len(fs)
  BY ListIs DEF AsksFor
<1>2. m = SerializeRequest("subscription", ds)
  BY DEF Request
<1>3. /\ IsArray(m) /\ Len(m.array) = Len(fs) + 2 /\ m.array[1] = Str("REQ")
      /\ \A i \in 1..Len(fs) : m.array[i + 2] = BuildFilterObject(ds[i])
  BY <1>1, <1>2, RequestElements
<1>4. ASSUME NEW i \in DOMAIN fs PROVE FilterAnswers(ReadFilterObject(m.array[i + 2]), fs[i])
  BY <1>1, <1>3, FilterIsAnswered DEF AsksFor
<1> QED
  BY <1>3, <1>4

LEMMA OptionsAreKept ==
  ASSUME NEW o \in SubscriptionOptions, AreSubscriptionOptions(o),
         NEW s, s = NormalizeSubscriptionOptions(CSubscriptionOptions(o))
  PROVE  /\ IsOption(s.window) /\ \A d \in s.window : d \in Int /\ d > 0
         /\ LimitAsAsked(o, s)
<1>1. IsReading(o.window) /\ IsReading(o.maxQueueLength)
  BY RequestsAssumption
<1>2. /\ CSubscriptionOptions(o).window = o.window
      /\ CSubscriptionOptions(o).maxQueueLength = o.maxQueueLength
  <2>1. IsRecord(o, {"keepAlive", "window", "maxQueueLength", "strategy"})
    BY RequestsAssumption
  <2> QED BY <2>1 DEF IsRecord, CSubscriptionOptions
<1>3. s.window = VariantToDouble(o.window) \ {0} /\ s.maxQueueLength = VariantToLong(o.maxQueueLength)
  BY <1>2 DEF NormalizeSubscriptionOptions
<1>4. VariantToDouble(Empty) = {} /\ VariantToLong(Empty) = {}
  <2>1. VariantToDouble(Empty) = {}
    BY DEF VariantToDouble, Holds, Empty
  <2> QED BY <2>1 DEF VariantToLong
<1>5. /\ IsOption(VariantToDouble(o.window)) /\ VariantToDouble(o.window) \subseteq Int
      /\ VariantToDouble(o.maxQueueLength) \subseteq Int
  BY <1>1 DEF IsReading
<1>6. IsOption(s.window) /\ \A d \in s.window : d \in Int /\ d > 0
  BY <1>3, <1>4, <1>5 DEF AreSubscriptionOptions, IsOption
<1>7. (s.maxQueueLength = {}) = (o.maxQueueLength = Empty)
  BY <1>3, <1>4 DEF AreSubscriptionOptions
<1>8. ASSUME NEW n \in s.maxQueueLength
      PROVE  n > 0 /\ \A d \in NumberMeant(o.maxQueueLength) : IsNearest(n, d)
  <2>1. NearestAsked(s.maxQueueLength, o.maxQueueLength)
    BY <1>1, <1>3, LimitIsNearest
  <2>2. \A d \in NumberMeant(o.maxQueueLength) : IsNearest(n, d)
    BY <1>8, <2>1 DEF NearestAsked
  <2>3. IsOption(VariantToLong(o.maxQueueLength))
    BY <1>1, LongsAreInts
  <2>4. PICK k \in VariantToLong(o.maxQueueLength) : k > 0
    BY <1>3, <1>4, <1>8 DEF AreSubscriptionOptions
  <2>5. n = k
    BY <1>3, <1>8, <2>3, <2>4 DEF IsOption
  <2> QED BY <2>2, <2>4, <2>5
<1> QED
  BY <1>6, <1>7, <1>8 DEF LimitAsAsked


\* What a window and the last event make of a since.
BasesOf(lasts, window) == {SinceBase(last, x) : last \in lasts, x \in window}

LEMMA BasesAre ==
  ASSUME NEW lasts, NEW window, NEW b \in BasesOf(lasts, window)
  PROVE  \E last \in lasts, x \in window : b = SinceBase(last, x)
BY DEF BasesOf

LEMMA WithWindowIs ==
  ASSUME NEW d, NEW s, The(subscription) = s, NEW bases, bases = BasesOf(lastEvent, s.window)
  PROVE  \/ WithWindow(d) = d
         \/ /\ \E base \in bases : d.since = {} \/ The(d.since) < base
            /\ WithWindow(d) = [d EXCEPT !.since = bases]
BY DEF WithWindow, BasesOf

\* The window of a subscription brings the since of a filter nearer to the last event.
LEMMA WindowClosesGap ==
  ASSUME NEW d, d = [x \in FilterFields |-> d[x]], NEW since, d.since = since,
         IsOption(since), \A x \in since : x \in Int,
         IsOption(lastEvent), \A x \in lastEvent : x \in Int,
         NEW s, subscription = {s}, IsOption(s.window), \A x \in s.window : x \in Int /\ x > 0,
         NEW e, e = WithWindow(d)
  PROVE  IsOption(e.since) /\ ClosesGap(e.since, since)
<1>1. PICK bases : bases = BasesOf(lastEvent, s.window)
  OBVIOUS
<1>2. The(subscription) = s
  BY TheOnly
<1>3. \/ e = d
      \/ /\ \E base \in bases : d.since = {} \/ The(d.since) < base
         /\ e = [d EXCEPT !.since = bases]
  BY <1>1, <1>2, WithWindowIs
<1>4. CASE e = d
  BY <1>4 DEF ClosesGap
<1>5. ASSUME NEW base \in bases, d.since = {} \/ The(d.since) < base, e = [d EXCEPT !.since = bases]
      PROVE  IsOption(e.since) /\ ClosesGap(e.since, since)
  <2>1. PICK last \in lastEvent, x \in s.window : base = SinceBase(last, x)
    BY <1>1, <1>5, BasesAre
  <2>2. lastEvent = {last} /\ s.window = {x}
    BY TheOption
  <2>3. \A b \in bases : b = base
    BY <1>1, <2>1, <2>2, BasesAre
  <2>4. e.since = {base}
    BY <1>5, <2>3 DEF FilterFields
  <2>5. last \in Int /\ x \in Int /\ x > 0
    OBVIOUS
  <2>6. base <= Max({0, last})
    <3>1. Max({0, last - x}) = IF 0 >= last - x THEN 0 ELSE last - x
      BY <2>5, MaxOfTwo
    <3>2. Max({0, last}) = IF 0 >= last THEN 0 ELSE last
      BY <2>5, MaxOfTwo
    <3>3. base = Max({0, last - x})
      BY <2>1 DEF SinceBase
    <3> QED BY <2>5, <3>1, <3>2, <3>3
  <2>7. \A a \in since : base > a
    <3>1. ASSUME NEW a \in since PROVE base > a
      <4>1. since = {a} /\ The(since) = a
        BY TheOption
      <4> QED BY <1>5, <4>1
    <3> QED BY <3>1
  <2> QED BY <2>4, <2>6, <2>7 DEF ClosesGap, IsOption
<1> QED
  BY <1>3, <1>4, <1>5

RequestInv ==
  /\ IsOption(lastEvent) /\ \A d \in lastEvent : d \in Int
  /\ IsOption(subscription)
  /\ \A s \in subscription : IsOption(s.window) /\ \A d \in s.window : d \in Int /\ d > 0
  /\ \A m \in request : IsFrame(m, "REQ", 3)
  /\ RequestAsAsked

LEMMA AnswersStay ==
  ASSUME lastEvent' = lastEvent, NEW g, NEW f, FilterAnswers(g, f) PROVE FilterAnswers(g, f)'
BY DEF FilterAnswers, ClosesGap

LEMMA RequestsStay ==
  ASSUME UNCHANGED <<lastEvent, subscription, asked, request>>, RequestAsAsked PROVE RequestAsAsked'
<1>1. ASSUME NEW m \in request', NEW b \in asked'
      PROVE  /\ Len(m.array) = Len(b.filters) + 2
             /\ \A o \in b.options, s \in subscription' : LimitAsAsked(o, s)
             /\ \A i \in DOMAIN b.filters :
                  FilterAnswers(ReadFilterObject(m.array[i + 2]), b.filters[i])
  BY DEF RequestAsAsked, FilterAnswers
<1>2. ASSUME NEW m \in request', NEW b \in asked'
      PROVE  /\ Len(m.array) = Len(b.filters) + 2
             /\ \A o \in b.options, s \in subscription' : LimitAsAsked(o, s)
             /\ \A i \in DOMAIN b.filters :
                  FilterAnswers(ReadFilterObject(m.array[i + 2]), b.filters[i])'
  BY <1>1, AnswersStay
<1> QED
  BY <1>2 DEF RequestAsAsked, FilterAnswers

LEMMA AskedStep ==
  ASSUME NEW fs \in FilterLists, fs # << >>, NEW ds, AsksFor(ds, fs), request' = Request(ds),
         NEW os, asked' = {[filters |-> fs, options |-> os]}, lastEvent' = lastEvent,
         \A o \in os, s \in subscription' : LimitAsAsked(o, s)
  PROVE  (\A m \in request : IsFrame(m, "REQ", 3))' /\ RequestAsAsked'
<1>1. IsList(fs) /\ \A i \in DOMAIN fs : IsFilter(fs[i])
  BY RequestsAssumption
<1>2. ASSUME NEW m \in request'
      PROVE  /\ IsArray(m) /\ Len(m.array) = Len(fs) + 2 /\ m.array[1] = Str("REQ")
             /\ \A i \in DOMAIN fs : FilterAnswers(ReadFilterObject(m.array[i + 2]), fs[i])
  BY <1>1, RequestIsAnswered
<1>3. Len(fs) \in Nat /\ Len(fs) # 0
  BY <1>1 DEF IsList
<1>4. \A m \in request' : IsFrame(m, "REQ", 3)
  BY <1>2, <1>3 DEF IsFrame
<1>5. ASSUME NEW g, NEW f, FilterAnswers(g, f) PROVE FilterAnswers(g, f)'
  BY <1>5, AnswersStay
<1>6. PICK a : a = [filters |-> fs, options |-> os]
  OBVIOUS
<1>7. a.filters = fs /\ a.options = os /\ asked' = {a}
  BY <1>6
<1>8. ASSUME NEW m \in request'
      PROVE  /\ Len(m.array) = Len(a.filters) + 2
             /\ \A i \in DOMAIN a.filters :
                  FilterAnswers(ReadFilterObject(m.array[i + 2]), a.filters[i])'
  BY <1>2, <1>5, <1>7
<1>9. ASSUME NEW m \in request', NEW b \in asked'
      PROVE  /\ Len(m.array) = Len(b.filters) + 2
             /\ \A o \in b.options, s \in subscription' : LimitAsAsked(o, s)
             /\ \A i \in DOMAIN b.filters :
                  FilterAnswers(ReadFilterObject(m.array[i + 2]), b.filters[i])'
  BY <1>7, <1>8
<1>10. RequestAsAsked'
  BY <1>9 DEF RequestAsAsked, FilterAnswers
<1> QED
  BY <1>4, <1>10

LEMMA SinceIsGiven ==
  ASSUME NEW f, IsFilter(f), NEW since, since = VariantToDouble(f.since)
  PROVE  IsOption(since) /\ \A x \in since : x \in Int
BY DEF IsFilter, IsReading

LEMMA OpenStep ==
  ASSUME ConversionsAreSound, RequestInv, OpenSubscription PROVE RequestInv'
<1>1. PICK fs, o, a :
        /\ fs \in FilterLists /\ o \in SubscriptionOptions /\ a \in FilterArrays(fs)
        /\ LET accepted == fs # << >> /\ AreFilters(a) /\ AreSubscriptionOptions(o)
           IN
            /\ asked' = {[filters |-> fs, options |-> {o}]}
            /\ subscription' = IF accepted
                               THEN {NormalizeSubscriptionOptions(CSubscriptionOptions(o))} ELSE {}
            /\ request' = IF accepted THEN Request(ReadFiltersFromSafeArray(a)) ELSE {}
  BY DEF OpenSubscription
<1>2. lastEvent' = lastEvent
  BY DEF OpenSubscription
<1>3. CASE ~(fs # << >> /\ AreFilters(a) /\ AreSubscriptionOptions(o))
  <2>1. subscription' = {} /\ request' = {}
    BY <1>1, <1>3
  <2> QED BY <1>2, <2>1 DEF RequestInv, RequestAsAsked, IsOption
<1>4. CASE fs # << >> /\ AreFilters(a) /\ AreSubscriptionOptions(o)
  <2>1. PICK s : s = NormalizeSubscriptionOptions(CSubscriptionOptions(o))
    OBVIOUS
  <2>2. PICK ds : ds = ReadFiltersFromSafeArray(a)
    OBVIOUS
  <2>3. subscription' = {s} /\ request' = Request(ds)
    BY <1>1, <1>4, <2>1, <2>2
  <2>4. IsOption(s.window) /\ (\A d \in s.window : d \in Int /\ d > 0) /\ LimitAsAsked(o, s)
    BY <1>1, <1>4, <2>1, OptionsAreKept
  <2>5. IsList(fs) /\ \A i \in DOMAIN fs : IsFilter(fs[i])
    BY <1>1, RequestsAssumption
  <2>6. /\ DOMAIN ds = DOMAIN fs
        /\ \A i \in DOMAIN fs : /\ IsAskedFor(ds[i], fs[i])
                                /\ ds[i].since = VariantToDouble(fs[i].since)
    BY <1>1, <1>4, <2>2, <2>5, FiltersAreAsked
  <2>7. AsksFor(ds, fs)
    BY <2>5, <2>6, SinceIsGiven DEF AsksFor, ClosesGap
  <2>8. (\A m \in request : IsFrame(m, "REQ", 3))' /\ RequestAsAsked'
    <3>1. PICK os : os = {o}
      OBVIOUS
    <3>2. \A p \in os, q \in subscription' : LimitAsAsked(p, q)
      BY <2>3, <2>4, <3>1
    <3>3. asked' = {[filters |-> fs, options |-> os]}
      BY <1>1, <3>1
    <3>4. fs \in FilterLists /\ fs # << >>
      BY <1>1, <1>4
    <3> QED BY <1>2, <2>3, <2>7, <3>2, <3>3, <3>4, AskedStep, Zenon
  <2> QED BY <1>2, <2>3, <2>4, <2>8 DEF RequestInv, IsOption
<1> QED
  BY <1>3, <1>4

LEMMA UpdateStep ==
  ASSUME ConversionsAreSound, RequestInv, UpdateFilters PROVE RequestInv'
<1>1. PICK fs, a :
        /\ fs \in FilterLists /\ a \in FilterArrays(fs)
        /\ asked' = {[filters |-> fs, options |-> {}]}
        /\ request' = IF fs # << >> /\ AreFilters(a)
                      THEN Request([i \in DOMAIN ReadFiltersFromSafeArray(a) |->
                                      WithWindow(ReadFiltersFromSafeArray(a)[i])])
                      ELSE {}
  BY DEF UpdateFilters
<1>2. UNCHANGED <<lastEvent, subscription>>
  BY DEF UpdateFilters
<1>3. CASE ~(fs # << >> /\ AreFilters(a))
  <2>1. request' = {}
    BY <1>1, <1>3
  <2> QED BY <1>2, <2>1 DEF RequestInv, RequestAsAsked
<1>4. CASE fs # << >> /\ AreFilters(a)
  <2>1. PICK ds : ds = ReadFiltersFromSafeArray(a)
    OBVIOUS
  <2>2. PICK es : es = [i \in DOMAIN ds |-> WithWindow(ds[i])]
    OBVIOUS
  <2>3. request' = Request(es)
    BY <1>1, <1>4, <2>1, <2>2
  <2>4. PICK s : subscription = {s}
    BY TheOption DEF UpdateFilters, RequestInv
  <2>5. IsOption(s.window) /\ \A d \in s.window : d \in Int /\ d > 0
    BY <2>4 DEF RequestInv
  <2>6. IsList(fs) /\ \A i \in DOMAIN fs : IsFilter(fs[i])
    BY <1>1, RequestsAssumption
  <2>7. /\ DOMAIN ds = DOMAIN fs
        /\ \A i \in DOMAIN fs : /\ IsAskedFor(ds[i], fs[i])
                                /\ ds[i].since = VariantToDouble(fs[i].since)
    BY <1>1, <1>4, <2>1, <2>6, FiltersAreAsked
  <2>8. ASSUME NEW i \in DOMAIN fs
        PROVE  /\ IsAskedFor(es[i], fs[i]) /\ IsOption(es[i].since)
               /\ ClosesGap(es[i].since, VariantToDouble(fs[i].since))
    <3>1. PICK d, e, since : d = ds[i] /\ e = WithWindow(d) /\ since = VariantToDouble(fs[i].since)
      OBVIOUS
    <3>2. d = [x \in FilterFields |-> d[x]] /\ d.since = since /\ IsAskedFor(d, fs[i])
      BY <2>7, <3>1 DEF IsAskedFor
    <3>3. IsOption(since) /\ \A x \in since : x \in Int
      BY <2>6, <3>1, SinceIsGiven
    <3>4. IsOption(lastEvent) /\ \A x \in lastEvent : x \in Int
      BY DEF RequestInv
    <3>5. IsOption(e.since) /\ ClosesGap(e.since, since)
      BY <2>4, <2>5, <3>1, <3>2, <3>3, <3>4, WindowClosesGap
    <3>6. /\ e = [x \in FilterFields |-> e[x]]
          /\ \A x \in FilterFields : x # "since" => e[x] = d[x]
      <4>1. PICK bases : bases = BasesOf(lastEvent, s.window)
        OBVIOUS
      <4>2. The(subscription) = s
        BY <2>4, TheOnly
      <4>3. e = [d EXCEPT !.since = bases] \/ e = d
        BY <3>1, <4>1, <4>2, WithWindowIs
      <4> QED BY <3>2, <4>3
    <3>7. IsAskedFor(e, fs[i])
      BY <3>2, <3>6 DEF IsAskedFor, FilterFields
    <3>8. es[i] = e
      BY <2>2, <2>7, <3>1
    <3> QED BY <3>1, <3>5, <3>7, <3>8
  <2>9. AsksFor(es, fs)
    BY <2>2, <2>7, <2>8 DEF AsksFor
  <2>10. (\A m \in request : IsFrame(m, "REQ", 3))' /\ RequestAsAsked'
    <3> DEFINE os == {}
    <3>1. asked' = {[filters |-> fs, options |-> os]}
      BY <1>1
    <3>2. \A o \in os, q \in subscription' : LimitAsAsked(o, q)
      OBVIOUS
    <3> HIDE DEF os
    <3>3. lastEvent' = lastEvent
      BY <1>2
    <3> QED BY <1>1, <1>4, <2>3, <2>9, <3>1, <3>2, <3>3, AskedStep
  <2> QED BY <1>2, <2>10 DEF RequestInv
<1> QED
  BY <1>3, <1>4

LEMMA RequestInvariant == ASSUME ConversionsAreSound PROVE Spec => []RequestInv
<1>1. Init => RequestInv
  BY DEF Init, ExchangeInit, RequestInv, RequestAsAsked, IsOption
<1>2. EventsInv' /\ RequestInv /\ [Next]_vars => RequestInv'
  <2> SUFFICES ASSUME EventsInv', RequestInv, [Next]_vars PROVE RequestInv'
    OBVIOUS
  <2>1. CASE UNCHANGED exchangeVars
    <3>1. UNCHANGED <<lastEvent, subscription, asked, request>>
      BY <2>1 DEF exchangeVars, filterVars
    <3>2. RequestAsAsked'
      BY <3>1, RequestsStay DEF RequestInv
    <3> QED BY <3>1, <3>2 DEF RequestInv
  <2>2. ASSUME request' = {}, subscription' = subscription,
               IsOption(lastEvent') /\ (lastEvent' = lastEvent \/ \A d \in lastEvent' : d \in Int)
        PROVE  RequestInv'
    BY <2>2 DEF RequestInv, RequestAsAsked
  <2>3. CASE Exchange
    <3>1. ASSUME NEW j, NEW meant, HandleIncomingMessage(j, meant) PROVE RequestInv'
      <4>1. request' = {} /\ subscription' = subscription
        BY <3>1 DEF HandleIncomingMessage, NothingAsked
      <4>2. IsOption(lastEvent')
        BY <3>1 DEF HandleIncomingMessage, DispatchEventMessage, DispatchAuthRequired, RequestInv, IsOption
      <4>3. \A d \in lastEvent' : d \in Int
        BY DEF EventsInv
      <4> QED BY <2>2, <4>1, <4>2, <4>3
    <3>2. CASE RelaySends \/ RelayGarbles
      BY <3>1, <3>2 DEF RelaySends, RelayGarbles
    <3>3. ASSUME request' = {}, UNCHANGED <<lastEvent, subscription>> PROVE RequestInv'
      BY <2>2, <3>3 DEF RequestInv
    <3>4. ASSUME NEW o, Changed(o) PROVE RequestInv'
      BY <3>3, <3>4 DEF Changed, NothingAsked
    <3>5. CASE CreateEvent \/ PutContent \/ Unsign \/ ReleaseEvent \/ CopyChallenge
      BY <3>4, <3>5 DEF CreateEvent, PutContent, Unsign, ReleaseEvent, CopyChallenge
    <3>6. ASSUME NEW n \in Nonces, PublishEvent(n) \/ RespondAuth(n) PROVE RequestInv'
      BY <3>3, <3>6 DEF PublishEvent, RespondAuth, NothingAsked
    <3> QED BY <2>3, <3>2, <3>5, <3>6, OpenStep, UpdateStep DEF Exchange
  <2> QED BY <2>1, <2>3 DEF Next, vars
<1> QED
  BY <1>1, <1>2, EventsInvariant, PTL DEF Spec

\* A relay finds in a REQ what the application asked for, in whatever arrays and
\* objects it passed it.
THEOREM RequestAsAskedHolds == ASSUME ConversionsAreSound PROVE Spec => []RequestAsAsked
<1>1. RequestInv => RequestAsAsked
  BY DEF RequestInv
<1> QED
  BY <1>1, RequestInvariant, PTL


-----------------------------------------------------------------------------
(* Types.                                                                  *)

LEMMA SentIsEvent == ASSUME NEW o, IsReadEvent(o) PROVE IsEvent(SerializeEvent(o))
<1>1. PICK b, j : b = BuildEventObject(o) /\ j = Arr(<<Str("EVENT"), b>>)
  OBVIOUS
<1>2. /\ IsArray(j) /\ Len(j.array) = 2 /\ j.array[1] = Str("EVENT") /\ j.array[2] = b
  BY <1>1, Wrapped
<1>3. EventIndex(j) = 2
  BY <1>2 DEF EventIndex
<1>4. /\ IsObject(b)
      /\ DOMAIN b.object = {"id", "pubkey", "created_at", "kind", "tags", "content", "sig"}
      /\ b.object.id = Str(Utf8(o.id)) /\ b.object.pubkey = Str(Utf8(o.publicKey))
      /\ b.object.sig = Str(Utf8(o.signature)) /\ b.object.content = Str(Utf8(o.content))
      /\ b.object.created_at = Real(o.createdAt) /\ b.object.kind = Whole(o.kind)
      /\ b.object.tags = Arr([i \in DOMAIN o.tags |-> Strings(o.tags[i])])
  BY <1>1 DEF BuildEventObject, Obj, IsObject
<1>5. \A p \in {"id", "pubkey", "sig"} : HasString(b, p)
  BY <1>4, Wrapped DEF HasString, Has
<1>6. HasNumber(b, "created_at")
  BY <1>4, NumbersWrapped DEF HasNumber, Has
<1>7. HasInt(b, "kind")
  <2>1. o.kind \in Int /\ o.kind \in -IntMax - 1..IntMax
    BY MessagesAssumption DEF IsReadEvent
  <2> QED BY <1>4, <2>1, KindStays, NumbersWrapped DEF HasInt, HasNumber, Has
<1>8. /\ IsArray(b.object.tags)
      /\ \A i \in DOMAIN b.object.tags.array : IsStringArray(b.object.tags.array[i])
  <2>1. \A s : IsStringArray(Strings(s))
    BY Wrapped DEF IsStringArray, Strings
  <2> QED BY <1>4, <2>1, Wrapped
<1>9. IsString(b.object.content)
  BY <1>4, Wrapped
<1>10. IsEventBody(b)
  BY <1>4, <1>5, <1>6, <1>7, <1>8, <1>9, Zenon DEF IsEventBody
<1>11. SerializeEvent(o) = j
  BY <1>1 DEF SerializeEvent
<1> QED
  BY <1>2, <1>3, <1>10, <1>11 DEF IsEvent, IsFrame

LEMMA ReadHasType == ASSUME NEW j, NEW r \in Deserialized(j) PROVE r.type \in MessageTypes
<1>1. /\ DeserializeEvent(j).type = "EVENT" /\ DeserializeNotice(j).type = "NOTICE"
      /\ DeserializeEndOfStoredEvents(j).type = "EOSE"
      /\ DeserializeAuthChallenge(j).type = "AUTH"
  BY DEF DeserializeEvent, DeserializeNotice, DeserializeEndOfStoredEvents, DeserializeAuthChallenge
<1>2. DeserializeOk(j).type = "OK" /\ DeserializeClosed(j).type = "CLOSED"
  BY DEF DeserializeOk, DeserializeClosed
<1>3. r \in {DeserializeEvent(j), DeserializeOk(j), DeserializeNotice(j),
             DeserializeEndOfStoredEvents(j), DeserializeClosed(j), DeserializeAuthChallenge(j)}
  BY DEF Deserialized
<1> QED
  BY <1>1, <1>2, <1>3 DEF MessageTypes

ReadTypes == \A r \in read : r.type \in MessageTypes

LEMMA ReadTypesHold == Spec => []ReadTypes
<1>1. Init => ReadTypes
  BY DEF Init, ExchangeInit, ReadTypes
<1>2. ReadTypes /\ [Next]_vars => ReadTypes'
  <2> SUFFICES ASSUME ReadTypes, [Next]_vars PROVE ReadTypes'
    OBVIOUS
  <2>1. ASSUME NEW j, NEW meant, HandleIncomingMessage(j, meant) PROVE ReadTypes'
    BY <2>1, ReadHasType DEF HandleIncomingMessage, ReadTypes
  <2>2. ASSUME read' = {} PROVE ReadTypes'
    BY <2>2 DEF ReadTypes
  <2>3. ASSUME Exchange PROVE ReadTypes'
    <3>1. CASE RelaySends \/ RelayGarbles
      BY <2>1, <3>1 DEF RelaySends, RelayGarbles
    <3>2. ASSUME NEW o, Changed(o) PROVE read' = {}
      BY <3>2 DEF Changed, NothingRead
    <3>3. CASE CreateEvent \/ PutContent \/ Unsign \/ ReleaseEvent \/ CopyChallenge
      BY <2>2, <3>2, <3>3 DEF CreateEvent, PutContent, Unsign, ReleaseEvent, CopyChallenge
    <3>4. ASSUME NEW n \in Nonces, PublishEvent(n) \/ RespondAuth(n) PROVE read' = {}
      BY <3>4 DEF PublishEvent, RespondAuth, NothingRead
    <3>5. OpenSubscription \/ UpdateFilters => read' = {}
      BY DEF OpenSubscription, UpdateFilters, NothingRead
    <3> QED BY <2>2, <2>3, <3>1, <3>3, <3>4, <3>5 DEF Exchange
  <2>4. CASE UNCHANGED exchangeVars
    BY <2>4 DEF exchangeVars, frameVars, ReadTypes
  <2> QED BY <2>3, <2>4 DEF Next, vars
<1> QED
  BY <1>1, <1>2, PTL DEF Spec

\* Messages, objects and requests are built of the parts the code gives them.
THEOREM TypeCorrect == ASSUME ConversionsAreSound PROVE Spec => []TypeOK
<1>1. ReadTypes /\ EventsInv /\ AuthInv /\ RequestInv /\ SetupTypes => TypeOK
  <2> SUFFICES ASSUME ReadTypes, EventsInv, AuthInv, RequestInv, SetupTypes PROVE TypeOK
    OBVIOUS
  <2>1. \A r \in read : r.type \in MessageTypes
    BY DEF ReadTypes
  <2>2. /\ \A d \in lastEvent : d \in Int
        /\ \A o \in object : o.kind \in -IntMax - 1..IntMax /\ o.createdAt \in Int
        /\ signed \in BOOLEAN
    BY DEF EventsInv, IsReadEvent
  <2>3. \A m \in sent : IsEvent(m)
    BY SentIsEvent DEF EventsInv
  <2>4. \A p \in pending : IsGiven(p.challenge)
    BY DEF AuthInv, PendingInv
  <2>5. /\ \A s \in subscription : \A d \in s.window : d > 0
        /\ \A m \in request : IsFrame(m, "REQ", 3)
    BY DEF RequestInv
  <2> QED BY <2>1, <2>2, <2>3, <2>4, <2>5, Zenon DEF TypeOK
<1> QED
  BY <1>1, ReadTypesHold, EventsInvariant, AuthInvariant, RequestInvariant, SetupTypesHold, PTL


-----------------------------------------------------------------------------
(* What is read of a garbled message is a message in its own right.        *)

LEMMA ByReader ==
  ASSUME NEW j, NEW m \in Deserialized(j)
  PROVE  /\ \/ IsEvent(j) /\ m = DeserializeEvent(j)
            \/ IsOk(j) /\ m = DeserializeOk(j)
            \/ IsNotice(j) /\ m = DeserializeNotice(j)
            \/ IsEose(j) /\ m = DeserializeEndOfStoredEvents(j)
            \/ IsClosed(j) /\ m = DeserializeClosed(j)
            \/ IsAuth(j) /\ m = DeserializeAuthChallenge(j)
         /\ \E type \in MessageTypes : IsFrame(j, type, 2)
<1>1. \/ IsEvent(j) /\ m = DeserializeEvent(j)
      \/ IsOk(j) /\ m = DeserializeOk(j)
      \/ IsNotice(j) /\ m = DeserializeNotice(j)
      \/ IsEose(j) /\ m = DeserializeEndOfStoredEvents(j)
      \/ IsClosed(j) /\ m = DeserializeClosed(j)
      \/ IsAuth(j) /\ m = DeserializeAuthChallenge(j)
  BY DEF Deserialized
<1>2. IsOk(j) => IsFrame(j, "OK", 2)
  <2>1. Len(j.array) >= 3 => Len(j.array) >= 2
    OBVIOUS
  <2> QED BY <2>1 DEF IsOk, IsFrame
<1>3. IsAuth(j) => IsFrame(j, "AUTH", 2)
  BY Zenon DEF IsAuth
<1> QED
  BY <1>1, <1>2, <1>3 DEF IsEvent, IsNotice, IsEose, IsClosed, MessageTypes

LEMMA Tuples ==
  ASSUME NEW T, NEW s \in Seq(T)
  PROVE  /\ Len(s) = 2 => s = <<s[1], s[2]>>
         /\ Len(s) = 3 => s = <<s[1], s[2], s[3]>>
OBVIOUS

LEMMA WithLast ==
  ASSUME NEW T, NEW s \in Seq(T), NEW w, NEW n \in Nat, Len(s) = n + 1, w = [i \in 1..n |-> s[i]]
  PROVE  s = w \o <<s[n + 1]>>
<1>1. PICK t : t = <<s[n + 1]>>
  OBVIOUS
<1>2. s[n + 1] \in T /\ \A i \in 1..n : s[i] \in T
  OBVIOUS
<1>3. t \in Seq(T) /\ Len(t) = 1 /\ t[1] = s[n + 1]
  BY <1>1, <1>2
<1>4. w \in Seq(T) /\ Len(w) = n /\ \A i \in 1..n : w[i] = s[i]
  BY <1>2
<1>5. w \o t = s
  <2>1. /\ Len(s) = Len(w) + Len(t)
        /\ \A i \in 1..Len(w) : s[i] = w[i]
        /\ \A i \in 1..Len(t) : s[Len(w) + i] = t[i]
    BY <1>3, <1>4
  <2>2. w \in Seq(T) /\ t \in Seq(T) /\ s \in Seq(T)
    BY <1>3, <1>4
  <2> QED BY <2>1, <2>2, JoinedIs
<1> QED
  BY <1>1, <1>5

\* A value of another kind.
Wrong == Bool(FALSE)

IsLeaf(v) == (\E t : v = Str(t)) \/ (\E b : v = Bool(b))

LEMMA Leaves ==
  /\ ~IsString(Wrong) /\ ~IsNumber(Wrong) /\ ~IsArray(Wrong) /\ IsLeaf(Wrong)
  /\ \A t : Wrong # Str(t) /\ IsLeaf(Str(t))
  /\ \A b : IsLeaf(Bool(b))
  /\ \A v : IsLeaf(v) => /\ ~IsObject(v) /\ (IsString(v) => v = Str(v.string))
                         /\ IsBool(v) => v = Bool(v.boolean)
                         /\ IsString(v) \/ Challenge(v) = {}
<1>1. ~IsString(Wrong) /\ ~IsNumber(Wrong) /\ ~IsArray(Wrong)
  BY DEF Wrong, Bool, IsString, IsNumber, IsArray
<1>2. IsLeaf(Wrong)
  BY Zenon DEF IsLeaf, Wrong
<1>3. \A b : ~IsObject(Bool(b)) /\ ~IsString(Bool(b))
  BY DEF IsObject, IsString, Bool
<1>4. \A b : Challenge(Bool(b)) = {}
  BY <1>3 DEF Challenge, Text
<1>5. \A t : Wrong # Str(t)
  BY <1>1, Wrapped
<1> QED
  BY <1>1, <1>2, <1>3, <1>4, <1>5, Wrapped DEF IsLeaf

\* Texts and Booleans, as many as a message of their type has.
IsPlainMessage(s) ==
  /\ \E T : s \in Seq(T)
  /\ \A i \in DOMAIN s : IsLeaf(s[i])
  /\ Len(s) <= 4
  /\ Len(s) = 4 => s[1] \in {Wrong, Str("OK")}
  /\ Len(s) = 3 => s[1] \in {Wrong, Str("OK"), Str("CLOSED"), Str("EVENT")} \/ ~IsString(s[2])

LEMMA PlainElements ==
  ASSUME NEW s, IsPlainMessage(s)
  PROVE  \A i \in DOMAIN s : /\ IsString(s[i]) => s[i] = Str(s[i].string)
                             /\ IsBool(s[i]) => s[i] = Bool(s[i].boolean)
                             /\ ~IsObject(s[i])
BY Leaves DEF IsPlainMessage

LEMMA OkIsCanonical ==
  ASSUME NEW s, IsPlainMessage(s), NEW j, j = Arr(s), IsOk(j)
  PROVE  j \in Encodings(DeserializeOk(j))
<1>0. j.array = s
  BY Wrapped
<1>1. PICK T : s \in Seq(T)
  BY DEF IsPlainMessage
<1>2. /\ Len(s) >= 3 /\ s[1] = Str("OK") /\ IsString(s[2]) /\ IsBool(s[3])
      /\ Len(s) >= 4 => IsString(s[4])
  BY <1>0 DEF IsOk, IsFrame
<1>n. Len(s) \in 3..4 /\ DOMAIN s = 1..Len(s)
  <2>1. Len(s) <= 4
    BY DEF IsPlainMessage
  <2>2. Len(s) \in Nat /\ DOMAIN s = 1..Len(s)
    BY <1>1
  <2>3. Len(s) >= 3
    BY <1>2
  <2> QED BY <2>1, <2>2, <2>3
<1>3. s[2] = Str(s[2].string) /\ s[3] = Bool(s[3].boolean) /\ (Len(s) = 4 => s[4] = Str(s[4].string))
  <2>1. 2 \in DOMAIN s /\ 3 \in DOMAIN s /\ (Len(s) = 4 => 4 \in DOMAIN s)
    BY <1>n
  <2> QED BY <1>2, <2>1, PlainElements
<1> DEFINE r == DeserializeOk(j)
<1>4. /\ r.type = "OK" /\ r.eventId = s[2].string /\ r.success = s[3].boolean
  BY <1>0 DEF DeserializeOk
<1>5. r.message = IF Len(s) >= 4 THEN s[4].string ELSE ""
  BY <1>0 DEF DeserializeOk
<1> HIDE DEF r
<1>6. PICK w : w = <<Str("OK"), Str(r.eventId), Bool(r.success)>>
  OBVIOUS
<1>7. CASE Len(s) = 3
  <2>1. s = w
    <3>1. s = <<s[1], s[2], s[3]>>
      BY <1>1, <1>7, Tuples
    <3> QED BY <1>2, <1>3, <1>4, <1>6, <3>1
  <2>2. << >> \in OptionalText(r.message)
    <3>1. ~(Len(s) >= 4)
      BY <1>7
    <3> QED BY <1>5, <3>1, Zenon DEF OptionalText
  <2>3. w \o << >> = s
    BY <1>1, <2>1
  <2> QED BY <1>4, <1>6, <2>2, <2>3 DEF Encodings, r
<1>8. CASE Len(s) = 4
  <2>1. PICK v : v = [i \in 1..3 |-> s[i]]
    OBVIOUS
  <2>2. s = v \o <<s[4]>>
    BY <1>1, <1>8, <2>1, WithLast
  <2>3. v = w
    BY <1>2, <1>3, <1>4, <1>6, <2>1
  <2>4. r.message = s[4].string
    <3>1. Len(s) >= 4
      BY <1>8
    <3> QED BY <1>5, <3>1, Zenon
  <2>5. <<s[4]>> \in OptionalText(r.message)
    BY <1>3, <1>8, <2>4, Zenon DEF OptionalText
  <2> QED BY <1>4, <1>6, <2>2, <2>3, <2>5 DEF Encodings, r
<1> QED
  BY <1>n, <1>7, <1>8

LEMMA ClosedIsCanonical ==
  ASSUME NEW s, IsPlainMessage(s), NEW j, j = Arr(s), IsClosed(j)
  PROVE  j \in Encodings(DeserializeClosed(j))
<1>0. j.array = s
  BY Wrapped
<1>1. PICK T : s \in Seq(T)
  BY DEF IsPlainMessage
<1>2. /\ Len(s) >= 2 /\ s[1] = Str("CLOSED") /\ IsString(s[2])
      /\ Len(s) >= 3 => IsString(s[3])
  BY <1>0 DEF IsClosed, IsFrame
<1>n. Len(s) \in 2..3 /\ DOMAIN s = 1..Len(s)
  <2>1. s[1] \notin {Wrong, Str("OK")}
    BY <1>2, Wrapped, Leaves
  <2>2. Len(s) # 4 /\ Len(s) <= 4
    BY <2>1 DEF IsPlainMessage
  <2>3. Len(s) \in Nat /\ DOMAIN s = 1..Len(s)
    BY <1>1
  <2>4. Len(s) >= 2
    BY <1>2
  <2> QED BY <2>2, <2>3, <2>4
<1>3. s[2] = Str(s[2].string) /\ (Len(s) = 3 => s[3] = Str(s[3].string))
  <2>1. 2 \in DOMAIN s /\ (Len(s) = 3 => 3 \in DOMAIN s)
    BY <1>n
  <2> QED BY <1>2, <2>1, PlainElements
<1> DEFINE r == DeserializeClosed(j)
<1>4. r.type = "CLOSED" /\ r.subscriptionId = s[2].string
  BY <1>0 DEF DeserializeClosed
<1>5. r.reason = IF Len(s) >= 3 THEN s[3].string ELSE ""
  BY <1>0 DEF DeserializeClosed
<1> HIDE DEF r
<1>6. PICK w : w = <<Str("CLOSED"), Str(r.subscriptionId)>>
  OBVIOUS
<1>7. CASE Len(s) = 2
  <2>1. s = w
    <3>1. s = <<s[1], s[2]>>
      BY <1>1, <1>7, Tuples
    <3> QED BY <1>2, <1>3, <1>4, <1>6, <3>1
  <2>2. << >> \in OptionalText(r.reason)
    <3>1. ~(Len(s) >= 3)
      BY <1>7
    <3> QED BY <1>5, <3>1, Zenon DEF OptionalText
  <2>3. w \o << >> = s
    BY <1>1, <2>1
  <2> QED BY <1>4, <1>6, <2>2, <2>3 DEF Encodings, r
<1>8. CASE Len(s) = 3
  <2>1. PICK v : v = [i \in 1..2 |-> s[i]]
    OBVIOUS
  <2>2. s = v \o <<s[3]>>
    BY <1>1, <1>8, <2>1, WithLast
  <2>3. v = w
    BY <1>2, <1>3, <1>4, <1>6, <2>1
  <2>4. r.reason = s[3].string
    <3>1. Len(s) >= 3
      BY <1>8
    <3> QED BY <1>5, <3>1, Zenon
  <2>5. <<s[3]>> \in OptionalText(r.reason)
    BY <1>3, <1>8, <2>4, Zenon DEF OptionalText
  <2> QED BY <1>4, <1>6, <2>2, <2>3, <2>5 DEF Encodings, r
<1> QED
  BY <1>n, <1>7, <1>8

LEMMA PairIsCanonical ==
  ASSUME NEW s, IsPlainMessage(s), NEW j, j = Arr(s)
  PROVE  /\ IsNotice(j) => j \in Encodings(DeserializeNotice(j))
         /\ IsEose(j) => j \in Encodings(DeserializeEndOfStoredEvents(j))
         /\ IsAuth(j) => j \in Encodings(DeserializeAuthChallenge(j))
<1>0. j.array = s
  BY Wrapped
<1>1. PICK T : s \in Seq(T)
  BY DEF IsPlainMessage
<1>2. ASSUME NEW type \in {"NOTICE", "EOSE", "AUTH"}, IsFrame(j, type, 2), IsString(s[2])
      PROVE  s = <<Str(type), Str(s[2].string)>>
  <2>1. Len(s) >= 2 /\ s[1] = Str(type)
    BY <1>0, <1>2 DEF IsFrame
  <2>2. s[1] \notin {Wrong, Str("OK"), Str("CLOSED"), Str("EVENT")}
    BY <1>2, <2>1, Wrapped, Leaves
  <2>3. Len(s) = 2 /\ 2 \in DOMAIN s
    <3>1. Len(s) # 4 /\ Len(s) # 3 /\ Len(s) <= 4
      BY <1>2, <2>2 DEF IsPlainMessage
    <3>2. Len(s) \in Nat /\ DOMAIN s = 1..Len(s)
      BY <1>1
    <3>3. Len(s) >= 2
      BY <2>1
    <3> QED BY <3>1, <3>2, <3>3
  <2>4. s[2] = Str(s[2].string)
    BY <1>2, <2>3, PlainElements
  <2>5. s = <<s[1], s[2]>>
    BY <1>1, <2>3, Tuples
  <2> QED BY <2>1, <2>4, <2>5
<1>3. ASSUME IsNotice(j) PROVE j \in Encodings(DeserializeNotice(j))
  <2>1. s = <<Str("NOTICE"), Str(s[2].string)>>
    BY <1>0, <1>2, <1>3 DEF IsNotice
  <2>2. DeserializeNotice(j).type = "NOTICE" /\ DeserializeNotice(j).message = s[2].string
    BY <1>0 DEF DeserializeNotice
  <2> QED BY <2>1, <2>2 DEF Encodings
<1>4. ASSUME IsEose(j) PROVE j \in Encodings(DeserializeEndOfStoredEvents(j))
  <2>1. s = <<Str("EOSE"), Str(s[2].string)>>
    BY <1>0, <1>2, <1>4 DEF IsEose
  <2>2. /\ DeserializeEndOfStoredEvents(j).type = "EOSE"
        /\ DeserializeEndOfStoredEvents(j).subscriptionId = s[2].string
    BY <1>0 DEF DeserializeEndOfStoredEvents
  <2> QED BY <2>1, <2>2 DEF Encodings
<1>5. ASSUME IsAuth(j) PROVE j \in Encodings(DeserializeAuthChallenge(j))
  <2>1. IsFrame(j, "AUTH", 2) /\ Challenge(s[2]) # {}
    BY <1>0, <1>5, Zenon DEF IsAuth
  <2>2. 2 \in DOMAIN s
    BY <1>0, <1>1, <2>1 DEF IsFrame
  <2>3. PICK c : s[2] = Str(c)
    <3>1. IsLeaf(s[2])
      BY <2>2 DEF IsPlainMessage
    <3> QED BY <2>1, <3>1, Leaves
  <2>4. s = <<Str("AUTH"), Str(c)>>
    <3>1. IsString(s[2]) /\ s[2].string = c
      BY <2>3, Wrapped
    <3> QED BY <1>2, <2>1, <3>1
  <2>5. Challenge(s[2]) = {c} /\ ReadAuthExpiration(s[2]) = {}
    BY <2>3, Wrapped DEF Challenge, Text, ReadAuthExpiration
  <2> DEFINE r == DeserializeAuthChallenge(j)
  <2>6. r.type = "AUTH" /\ r.challenge = c /\ r.expiresAt = {}
    <3>1. r.type = "AUTH" /\ r.challenge = The(Challenge(s[2])) /\ r.expiresAt = ReadAuthExpiration(s[2])
      BY <1>0 DEF DeserializeAuthChallenge
    <3> QED BY <2>5, <3>1, TheOnly
  <2> HIDE DEF r
  <2>7. Str(r.challenge) \in ChallengeForms(r)
    BY <2>6 DEF ChallengeForms
  <2>8. j = Arr(<<Str("AUTH"), Str(r.challenge)>>)
    BY <2>4, <2>6
  <2> QED BY <2>6, <2>7, <2>8 DEF Encodings, r
<1> QED
  BY <1>3, <1>4, <1>5

LEMMA PlainIsCanonical ==
  ASSUME NEW s, IsPlainMessage(s), NEW j, j = Arr(s), NEW m \in Deserialized(j)
  PROVE  j \in Encodings(m)
<1>0. j.array = s
  BY Wrapped
<1>1. ~IsEvent(j)
  <2> SUFFICES ASSUME IsEvent(j) PROVE FALSE
    OBVIOUS
  <2>1. PICK T : s \in Seq(T)
    BY DEF IsPlainMessage
  <2>2. Len(s) >= 2 /\ IsObject(s[EventIndex(j)])
    BY <1>0 DEF IsEvent, IsFrame, IsEventBody
  <2>3. EventIndex(j) \in DOMAIN s
    BY <1>0, <2>1, <2>2 DEF EventIndex
  <2> QED BY <2>2, <2>3, PlainElements
<1> QED
  BY <1>1, ByReader, OkIsCanonical, ClosedIsCanonical, PairIsCanonical

\* What may become of a message that is garbled.
Shortened(s, k) == [i \in 1..Len(s) - 1 |-> IF i < k THEN s[i] ELSE s[i + 1]]

IsGarbledBody(o, body) ==
  \E p \in DOMAIN body \ ExpiryNames :
    \/ o = [body EXCEPT ![p] = Wrong]
    \/ o = [q \in DOMAIN body \ {p} |-> body[q]]
    \/ p = "kind" /\ o = [body EXCEPT ![p] = Whole(IntMax + 1)]

LEMMA GarbledForms ==
  ASSUME NEW s, Len(s) > 0, NEW j, j = Arr(s), NEW g \in Garbled(j)
  PROVE  \/ \E k \in 1..Len(s) : g = Arr(Shortened(s, k)) \/ g = Arr([s EXCEPT ![k] = Wrong])
         \/ /\ IsObject(s[Len(s)])
            /\ \E o : IsGarbledBody(o, s[Len(s)].object) /\ g = Arr([s EXCEPT ![Len(s)] = Obj(o)])
<1> DEFINE last == Len(j.array)
           body == IF IsObject(j.array[last]) THEN j.array[last].object ELSE <<>>
           properties == DOMAIN body \ ExpiryNames
           bodies == {[body EXCEPT ![p] = Bool(FALSE)] : p \in properties}
                       \cup {[q \in DOMAIN body \ {p} |-> body[q]] : p \in properties}
                       \cup {[body EXCEPT !.kind = Whole(IntMax + 1)] : p \in properties \cap {"kind"}}
           Changed1(k) == [j.array EXCEPT ![k] = Bool(FALSE)]
           Changed2(o) == [j.array EXCEPT ![last] = Obj(o)]
<1>1. j.array = s
  BY Wrapped
<1>2. \/ \E k \in 1..last : g = Arr(Shortened(j.array, k)) \/ g = Arr(Changed1(k))
      \/ \E o \in bodies : g = Arr(Changed2(o))
  BY Zenon DEF Garbled, Shortened
<1>3. ASSUME NEW o \in bodies PROVE IsObject(j.array[last]) /\ IsGarbledBody(o, j.array[last].object)
  <2>1. IsGarbledBody(o, body)
    BY Zenon DEF IsGarbledBody, Wrong
  <2>2. CASE IsObject(j.array[last])
    BY <2>1, <2>2
  <2>3. CASE ~IsObject(j.array[last])
    <3>1. body = << >>
      BY <2>3
    <3>2. DOMAIN body = {}
      BY <3>1
    <3> HIDE DEF body
    <3> QED BY <2>1, <3>2, Zenon DEF IsGarbledBody
  <2> QED BY <2>2, <2>3
<1> HIDE DEF body, bodies
<1> QED
  BY <1>1, <1>2, <1>3, Zenon DEF Wrong

LEMMA ShortenedIs ==
  ASSUME NEW T, NEW s \in Seq(T), NEW k \in 1..Len(s)
  PROVE  /\ Shortened(s, k) \in Seq(T) /\ Len(Shortened(s, k)) = Len(s) - 1
         /\ \A i \in 1..Len(s) - 1 : Shortened(s, k)[i] = IF i < k THEN s[i] ELSE s[i + 1]
<1>1. \A i \in 1..Len(s) - 1 : (IF i < k THEN s[i] ELSE s[i + 1]) \in T
  OBVIOUS
<1>2. Len(s) - 1 \in Nat
  OBVIOUS
<1> QED
  BY <1>1, <1>2 DEF Shortened

LEMMA ReplacedIs ==
  ASSUME NEW T, NEW s \in Seq(T), NEW k \in 1..Len(s), NEW v, NEW t, t = [s EXCEPT ![k] = v]
  PROVE  /\ t \in Seq(T \union {v}) /\ Len(t) = Len(s)
         /\ \A i \in 1..Len(s) : t[i] = IF i = k THEN v ELSE s[i]
<1>1. t \in Seq(T \union {v})
  BY ChangedSeq
<1>2. DOMAIN t = 1..Len(s) /\ Len(s) \in Nat
  OBVIOUS
<1> QED
  BY <1>1, <1>2

\* A garbled message of texts and Booleans is one of texts and Booleans.
LEMMA GarbledTexts ==
  ASSUME NEW T, NEW s \in Seq(T), \A i \in DOMAIN s : IsLeaf(s[i]),
         Len(s) \in 2..4, Len(s) = 3 => s[1] \in {Str("OK"), Str("CLOSED")},
         Len(s) = 4 => s[1] = Str("OK") /\ ~IsString(s[3]),
         NEW g \in Garbled(Arr(s)), NEW m \in Deserialized(g)
  PROVE  g \in Encodings(m)
<1>2. ~IsObject(s[Len(s)])
  <2>1. Len(s) \in DOMAIN s
    OBVIOUS
  <2> QED BY <2>1, Leaves
<1>3. PICK k \in 1..Len(s) : g = Arr(Shortened(s, k)) \/ g = Arr([s EXCEPT ![k] = Wrong])
  <2>1. Len(s) > 0
    BY SMTT(30)
  <2>2. PICK j : j = Arr(s)
    OBVIOUS
  <2> QED BY <1>2, <2>1, <2>2, GarbledForms, Zenon
<1>4. CASE g = Arr(Shortened(s, k))
  <2>1. PICK t : t = Shortened(s, k)
    OBVIOUS
  <2>2. /\ t \in Seq(T) /\ Len(t) = Len(s) - 1
        /\ \A i \in 1..Len(s) - 1 : t[i] = IF i < k THEN s[i] ELSE s[i + 1]
    BY <2>1, ShortenedIs
  <2>3. \A i \in 1..Len(s) - 1 : i \in DOMAIN s /\ i + 1 \in DOMAIN s
    OBVIOUS
  <2>4. DOMAIN t = 1..Len(s) - 1
    BY <2>2
  <2>5. \A i \in DOMAIN t : IsLeaf(t[i])
    BY <2>2, <2>3, <2>4
  <2>6. ASSUME Len(t) = 3 PROVE t[1] = Str("OK") \/ ~IsString(t[2])
    <3>1. Len(s) = 4 /\ t[1] = (IF 1 < k THEN s[1] ELSE s[2]) /\ t[2] = (IF 2 < k THEN s[2] ELSE s[3])
      BY <2>2, <2>6
    <3> QED BY <3>1
  <2>7. Len(t) <= 4 /\ Len(t) # 4
    BY <2>2
  <2>8. IsPlainMessage(t)
    BY <2>2, <2>5, <2>6, <2>7 DEF IsPlainMessage
  <2> QED BY <1>4, <2>1, <2>8, PlainIsCanonical
<1>5. CASE g = Arr([s EXCEPT ![k] = Wrong])
  <2>1. PICK t : t = [s EXCEPT ![k] = Wrong]
    OBVIOUS
  <2>2. /\ t \in Seq(T \union {Wrong}) /\ Len(t) = Len(s)
        /\ \A i \in 1..Len(s) : t[i] = IF i = k THEN Wrong ELSE s[i]
    BY <2>1, ReplacedIs
  <2>3. DOMAIN t = 1..Len(s) /\ DOMAIN s = 1..Len(s)
    BY <2>2
  <2>4. \A i \in DOMAIN t : IsLeaf(t[i])
    BY <2>2, <2>3, Leaves
  <2>5. t[1] \in {Wrong, s[1]} /\ Len(t) <= 4
    BY <2>2
  <2>6. IsPlainMessage(t)
    BY <2>2, <2>4, <2>5 DEF IsPlainMessage
  <2> QED BY <1>5, <2>1, <2>6, PlainIsCanonical
<1> QED
  BY <1>3, <1>4, <1>5

LEMMA ReadIsFrame ==
  ASSUME NEW s, NEW m \in Deserialized(Arr(s))
  PROVE  Len(s) >= 2 /\ \E type \in MessageTypes : s[1] = Str(type)
<1>1. \E type \in MessageTypes : IsFrame(Arr(s), type, 2)
  BY ByReader
<1> QED
  BY <1>1, Wrapped DEF IsFrame

LEMMA PlainPair ==
  ASSUME NEW v, NEW w, IsLeaf(v), IsLeaf(w),
         NEW m \in Deserialized(Arr(<<v, w>>))
  PROVE  Arr(<<v, w>>) \in Encodings(m)
<1>1. PICK s : s = <<v, w>>
  OBVIOUS
<1>2. Len(s) = 2 /\ s[1] = v /\ s[2] = w /\ DOMAIN s = 1..2
  BY <1>1
<1>3. s \in Seq({v, w})
  BY <1>1
<1>4. (\A i \in DOMAIN s : IsLeaf(s[i])) /\ Len(s) <= 4
  BY <1>2
<1>5. IsPlainMessage(s)
  BY <1>2, <1>3, <1>4 DEF IsPlainMessage
<1> QED
  BY <1>1, <1>5, PlainIsCanonical

\* A message of a type and an object: if it can still be read, the object has
\* become a Boolean or lost a property, or one is of another kind.
LEMMA GarbledPair ==
  ASSUME NEW a, NEW b, IsObject(b), NEW g \in Garbled(Arr(<<Str(a), b>>)), NEW m \in Deserialized(g)
  PROVE  \/ g = Arr(<<Str(a), Wrong>>)
         \/ \E o : IsGarbledBody(o, b.object) /\ g = Arr(<<Str(a), Obj(o)>>)
<1>1. PICK s : s = <<Str(a), b>>
  OBVIOUS
<1>2. PICK T : T = {Str(a), b}
  OBVIOUS
<1>3. s \in Seq(T) /\ Len(s) = 2 /\ s[1] = Str(a) /\ s[2] = b
  <2>1. Str(a) \in T /\ b \in T
    BY <1>2
  <2> QED BY <1>1, <2>1
<1>4. ASSUME NEW k \in 1..2, NEW v, NEW t, t = [s EXCEPT ![k] = v]
      PROVE  t = IF k = 1 THEN <<v, b>> ELSE <<Str(a), v>>
  <2>1. /\ t \in Seq(T \union {v}) /\ Len(t) = 2
        /\ \A i \in 1..2 : t[i] = IF i = k THEN v ELSE s[i]
    BY <1>3, <1>4, ReplacedIs
  <2>2. t = <<t[1], t[2]>>
    BY <2>1, Tuples
  <2> QED BY <1>3, <2>1, <2>2
<1>5. ASSUME NEW k \in 1..2, g = Arr(Shortened(s, k)) PROVE FALSE
  <2>1. Len(Shortened(s, k)) = 1
    <3>1. k \in 1..Len(s)
      BY <1>3
    <3>2. Len(Shortened(s, k)) = Len(s) - 1
      BY <1>3, <3>1, ShortenedIs
    <3> QED BY <1>3, <3>2
  <2>2. Len(Shortened(s, k)) >= 2
    BY <1>5, ReadIsFrame
  <2> QED BY <2>1, <2>2
<1>6. ASSUME g = Arr(<<Wrong, b>>) PROVE FALSE
  <2>1. PICK t : t = <<Wrong, b>>
    OBVIOUS
  <2>2. t[1] = Wrong /\ g = Arr(t)
    BY <1>6, <2>1
  <2> QED BY <2>2, ReadIsFrame, Leaves
<1>7. ASSUME NEW k \in 1..2, g = Arr([s EXCEPT ![k] = Wrong])
      PROVE  g = Arr(<<Str(a), Wrong>>)
  <2>1. PICK t : t = [s EXCEPT ![k] = Wrong]
    OBVIOUS
  <2>2. t = IF k = 1 THEN <<Wrong, b>> ELSE <<Str(a), Wrong>>
    BY <1>4, <2>1
  <2>3. g = Arr(t)
    BY <1>7, <2>1
  <2>4. k # 1
    BY <1>6, <2>2, <2>3
  <2> QED BY <2>2, <2>3, <2>4
<1>8. ASSUME NEW o, g = Arr([s EXCEPT ![2] = Obj(o)]) PROVE g = Arr(<<Str(a), Obj(o)>>)
  <2>1. PICK t : t = [s EXCEPT ![2] = Obj(o)]
    OBVIOUS
  <2>2. t = IF 2 = 1 THEN <<Obj(o), b>> ELSE <<Str(a), Obj(o)>>
    BY <1>4, <2>1
  <2>3. t = <<Str(a), Obj(o)>>
    BY <2>2
  <2>4. g = Arr(t)
    BY <1>8, <2>1, Zenon
  <2> QED BY <2>3, <2>4, Zenon
<1>9. /\ g \in Garbled(Arr(s)) /\ Len(s) > 0
  BY <1>1, <1>3
<1>10. \/ \E k \in 1..Len(s) : g = Arr(Shortened(s, k)) \/ g = Arr([s EXCEPT ![k] = Wrong])
       \/ \E o : IsGarbledBody(o, s[Len(s)].object) /\ g = Arr([s EXCEPT ![Len(s)] = Obj(o)])
  BY <1>9, GarbledForms
<1>11. \/ \E k \in 1..2 : g = Arr(Shortened(s, k)) \/ g = Arr([s EXCEPT ![k] = Wrong])
       \/ \E o : IsGarbledBody(o, b.object) /\ g = Arr([s EXCEPT ![2] = Obj(o)])
  BY <1>3, <1>10
<1> QED
  BY <1>5, <1>7, <1>8, <1>11

\* A challenge is not read from an object without a text of one of its names.
LEMMA NoChallengeInObject ==
  ASSUME NEW o, \A q \in ChallengeNames : q \in DOMAIN o => ~IsString(o[q])
  PROVE  Challenge(Obj(o)) = {}
<1> DEFINE Reading(q) == UNION {Text(v) : v \in Property(Obj(o), q)}
           names == <<"challenge", "message", "value">>
           f == [i \in DOMAIN names |-> Reading(names[i])]
<1>1. ASSUME NEW q \in ChallengeNames PROVE Reading(q) = {}
  <2>1. \A v \in Property(Obj(o), q) : ~IsString(v)
    BY Wrapped DEF Property, Has
  <2>2. \A v \in Property(Obj(o), q) : Text(v) = {}
    BY <2>1 DEF Text
  <2> QED BY <2>2
<1>2. Challenge(Obj(o)) = FirstOf(f)
  BY Wrapped DEF Challenge
<1>3. /\ DOMAIN f = 1..3 /\ \A i \in 1..3 : f[i] = Reading(names[i])
      /\ \A i \in 1..3 : names[i] \in ChallengeNames
  <2> HIDE DEF Reading
  <2> QED BY DEF ChallengeNames
<1> HIDE DEF Reading, names, f
<1>4. \A i \in DOMAIN f : f[i] = {}
  BY <1>1, <1>3
<1> QED
  BY <1>2, <1>4, NoReading

LEMMA NotAuth == ASSUME NEW j, Challenge(j.array[2]) = {} PROVE ~IsAuth(j)
BY Zenon DEF IsAuth

\* Which reader takes a message of a type and an object.
LEMMA PairByReader ==
  ASSUME NEW a, NEW o, NEW j, j = Arr(<<Str(a), Obj(o)>>), NEW m \in Deserialized(j)
  PROVE  \/ a = "EVENT" /\ IsEvent(j) /\ m = DeserializeEvent(j)
         \/ a = "AUTH" /\ IsAuth(j) /\ m = DeserializeAuthChallenge(j)
<1>1. /\ Len(j.array) = 2 /\ j.array[1] = Str(a) /\ j.array[2] = Obj(o)
  BY Wrapped
<1>2. ~IsString(j.array[2])
  BY <1>1, Wrapped
<1>3. ~IsOk(j) /\ ~IsNotice(j) /\ ~IsEose(j) /\ ~IsClosed(j)
  BY <1>2 DEF IsOk, IsNotice, IsEose, IsClosed
<1>4. IsEvent(j) => a = "EVENT"
  BY <1>1, Wrapped DEF IsEvent, IsFrame
<1>5. IsAuth(j) => a = "AUTH"
  <2>1. IsAuth(j) => IsFrame(j, "AUTH", 2)
    BY Zenon DEF IsAuth
  <2> QED BY <1>1, <2>1, Wrapped DEF IsFrame
<1> QED
  BY <1>3, <1>4, <1>5, ByReader

LEMMA GarbledAuth ==
  ASSUME NEW r, r.type = "AUTH", NEW k \in Encodings(r), NEW g \in Garbled(k), NEW m \in Deserialized(g)
  PROVE  g \in Encodings(m)
<1>1. PICK f \in ChallengeForms(r) : k = Arr(<<Str("AUTH"), f>>)
  BY DEF Encodings
<1>2. CASE f = Str(r.challenge)
  <2>1. PICK s : s = <<Str("AUTH"), Str(r.challenge)>>
    OBVIOUS
  <2>2. PICK T : T = {Str("AUTH"), Str(r.challenge)}
    OBVIOUS
  <2>3. s \in Seq(T) /\ Len(s) = 2 /\ s[1] = Str("AUTH") /\ s[2] = Str(r.challenge)
    <3>1. Str("AUTH") \in T /\ Str(r.challenge) \in T
      BY <2>2
    <3> QED BY <2>1, <3>1
  <2>4. (\A i \in DOMAIN s : IsLeaf(s[i])) /\ Len(s) \in 2..4 /\ Len(s) # 3 /\ Len(s) # 4
    BY <2>3, Leaves
  <2>5. g \in Garbled(Arr(s))
    BY <1>1, <1>2, <2>1
  <2> QED BY <2>3, <2>4, <2>5, GarbledTexts
<1>3. ASSUME NEW body, f = Obj(body), NEW p \in ChallengeNames, p \in DOMAIN body,
             DOMAIN body \subseteq {p} \cup ExpiryNames
      PROVE  g \in Encodings(m)
  <2>1. IsObject(f) /\ f.object = body
    BY <1>3, Wrapped
  <2>2. CASE g = Arr(<<Str("AUTH"), Wrong>>)
    BY <2>2, PlainPair, Leaves
  <2>3. ASSUME NEW o, IsGarbledBody(o, body), g = Arr(<<Str("AUTH"), Obj(o)>>) PROVE FALSE
    <3>1. DOMAIN body \ ExpiryNames \subseteq {p} /\ p # "kind"
      BY <1>3 DEF ChallengeNames
    <3>2. o = [body EXCEPT ![p] = Wrong] \/ o = [q \in DOMAIN body \ {p} |-> body[q]]
      BY <2>3, <3>1, Zenon DEF IsGarbledBody
    <3>3. \A q \in ChallengeNames : q \in DOMAIN o => q = p /\ o[q] = Wrong
      BY <1>3, <3>2 DEF ChallengeNames, ExpiryNames
    <3>4. Challenge(Obj(o)) = {}
      BY <3>3, NoChallengeInObject, Leaves
    <3>5. g.array[2] = Obj(o)
      BY <2>3, Wrapped
    <3>6. ~IsAuth(g)
      BY <3>4, <3>5, NotAuth
    <3> QED BY <2>3, <3>6, PairByReader
  <2> QED BY <1>1, <2>1, <2>2, <2>3, GarbledPair
<1>4. f = Str(r.challenge) \/ \E body, p : /\ f = Obj(body) /\ p \in ChallengeNames /\ p \in DOMAIN body
                                           /\ DOMAIN body \subseteq {p} \cup ExpiryNames
  <2>1. CASE r.expiresAt = {}
    <3>1. f = Str(r.challenge) \/ \E p \in ChallengeNames : f = ChallengeAlone(p, r.challenge)
      BY <2>1 DEF ChallengeForms
    <3>2. ASSUME NEW p \in ChallengeNames, f = ChallengeAlone(p, r.challenge)
          PROVE  \E body : f = Obj(body) /\ p \in DOMAIN body /\ DOMAIN body \subseteq {p} \cup ExpiryNames
      <4>1. PICK body : body = [x \in {p} |-> Str(r.challenge)]
        OBVIOUS
      <4>2. f = Obj(body)
        BY <3>2, <4>1, Zenon DEF ChallengeAlone
      <4>3. DOMAIN body = {p}
        BY <4>1
      <4> QED BY <4>2, <4>3
    <3> QED BY <3>1, <3>2
  <2>2. CASE r.expiresAt # {}
    <3>1. PICK p \in ChallengeNames, q \in ExpiryNames, time \in ExpiryForms(r.expiresAt) :
            f = ChallengeBody(p, r.challenge, q, time)
      BY <2>2 DEF ChallengeForms
    <3>2. PICK body : body = [x \in {p, q} |-> IF x = p THEN Str(r.challenge) ELSE time]
      OBVIOUS
    <3>3. f = Obj(body)
      BY <3>1, <3>2, Zenon DEF ChallengeBody
    <3>4. DOMAIN body = {p, q}
      BY <3>2
    <3> QED BY <3>1, <3>3, <3>4
  <2> QED BY <2>1, <2>2
<1> QED
  BY <1>2, <1>3, <1>4

\* The body of an event, and what may be left out of it.
WrittenEvent(e) ==
  [id |-> Str(e.id), pubkey |-> Str(e.publicKey), sig |-> Str(e.signature),
   created_at |-> IF e.createdAt % 2 = 0 THEN Whole(e.createdAt \div 2) ELSE Real(e.createdAt),
   kind |-> Whole(e.kind), content |-> Str(e.content), tags |-> Arr(WrittenTags(e.tags))]

LeftOut(e) == {p \in {"content", "tags"} : IF p = "tags" THEN e.tags = << >> ELSE ~IsGiven(e.content)}

Without(o, left) == [p \in DOMAIN o \ left |-> o[p]]

LEMMA FormsAre ==
  ASSUME NEW e, NEW b
  PROVE  b \in EventForms(e) <=> \E left \in SUBSET LeftOut(e) : b = Obj(Without(WrittenEvent(e), left))
BY Zenon DEF EventForms, WrittenEvent, WrittenTags, LeftOut, Without, IsGiven

BodyNames == {"id", "pubkey", "sig", "created_at", "kind", "content", "tags"}

LEMMA WrittenEventFields ==
  ASSUME NEW e, NEW o, o = WrittenEvent(e)
  PROVE  /\ DOMAIN o = BodyNames
         /\ o.id = Str(e.id) /\ o.pubkey = Str(e.publicKey) /\ o.sig = Str(e.signature)
         /\ o.kind = Whole(e.kind) /\ o.content = Str(e.content) /\ o.tags = Arr(WrittenTags(e.tags))
         /\ o.created_at = IF e.createdAt % 2 = 0 THEN Whole(e.createdAt \div 2) ELSE Real(e.createdAt)
BY DEF WrittenEvent, BodyNames

\* An event without its content or its tags, written without them.
LEMMA LessIsForm ==
  ASSUME NEW e, NEW b \in EventForms(e), NEW p \in {"content", "tags"}, NEW x,
         x.id = e.id, x.publicKey = e.publicKey, x.signature = e.signature, x.kind = e.kind,
         x.createdAt = e.createdAt,
         IF p = "tags" THEN x.tags = << >> /\ x.content = e.content
                       ELSE ~IsGiven(x.content) /\ x.tags = e.tags
  PROVE  Obj(Without(b.object, {p})) \in EventForms(x)
<1>1. PICK left \in SUBSET LeftOut(e) : b = Obj(Without(WrittenEvent(e), left))
  BY FormsAre
<1>2. PICK o, w : o = WrittenEvent(e) /\ w = WrittenEvent(x)
  OBVIOUS
<1>3. left \cup {p} \in SUBSET LeftOut(x)
  BY DEF LeftOut
<1>4. b.object = Without(o, left)
  BY <1>1, <1>2, Wrapped
<1>5. DOMAIN o = BodyNames /\ DOMAIN w = BodyNames
  BY <1>2, WrittenEventFields
<1>6. \A q \in BodyNames \ {p} : o[q] = w[q]
  <2>1. /\ o.id = w.id /\ o.pubkey = w.pubkey /\ o.sig = w.sig /\ o.kind = w.kind
        /\ o.created_at = w.created_at
    BY <1>2, WrittenEventFields
  <2>2. p # "content" => o.content = w.content
    BY <1>2, WrittenEventFields
  <2>3. p # "tags" => o.tags = w.tags
    BY <1>2, WrittenEventFields
  <2> QED BY <2>1, <2>2, <2>3 DEF BodyNames
<1>7. Without(b.object, {p}) = Without(w, left \cup {p})
  <2>1. PICK d : d = BodyNames \ (left \cup {p})
    OBVIOUS
  <2>2. DOMAIN b.object = BodyNames \ left /\ \A q \in BodyNames \ left : b.object[q] = o[q]
    BY <1>4, <1>5 DEF Without
  <2>3. Without(b.object, {p}) = [q \in d |-> b.object[q]]
    <3>1. DOMAIN b.object \ {p} = d
      BY <2>1, <2>2
    <3> QED BY <3>1 DEF Without
  <2>4. Without(w, left \cup {p}) = [q \in d |-> w[q]]
    BY <1>5, <2>1 DEF Without
  <2>5. \A q \in d : b.object[q] = w[q]
    BY <1>6, <2>1, <2>2
  <2> QED BY <2>3, <2>4, <2>5
<1> QED
  BY <1>2, <1>3, <1>7, FormsAre

\* Of the ways to garble the body of an event, its reader accepts two: the content
\* is missing, or the tags are.
LEMMA GarbledEventBody ==
  ASSUME NEW e, NEW b \in EventForms(e), NEW o, IsGarbledBody(o, b.object), IsEventBody(Obj(o))
  PROVE  \E p \in {"content", "tags"} : o = Without(b.object, {p})
<1>1. PICK body : body = b.object
  OBVIOUS
<1>2. DOMAIN body \subseteq BodyNames
  <2>1. PICK left : b = Obj(Without(WrittenEvent(e), left))
    BY FormsAre
  <2>2. body = Without(WrittenEvent(e), left)
    BY <1>1, <2>1, Wrapped
  <2> QED BY <2>2, WrittenEventFields DEF Without
<1>3. Obj(o).object = o
  BY Wrapped
<1>4. /\ {"id", "pubkey", "sig", "created_at", "kind"} \subseteq DOMAIN o
      /\ IsString(o.id) /\ IsString(o.pubkey) /\ IsString(o.sig)
      /\ IsNumber(o.created_at) /\ IsNumber(o.kind) /\ IsInt(Number(o.kind))
  BY <1>3 DEF IsEventBody, HasString, HasNumber, HasInt, Has
<1>5. /\ "tags" \in DOMAIN o => IsArray(o.tags)
      /\ "content" \in DOMAIN o => IsString(o.content)
  BY <1>3 DEF IsEventBody, Has
<1>6. PICK p \in DOMAIN body \ ExpiryNames :
        \/ o = [body EXCEPT ![p] = Wrong]
        \/ o = [q \in DOMAIN body \ {p} |-> body[q]]
        \/ p = "kind" /\ o = [body EXCEPT ![p] = Whole(IntMax + 1)]
  BY <1>1 DEF IsGarbledBody
<1>7. CASE o = [body EXCEPT ![p] = Wrong]
  <2>1. p \in DOMAIN o /\ o[p] = Wrong
    BY <1>6, <1>7
  <2>2. p \in BodyNames
    BY <1>2, <1>6
  <2> QED BY <1>4, <1>5, <2>1, <2>2, Leaves DEF BodyNames
<1>8. CASE o = [q \in DOMAIN body \ {p} |-> body[q]]
  <2>1. p \notin DOMAIN o /\ p \in BodyNames
    BY <1>2, <1>6, <1>8
  <2>2. p \in {"content", "tags"}
    BY <1>4, <2>1 DEF BodyNames
  <2> QED BY <1>1, <1>8, <2>2 DEF Without
<1>9. CASE p = "kind" /\ o = [body EXCEPT ![p] = Whole(IntMax + 1)]
  <2>1. o.kind = Whole(IntMax + 1)
    BY <1>6, <1>9
  <2>2. IntMax + 1 \in Int /\ Number(Whole(IntMax + 1)) = 2 * (IntMax + 1)
    BY MessagesAssumption, NumbersWrapped
  <2>3. ~IsInt(2 * (IntMax + 1))
    BY MessagesAssumption DEF IsInt
  <2> QED BY <1>4, <2>1, <2>2, <2>3
<1> QED
  BY <1>6, <1>7, <1>8, <1>9

\* An event that can be written.
IsWritable(e) ==
  /\ IsRecord(e, EventFields) /\ e.kind \in -IntMax - 1..IntMax /\ e.createdAt \in Int
  /\ IsTextMatrix(e.tags)

LEMMA LessIsWritable ==
  ASSUME NEW e, IsWritable(e), NEW p \in {"content", "tags"}, NEW b \in EventForms(e)
  PROVE  \E x : IsWritable(x) /\ Obj(Without(b.object, {p})) \in EventForms(x)
<1>1. PICK none : ~IsGiven(none)
  <2>1. ~IsGiven("")
    BY Zenon DEF IsGiven
  <2> QED BY <2>1, Zenon
<1>2. PICK x : x = IF p = "tags" THEN [e EXCEPT !.tags = << >>] ELSE [e EXCEPT !.content = none]
  OBVIOUS
<1>3. e = [q \in EventFields |-> e[q]] /\ DOMAIN e = EventFields
  BY DEF IsWritable, IsRecord
<1>4. /\ DOMAIN x = EventFields /\ x = [q \in EventFields |-> x[q]]
      /\ x.id = e.id /\ x.publicKey = e.publicKey /\ x.signature = e.signature /\ x.kind = e.kind
      /\ x.createdAt = e.createdAt
  <2>1. "tags" \in EventFields /\ "content" \in EventFields
    BY DEF EventFields
  <2> QED BY <1>2, <1>3, <2>1 DEF EventFields
<1>5. IF p = "tags" THEN x.tags = << >> /\ x.content = e.content
                    ELSE ~IsGiven(x.content) /\ x.tags = e.tags
  BY <1>1, <1>2, <1>3 DEF EventFields
<1>6. IsTextMatrix(x.tags)
  <2>1. IsTextMatrix(<< >>)
    <3>1. TextsOf(<< >>) = {}
      BY DEF TextsOf
    <3> QED BY <3>1 DEF IsTextMatrix
  <2> QED BY <1>5, <2>1 DEF IsWritable
<1>7. IsWritable(x)
  BY <1>4, <1>6 DEF IsWritable, IsRecord
<1> QED
  BY <1>4, <1>5, <1>7, LessIsForm

\* A message with the body of such an event is that event.
LEMMA EventOfBody ==
  ASSUME NEW e, IsWritable(e), NEW b \in EventForms(e), NEW id, NEW j,
         j = Arr(<<Str("EVENT"), b>>) \/ j = Arr(<<Str("EVENT"), Str(id), b>>),
         NEW m \in Deserialized(j)
  PROVE  j \in Encodings(m)
<1>1. IsEventBody(b) /\ ReadEventObject(b) = e
  BY BodyIsRead DEF IsWritable
<1> DEFINE r == DeserializeEvent(j)
<1>2. r.type = "EVENT"
  BY DEF DeserializeEvent
<1>3. CASE j = Arr(<<Str("EVENT"), b>>)
  <2>1. IsArray(j) /\ Len(j.array) = 2 /\ j.array[1] = Str("EVENT") /\ j.array[2] = b
    BY <1>3, Wrapped
  <2>2. EventIndex(j) = 2
    BY <2>1 DEF EventIndex
  <2>3. IsEvent(j) /\ r.subscriptionId = {} /\ r.event = e
    BY <1>1, <2>1, <2>2 DEF IsEvent, IsFrame, DeserializeEvent
  <2>4. m = r
    BY <2>3, ReadByType
  <2> HIDE DEF r
  <2>5. j = Arr(<<Str("EVENT")>> \o << >> \o <<b>>)
    BY <1>3, Concatenated, Zenon
  <2>6. j \in Encodings(r)
    BY <1>2, <2>3, <2>5 DEF Encodings
  <2> QED BY <2>4, <2>6
<1>4. CASE j = Arr(<<Str("EVENT"), Str(id), b>>)
  <2>1. /\ IsArray(j) /\ Len(j.array) = 3 /\ j.array[1] = Str("EVENT")
        /\ j.array[2] = Str(id) /\ j.array[3] = b
    BY <1>4, Wrapped
  <2>2. EventIndex(j) = 3
    BY <2>1 DEF EventIndex
  <2>3. IsString(j.array[2]) /\ j.array[2].string = id
    BY <2>1, Wrapped
  <2>4. IsEvent(j) /\ r.subscriptionId = {id} /\ r.event = e
    BY <1>1, <2>1, <2>2, <2>3 DEF IsEvent, IsFrame, DeserializeEvent
  <2>5. m = r
    BY <2>4, ReadByType
  <2> HIDE DEF r
  <2>6. r.subscriptionId # {} /\ The(r.subscriptionId) = id
    BY <2>4, TheOnly
  <2>7. j = Arr(<<Str("EVENT")>> \o <<Str(The(r.subscriptionId))>> \o <<b>>)
    BY <1>4, <2>6, Concatenated, Zenon
  <2>8. j \in Encodings(r)
    BY <1>2, <2>4, <2>6, <2>7 DEF Encodings
  <2> QED BY <2>5, <2>8
<1> QED
  BY <1>3, <1>4

LEMMA EventByReader ==
  ASSUME NEW s, s[1] = Str("EVENT"), NEW m \in Deserialized(Arr(s)) PROVE IsEvent(Arr(s))
<1>1. Arr(s).array[1] = Str("EVENT")
  BY Wrapped
<1>2. IsAuth(Arr(s)) => IsFrame(Arr(s), "AUTH", 2)
  BY Zenon DEF IsAuth
<1> QED
  BY <1>1, <1>2, ByReader, Wrapped DEF IsOk, IsNotice, IsEose, IsClosed, IsFrame

LEMMA GarbledEvent ==
  ASSUME NEW e, IsWritable(e), NEW b \in EventForms(e), NEW id, NEW k,
         k = Arr(<<Str("EVENT"), b>>) \/ k = Arr(<<Str("EVENT"), Str(id), b>>),
         NEW g \in Garbled(k), NEW m \in Deserialized(g)
  PROVE  g \in Encodings(m)
<1>1. PICK body : b = Obj(body) /\ b.object = body /\ DOMAIN body \subseteq BodyNames
  <2>1. PICK left : b = Obj(Without(WrittenEvent(e), left))
    BY FormsAre
  <2>2. b.object = Without(WrittenEvent(e), left)
    BY <2>1, Wrapped
  <2> QED BY <2>1, <2>2, WrittenEventFields DEF Without
<1>2. ASSUME NEW o, IsGarbledBody(o, body), IsEventBody(Obj(o)),
             g = Arr(<<Str("EVENT"), Obj(o)>>) \/ g = Arr(<<Str("EVENT"), Str(id), Obj(o)>>)
      PROVE  g \in Encodings(m)
  <2>1. PICK p \in {"content", "tags"} : o = Without(body, {p})
    BY <1>1, <1>2, GarbledEventBody
  <2>2. PICK x : IsWritable(x) /\ Obj(o) \in EventForms(x)
    BY <1>1, <2>1, LessIsWritable
  <2> QED BY <1>2, <2>2, EventOfBody
<1>3. CASE k = Arr(<<Str("EVENT"), b>>)
  <2>1. CASE g = Arr(<<Str("EVENT"), Wrong>>)
    BY <2>1, PlainPair, Leaves
  <2>2. ASSUME NEW o, IsGarbledBody(o, body), g = Arr(<<Str("EVENT"), Obj(o)>>)
        PROVE  g \in Encodings(m)
    <3>1. IsEvent(g)
      BY <2>2, EventByReader
    <3>2. Len(g.array) = 2 /\ g.array[2] = Obj(o)
      BY <2>2, Wrapped
    <3>3. IsEventBody(Obj(o))
      BY <3>1, <3>2 DEF IsEvent, EventIndex
    <3> QED BY <1>2, <2>2, <3>3
  <2>3. IsObject(b)
    BY <1>1, Wrapped
  <2>4. \/ g = Arr(<<Str("EVENT"), Wrong>>)
        \/ \E o : IsGarbledBody(o, b.object) /\ g = Arr(<<Str("EVENT"), Obj(o)>>)
    BY <1>3, <2>3, GarbledPair
  <2> QED BY <1>1, <2>1, <2>2, <2>4, Zenon
<1>4. CASE k = Arr(<<Str("EVENT"), Str(id), b>>)
  <2>1. PICK s : s = <<Str("EVENT"), Str(id), b>>
    OBVIOUS
  <2>2. PICK T : T = {Str("EVENT"), Str(id), b}
    OBVIOUS
  <2>3. s \in Seq(T) /\ Len(s) = 3 /\ s[1] = Str("EVENT") /\ s[2] = Str(id) /\ s[3] = b
    <3>1. Str("EVENT") \in T /\ Str(id) \in T /\ b \in T
      BY <2>2
    <3> QED BY <2>1, <3>1
  <2>4. ASSUME NEW i \in 1..3, NEW v, NEW t, t = [s EXCEPT ![i] = v]
        PROVE  t = CASE i = 1 -> <<v, Str(id), b>>
                     [] i = 2 -> <<Str("EVENT"), v, b>>
                     [] i = 3 -> <<Str("EVENT"), Str(id), v>>
    <3>1. /\ t \in Seq(T \union {v}) /\ Len(t) = 3
          /\ \A n \in 1..3 : t[n] = IF n = i THEN v ELSE s[n]
      BY <2>3, <2>4, ReplacedIs
    <3>2. t = <<t[1], t[2], t[3]>>
      BY <3>1, Tuples
    <3> QED BY <2>3, <3>1, <3>2
  <2>5. ASSUME NEW i \in 1..3, g = Arr(Shortened(s, i)) PROVE g \in Encodings(m)
    <3>1. PICK t : t = Shortened(s, i)
      OBVIOUS
    <3>2. /\ t \in Seq(T) /\ Len(t) = 2
          /\ t[1] = (IF 1 < i THEN s[1] ELSE s[2]) /\ t[2] = (IF 2 < i THEN s[2] ELSE s[3])
      <4>1. i \in 1..Len(s)
        BY <2>3
      <4>2. /\ t \in Seq(T) /\ Len(t) = Len(s) - 1
            /\ \A n \in 1..Len(s) - 1 : t[n] = IF n < i THEN s[n] ELSE s[n + 1]
        BY <2>3, <3>1, <4>1, ShortenedIs
      <4> QED BY <2>3, <4>2
    <3>3. t = <<t[1], t[2]>>
      BY <3>2, Tuples
    <3>4. CASE i = 1
      <4>1. g = Arr(<<Str(id), Obj(body)>>)
        BY <1>1, <2>3, <2>5, <3>1, <3>2, <3>3, <3>4
      <4>2. Challenge(Obj(body)) = {}
        <5>1. \A q \in ChallengeNames : q \notin DOMAIN body
          BY <1>1 DEF ChallengeNames, BodyNames
        <5> QED BY <5>1, NoChallengeInObject
      <4>3. g.array[2] = Obj(body)
        BY <4>1, Wrapped
      <4>4. ~IsAuth(g)
        BY <4>2, <4>3, NotAuth
      <4>5. id = "EVENT"
        BY <4>1, <4>4, PairByReader
      <4> QED BY <1>1, <4>1, <4>5, EventOfBody
    <3>5. CASE i = 2
      <4>1. g = Arr(<<Str("EVENT"), b>>)
        BY <2>3, <2>5, <3>1, <3>2, <3>3, <3>5
      <4> QED BY <4>1, EventOfBody
    <3>6. CASE i = 3
      <4>1. g = Arr(<<Str("EVENT"), Str(id)>>)
        BY <2>3, <2>5, <3>1, <3>2, <3>3, <3>6
      <4> QED BY <4>1, PlainPair, Leaves
    <3> QED BY <3>4, <3>5, <3>6
  <2>6. ASSUME NEW i \in 1..3, g = Arr([s EXCEPT ![i] = Wrong]) PROVE g \in Encodings(m)
    <3>1. PICK t : t = [s EXCEPT ![i] = Wrong]
      OBVIOUS
    <3>2. g = Arr(t) /\ g.array = t
      BY <2>6, <3>1, Wrapped
    <3>3. i # 1
      <4> SUFFICES ASSUME i = 1 PROVE FALSE
        OBVIOUS
      <4>1. t[1] = Wrong
        BY <2>3, <3>1
      <4>2. \E type \in MessageTypes : t[1] = Str(type)
        BY <3>2, ReadIsFrame
      <4> QED BY <4>1, <4>2, Leaves
    <3>4. i # 2
      <4> SUFFICES ASSUME i = 2 PROVE FALSE
        OBVIOUS
      <4>1. t[1] = Str("EVENT") /\ t[2] = Wrong /\ Len(t) = 3
        BY <2>3, <3>1
      <4>2. IsEvent(g)
        BY <3>2, <4>1, EventByReader
      <4>3. IsString(t[2])
        <5>1. EventIndex(g) = 3
          BY <3>2, <4>1 DEF EventIndex
        <5> QED BY <3>2, <4>2, <5>1 DEF IsEvent
      <4> QED BY <4>1, <4>3, Leaves
    <3>5. CASE i = 3
      <4>1. /\ t \in Seq(T \union {Wrong}) /\ Len(t) = 3
            /\ t[1] = Str("EVENT") /\ t[2] = Str(id) /\ t[3] = Wrong
        <5>1. i \in 1..Len(s)
          BY <2>3
        <5>2. /\ t \in Seq(T \union {Wrong}) /\ Len(t) = Len(s)
              /\ \A n \in 1..Len(s) : t[n] = IF n = i THEN Wrong ELSE s[n]
          <6>1. s \in Seq(T)
            BY <2>3
          <6> QED BY <3>1, <5>1, <6>1, ReplacedIs
        <5> QED BY <2>3, <3>5, <5>2
      <4>2. (\A n \in DOMAIN t : IsLeaf(t[n])) /\ Len(t) <= 4
        BY <4>1, Leaves
      <4>3. IsPlainMessage(t)
        BY <4>1, <4>2 DEF IsPlainMessage
      <4> QED BY <3>2, <4>3, PlainIsCanonical
    <3> QED BY <3>3, <3>4, <3>5
  <2>7. ASSUME NEW o, IsGarbledBody(o, body), g = Arr([s EXCEPT ![3] = Obj(o)])
        PROVE  g \in Encodings(m)
    <3>1. PICK t : t = [s EXCEPT ![3] = Obj(o)]
      OBVIOUS
    <3>2. t = <<Str("EVENT"), Str(id), Obj(o)>>
      <4>1. t = CASE 3 = 1 -> <<Obj(o), Str(id), b>>
                  [] 3 = 2 -> <<Str("EVENT"), Obj(o), b>>
                  [] 3 = 3 -> <<Str("EVENT"), Str(id), Obj(o)>>
        BY <2>4, <3>1
      <4> QED BY <4>1
    <3>3. g = Arr(<<Str("EVENT"), Str(id), Obj(o)>>)
      BY <2>7, <3>1, <3>2
    <3>4. IsEvent(g)
      BY <3>3, EventByReader
    <3>5. Len(g.array) = 3 /\ g.array[3] = Obj(o)
      BY <3>3, Wrapped
    <3>6. IsEventBody(Obj(o))
      BY <3>4, <3>5 DEF IsEvent, EventIndex
    <3> QED BY <1>2, <2>7, <3>3, <3>6
  <2>8. \/ \E i \in 1..3 : g = Arr(Shortened(s, i)) \/ g = Arr([s EXCEPT ![i] = Wrong])
        \/ \E o : IsGarbledBody(o, body) /\ g = Arr([s EXCEPT ![3] = Obj(o)])
    <3>1. g \in Garbled(Arr(s)) /\ Len(s) > 0
      BY <1>4, <2>1, <2>3
    <3>2. \/ \E i \in 1..Len(s) : g = Arr(Shortened(s, i)) \/ g = Arr([s EXCEPT ![i] = Wrong])
          \/ \E o : IsGarbledBody(o, s[Len(s)].object) /\ g = Arr([s EXCEPT ![Len(s)] = Obj(o)])
      BY <3>1, GarbledForms
    <3> QED BY <1>1, <2>3, <3>2
  <2> QED BY <2>5, <2>6, <2>7, <2>8
<1> QED
  BY <1>3, <1>4

LEMMA GarbledJoined ==
  ASSUME NEW S, NEW s \in Seq(S), \A i \in DOMAIN s : IsLeaf(s[i]),
         \/ Len(s) = 3 /\ s[1] = Str("OK") /\ ~IsString(s[3])
         \/ Len(s) = 2 /\ s[1] = Str("CLOSED"),
         NEW text, NEW t \in OptionalText(text), NEW k, k = Arr(s \o t),
         NEW g \in Garbled(k), NEW m \in Deserialized(g)
  PROVE  g \in Encodings(m)
<1>2. PICK w : w = s \o t
  OBVIOUS
<1>3. g \in Garbled(Arr(w))
  BY <1>2
<1>4. CASE t = << >>
  <2>1. w = s
    BY <1>2, <1>4
  <2> QED BY <1>3, <2>1, GarbledTexts
<1>5. CASE t = <<Str(text)>>
  <2>1. PICK T : T = S \union {Str(text)}
    OBVIOUS
  <2>2. s \in Seq(T) /\ Str(text) \in T
    BY <2>1
  <2>3. t \in Seq(T) /\ Len(t) = 1 /\ t[1] = Str(text)
    BY <1>5, <2>2
  <2>4. w \in Seq(T)
    BY <1>2, <2>2, <2>3, JoinedSeq
  <2>5. /\ Len(w) = Len(s) + 1 /\ \A i \in 1..Len(s) : w[i] = s[i]
        /\ w[Len(s) + 1] = Str(text)
    <3>1. IsJoin(w, s, t)
      BY <1>2, <2>2, <2>3, JoinedElements, Zenon
    <3> QED BY <2>3, <3>1 DEF IsJoin
  <2>6. DOMAIN s = 1..Len(s) /\ DOMAIN w = 1..Len(s) + 1 /\ Len(s) \in Nat
    BY <2>4, <2>5
  <2>7. \A i \in DOMAIN w : IsLeaf(w[i])
    <3> SUFFICES ASSUME NEW i \in DOMAIN w PROVE IsLeaf(w[i])
      OBVIOUS
    <3>1. i \in DOMAIN s \/ i = Len(s) + 1
      BY <2>6
    <3> QED BY <2>5, <2>6, <3>1, Leaves
  <2>8. CASE Len(s) = 3 /\ s[1] = Str("OK") /\ ~IsString(s[3])
    <3>1. Len(w) = 4 /\ Len(w) \in 2..4 /\ w[1] = Str("OK") /\ ~IsString(w[3])
      BY <2>5, <2>8
    <3>2. Len(w) # 3
      BY <3>1
    <3> QED BY <1>3, <2>4, <2>7, <3>1, <3>2, GarbledTexts
  <2>9. CASE Len(s) = 2 /\ s[1] = Str("CLOSED")
    <3>1. Len(w) = 3 /\ Len(w) \in 2..4 /\ w[1] = Str("CLOSED")
      BY <2>5, <2>9
    <3>2. Len(w) # 4
      BY <3>1
    <3> QED BY <1>3, <2>4, <2>7, <3>1, <3>2, GarbledTexts
  <2> QED BY <2>8, <2>9
<1> QED
  BY <1>4, <1>5, OptionalTextForms

LEMMA GarbledOk ==
  ASSUME NEW r, r.type \in {"OK", "CLOSED"}, NEW k \in Encodings(r), NEW g \in Garbled(k),
         NEW m \in Deserialized(g)
  PROVE  g \in Encodings(m)
<1>1. CASE r.type = "OK"
  <2>1. PICK s, t : /\ s = <<Str("OK"), Str(r.eventId), Bool(r.success)>>
                    /\ t \in OptionalText(r.message) /\ k = Arr(s \o t)
    BY <1>1 DEF Encodings
  <2>2. PICK S : S = {Str("OK"), Str(r.eventId), Bool(r.success)}
    OBVIOUS
  <2>3. Str("OK") \in S /\ Str(r.eventId) \in S /\ Bool(r.success) \in S
    BY <2>2
  <2>4. /\ s \in Seq(S) /\ Len(s) = 3 /\ DOMAIN s = 1..3
        /\ s[1] = Str("OK") /\ s[2] = Str(r.eventId) /\ s[3] = Bool(r.success)
    BY <2>1, <2>3
  <2>5. (\A i \in DOMAIN s : IsLeaf(s[i])) /\ ~IsString(s[3])
    BY <2>4, Leaves, Wrapped
  <2> QED BY <2>1, <2>4, <2>5, GarbledJoined
<1>2. CASE r.type = "CLOSED"
  <2>1. PICK s, t : /\ s = <<Str("CLOSED"), Str(r.subscriptionId)>>
                    /\ t \in OptionalText(r.reason) /\ k = Arr(s \o t)
    BY <1>2 DEF Encodings
  <2>2. PICK S : S = {Str("CLOSED"), Str(r.subscriptionId)}
    OBVIOUS
  <2>3. Str("CLOSED") \in S /\ Str(r.subscriptionId) \in S
    BY <2>2
  <2>4. /\ s \in Seq(S) /\ Len(s) = 2 /\ DOMAIN s = 1..2
        /\ s[1] = Str("CLOSED") /\ s[2] = Str(r.subscriptionId)
    BY <2>1, <2>3
  <2>5. \A i \in DOMAIN s : IsLeaf(s[i])
    BY <2>4, Leaves
  <2> QED BY <2>1, <2>4, <2>5, GarbledJoined
<1> QED
  BY <1>1, <1>2

LEMMA GarbledNotice ==
  ASSUME NEW r, r.type \in {"NOTICE", "EOSE"}, NEW k \in Encodings(r), NEW g \in Garbled(k),
         NEW m \in Deserialized(g)
  PROVE  g \in Encodings(m)
<1>1. PICK v, w : k = Arr(<<Str(v), Str(w)>>)
  BY DEF Encodings
<1>2. PICK s : s = <<Str(v), Str(w)>>
  OBVIOUS
<1>3. PICK T : T = {Str(v), Str(w)}
  OBVIOUS
<1>4. s \in Seq(T) /\ Len(s) = 2 /\ s[1] = Str(v) /\ s[2] = Str(w)
  <2>1. Str(v) \in T /\ Str(w) \in T
    BY <1>3
  <2> QED BY <1>2, <2>1
<1>5. (\A i \in DOMAIN s : IsLeaf(s[i])) /\ Len(s) \in 2..4 /\ Len(s) # 3 /\ Len(s) # 4
  BY <1>4, Leaves
<1>6. g \in Garbled(Arr(s))
  BY <1>1, <1>2
<1> QED
  BY <1>4, <1>5, <1>6, GarbledTexts

\* What the readers accept of a garbled message is a message.
LEMMA GarbledIsMessage ==
  ASSUME NEW r \in Meanings, NEW k \in Encodings(r), NEW g \in Garbled(k), NEW m \in Deserialized(g)
  PROVE  g \in Encodings(m)
<1>1. r.type \in MessageTypes
  BY WorldAssumption
<1>2. CASE r.type = "EVENT"
  <2>1. IsWritable(r.event) /\ IsOption(r.subscriptionId)
    BY <1>2, WorldAssumption DEF IsWritable
  <2>2. PICK b \in EventForms(r.event) :
          k = Arr(<<Str("EVENT")>> \o (IF r.subscriptionId = {} THEN << >>
                                       ELSE <<Str(The(r.subscriptionId))>>) \o <<b>>)
    BY <1>2 DEF Encodings
  <2>3. \E id : k = Arr(<<Str("EVENT"), b>>) \/ k = Arr(<<Str("EVENT"), Str(id), b>>)
    <3>1. CASE r.subscriptionId = {}
      <4>1. k = Arr(<<Str("EVENT")>> \o << >> \o <<b>>)
        BY <2>2, <3>1, Zenon
      <4>2. k = Arr(<<Str("EVENT"), b>>)
        BY <4>1, Concatenated, Zenon
      <4> QED BY <4>2, Zenon
    <3>2. CASE r.subscriptionId # {}
      <4>1. k = Arr(<<Str("EVENT")>> \o <<Str(The(r.subscriptionId))>> \o <<b>>)
        BY <2>2, <3>2, Zenon
      <4>2. k = Arr(<<Str("EVENT"), Str(The(r.subscriptionId)), b>>)
        BY <4>1, Concatenated, Zenon
      <4> QED BY <4>2, Zenon
    <3> QED BY <3>1, <3>2
  <2> QED BY <2>1, <2>3, GarbledEvent
<1> QED
  BY <1>1, <1>2, GarbledOk, GarbledNotice, GarbledAuth DEF MessageTypes

(***************************************************************************)
(* The readers understand every message as the relay meant it, in each of  *)
(* the forms a relay may give it; and what they accept of a garbled        *)
(* message is a message in its own right.                                  *)
(***************************************************************************)
THEOREM ReadAsMeantHolds == Spec => []ReadAsMeant
<1>1. Init => ReadAsMeant
  BY DEF Init, ExchangeInit, NoFrame, ReadAsMeant
<1>2. ASSUME NEW j, NEW meant, HandleIncomingMessage(j, meant),
             \A r \in meant : Deserialized(j) = {r}, \A m \in Deserialized(j) : j \in Encodings(m)
      PROVE  ReadAsMeant'
  <2>1. /\ read' = Deserialized(j)
        /\ frame' = IF read' = {} /\ meant = {} THEN NoFrame ELSE [json |-> j, meant |-> meant]
    BY <1>2 DEF HandleIncomingMessage
  <2>2. CASE read' = {} /\ meant = {}
    BY <2>1, <2>2 DEF NoFrame, ReadAsMeant
  <2>3. CASE ~(read' = {} /\ meant = {})
    BY <1>2, <2>1, <2>3 DEF ReadAsMeant
  <2> QED BY <2>2, <2>3
<1>3. RelaySends => ReadAsMeant'
  <2> SUFFICES ASSUME RelaySends PROVE ReadAsMeant'
    OBVIOUS
  <2>1. PICK r \in Meanings : \E j \in Encodings(r) : HandleIncomingMessage(j, {r})
    BY DEF RelaySends, MeaningsNow
  <2> QED BY <1>2, <2>1, EncodedIsRead
<1>4. RelayGarbles => ReadAsMeant'
  <2> SUFFICES ASSUME RelayGarbles PROVE ReadAsMeant'
    OBVIOUS
  <2>1. PICK r \in Meanings : \E j \in UNION {Garbled(k) : k \in Encodings(r)} :
          HandleIncomingMessage(j, {})
    BY DEF RelayGarbles, MeaningsNow
  <2>2. PICK k \in Encodings(r) : \E j \in Garbled(k) : HandleIncomingMessage(j, {})
    BY <2>1
  <2> QED BY <1>2, <2>2, GarbledIsMessage
<1>5. NothingRead => ReadAsMeant'
  BY DEF NothingRead, NoFrame, ReadAsMeant
<1>6. Exchange => ReadAsMeant'
  <2>1. ASSUME NEW o, Changed(o) PROVE NothingRead
    BY <2>1 DEF Changed
  <2>2. CreateEvent \/ PutContent \/ Unsign \/ ReleaseEvent \/ CopyChallenge => NothingRead
    BY <2>1 DEF CreateEvent, PutContent, Unsign, ReleaseEvent, CopyChallenge
  <2>3. ASSUME NEW n \in Nonces, PublishEvent(n) \/ RespondAuth(n) PROVE NothingRead
    BY <2>3 DEF PublishEvent, RespondAuth
  <2>4. OpenSubscription \/ UpdateFilters => NothingRead
    BY DEF OpenSubscription, UpdateFilters
  <2> QED BY <1>3, <1>4, <1>5, <2>2, <2>3, <2>4 DEF Exchange
<1>7. ReadAsMeant /\ UNCHANGED exchangeVars => ReadAsMeant'
  BY DEF exchangeVars, frameVars, ReadAsMeant
<1>8. ReadAsMeant /\ [Next]_vars => ReadAsMeant'
  BY <1>6, <1>7 DEF Next, vars
<1> QED
  BY <1>1, <1>8, PTL DEF Spec

=============================================================================
