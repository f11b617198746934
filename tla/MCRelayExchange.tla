--------------------------- MODULE MCRelayExchange ---------------------------
(***************************************************************************)
(* A small world for RelayExchange and RelaySetup.  Texts are strings:     *)
(* "a<0>b" has a NUL, "s<D>" a lone surrogate, "7" is a number, "7 h"      *)
(* begins with one, "May" is a date.                                       *)
(***************************************************************************)
EXTENDS RelayExchange

MCUtf8(t) == IF t = "s<D>" THEN "s?" ELSE t
MCCStr(t) == IF t = "a<0>b" THEN "a" ELSE t
MCTextNumber(t) == IF t \in {"7", "7 h"} THEN {14} ELSE {}
MCTextDate(t) == IF t = "May" THEN {6} ELSE {}
MCIsLabel(t) == t \in {"#e", "#p"}
MCHash(h) == "id " \o ToString(h)
MCSign(h, n) == "sig " \o ToString(<<h, n>>)

Event(id, at, kind, tags, content) ==
  [id |-> id, publicKey |-> "k", createdAt |-> at, kind |-> kind, tags |-> tags,
   content |-> content, signature |-> "sg"]

TwoTags == <<<<"e", "x">>, << >>>>

MCMeanings ==
  {[type |-> "EVENT", subscriptionId |-> s, event |-> e] :
     s \in {{}, {"subscription"}},
     e \in {Event("i", 4, 1, TwoTags, "a"), Event("i", 5, 0, << >>, ""),
            Event("i", 4, -4, <<<<"e", "a<0>b">>>>, "a<0>b")}}
  \cup {[type |-> "OK", eventId |-> "i", success |-> b, message |-> t] :
          b \in BOOLEAN, t \in {"", "a"}}
  \cup {[type |-> "CLOSED", subscriptionId |-> "sub", reason |-> t] : t \in {"", "a"}}
  \cup {[type |-> "AUTH", challenge |-> c, expiresAt |-> x] :
          c \in {"c", "a<0>b"}, x \in {{}, {6}, {14}}}
  \cup {[type |-> "NOTICE", message |-> "a"], [type |-> "EOSE", subscriptionId |-> "sub"]}

MCTimes == {"7", "May"}

MCDrafts ==
  {[Event(id, at, 1, Append(TwoTags, <<"a<0>b">>), "s<D>") EXCEPT !.publicKey = k, !.signature = id] :
     id \in {"", "i"}, k \in {"", "k"}, at \in {3, 4}}

MCContents == {"a<0>b"}

\* Events prepared for a challenge: without tags, with several of a kind, for
\* another relay, for an earlier challenge, and of another kind.
MCAuthDrafts ==
  {[Event("", 3, 0, ts, "") EXCEPT !.kind = k, !.createdAt = d] :
     <<k, d, ts>> \in
       {<<2, 4, ts>> : ts \in {<< >>, <<<<"relay">>, <<"relay", "ws://x/">>, <<"challenge">>>>,
                              <<<<"challenge", "c">>>>,
                              <<<<"challenge", "old">>, <<"challenge", "c">>, <<"challenge">>>>,
                              <<<<"challenge", "c">>, << >>, <<"challenge", "old">>>>}}
       \cup {<<0, 0, << >>>>, <<0, 3, << >>>>, <<1, 4, << >>>>}}

NoFilter == [ids |-> << >>, authors |-> << >>, kinds |-> << >>, tags |-> << >>,
             since |-> Empty, until |-> Empty, limit |-> Empty]
Tag(label, values) == [label |-> label, values |-> values]

MCFilterLists ==
  {<< >>}
  \cup {<<[NoFilter EXCEPT !.since = v, !.limit = v, !.kinds = <<1, 0>>]>> :
          v \in {Empty, I4(2), R8(5), Bstr("7 h"), Bstr("a"), R8(-3)}}
  \cup {<<[NoFilter EXCEPT !.since = Date(4), !.until = Date(-2)],
          [NoFilter EXCEPT !.ids = <<"i", "s<D>">>, !.authors = <<"k", "">>, !.until = R8(7)]>>}
  \cup {<<[NoFilter EXCEPT !.tags = ts, !.ids = <<"i">>]>> :
          ts \in {<<Tag("#e", <<"x", "s<D>", "a<0>b">>), Tag("#p", << >>)>>,
                  <<Tag("#e", <<"x">>), Tag("#e", <<"y">>)>>, <<Tag("ids", <<"x">>)>>}}

NoSubscriptionOptions ==
  [keepAlive |-> -1, window |-> Empty, maxQueueLength |-> Empty, strategy |-> Empty]

MCSubscriptionOptions ==
  {[NoSubscriptionOptions EXCEPT !.window = w] : w \in {Empty, R8(2), R8(-1), R8(0), Bstr("a")}}
  \cup {[NoSubscriptionOptions EXCEPT !.maxQueueLength = n] :
           n \in {I4(0), R8(1), R8(3), I4(2), Bstr("a"), R8(20)}}
  \cup {[NoSubscriptionOptions EXCEPT !.strategy = n, !.keepAlive = b] :
           n \in {I4(1), I4(2), R8(1)}, b \in {0, 1}}
-----------------------------------------------------------------------------
MCLower(t) ==
  CASE t \in {"WSS", "Wss"} -> "wss"
    [] t = "Relay.X" -> "relay.x"
    [] t = "Application/Nostr+JSON" -> "application/nostr+json"
    [] OTHER -> t

\* Of a number of halves of a second, in units in which few fit an int.
MCMilliseconds(d) == (3 * d + 5) \div 10

NoClientOptions ==
  [webSocketFactoryProgId |-> Empty, userAgent |-> Empty, connectTimeoutSeconds |-> Empty,
   sendTimeoutSeconds |-> Empty, receiveTimeoutSeconds |-> Empty]

MCClientOptions ==
  {NoClientOptions, [NoClientOptions EXCEPT !.userAgent = Bstr("a<0>b")],
   [NoClientOptions EXCEPT !.userAgent = Dispatch(1)]}
  \cup {[NoClientOptions EXCEPT ![p] = v] :
           p \in {"connectTimeoutSeconds", "sendTimeoutSeconds", "receiveTimeoutSeconds"},
           v \in {R8(-1), R8(0), R8(1), R8(4), I4(8), R8(30), R8(41), Bstr("7 h"), Bstr("a"),
                  Dispatch(1)}}

Url(scheme, host, port, path, extra) ==
  [blanks |-> FALSE, scheme |-> scheme, host |-> host, port |-> port, path |-> path, extra |-> extra]

MCRelayUrls ==
  {Url("wss", "relay.x", p, "", "") : p \in {{}, {0}, {443}, {80}, {70000}}}
  \cup {Url("ws", "relay.x", p, "/", "") : p \in {{}, {443}, {80}}}
  \cup {[Url("WSS", "Relay.X", {}, "/", "") EXCEPT !.blanks = TRUE],
        Url("wss", "relay.x", {}, "/a", ""), Url("wss", "relay.x", {}, "", "?q"),
        Url("http", "relay.x", {}, "", ""), Url("wss", "", {}, "", "")}

Descriptor(url, r, w, p, metadata) ==
  [url |-> url, readEnabled |-> r, writeEnabled |-> w, preferred |-> p, metadata |-> metadata]

Plainly == Url("wss", "relay.x", {}, "", "")

MCDescriptors ==
  {Descriptor(url, -1, -1, 0, Empty) : url \in MCRelayUrls}
  \cup {Descriptor(Plainly, r, w, p, Bstr("m")) : r \in {-1, 0}, w \in {0, 1}, p \in {0, 1}}
  \cup {Descriptor(Plainly, -1, -1, 0, Dispatch(1))}

\* Documents: "{1,2}" lists whole NIPs, "{1,h}" one that is not, "{}" none.
MCParsed(t) ==
  CASE t = "{1,2}" -> {Obj([supported_nips |-> Arr(<<Whole(1), Whole(2)>>)])}
    [] t = "{1,h}" -> {Obj([supported_nips |-> Arr(<<Whole(1), Real(3)>>)])}
    [] t = "{}"    -> {Obj([name |-> Str("a")])}
    [] t = "[]"    -> {Arr(<< >>)}
    [] OTHER       -> {}

Good == [fails |-> FALSE, status |-> 200, type |-> "application/json",
         chunks |-> <<"{1", ",2}">>, document |-> "{1,2}", nips |-> <<1, 2>>]

MCResponses ==
  {Good, [Good EXCEPT !.fails = TRUE], [Good EXCEPT !.status = 404],
   [Good EXCEPT !.type = "text/html"], [Good EXCEPT !.type = "application/json; charset=utf-8"],
   [Good EXCEPT !.type = ""],
   [Good EXCEPT !.chunks = <<"{1">>],
   [Good EXCEPT !.type = "Application/Nostr+JSON", !.chunks = <<"{}">>,
                !.document = "{}", !.nips = << >>],
   [Good EXCEPT !.chunks = <<"[]">>, !.document = "[]", !.nips = << >>],
   [Good EXCEPT !.chunks = <<"{1,h}">>, !.document = "{1,h}", !.nips = <<1>>]}

MCConnections == {<<d, Good>> : d \in MCDescriptors} \cup {<<Descriptor(Plainly, -1, -1, 0, Empty), r>> : r \in MCResponses}

MCTalks ==
  {<<NoClientOptions, Descriptor(Plainly, -1, -1, 0, Empty), Good>>,
   <<NoClientOptions, Descriptor(Plainly, 0, 0, 0, Bstr("m")), Good>>}
=============================================================================
