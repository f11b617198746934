---------------------------- MODULE RelayMessages ----------------------------
(***************************************************************************)
(* NostrJsonSerializer, the JSON side: what EVENT and REQ messages are     *)
(* built from native data, and what is read from the messages of a relay.  *)
(*                                                                         *)
(* A JSON value is a record whose one field names its kind.  A double is   *)
(* counted in halves, so that fractions exist; created_at is 2 for 1.0.    *)
(* An optional value is a set of at most one element.                      *)
(***************************************************************************)
EXTENDS Integers, Sequences, FiniteSetsExt, TLC

CONSTANTS
  Utf8(_),       \* WideToUtf8: a lone surrogate becomes a replacement character
  TextNumber(_), \* wcstod: the number a text begins with, if it does
  TextDate(_),   \* VarDateFromStr: the time a text names, if it does
  IsLabel(_),    \* a text begins with '#'
  IntMax         \* largest int (the bound stands for 2^31 - 1)

ASSUME MessagesAssumption ==
  /\ IntMax \in Nat \ {0}
  /\ \A p \in {"ids", "authors", "kinds", "since", "until", "limit"} : ~IsLabel(p)
-----------------------------------------------------------------------------
Str(t)   == [string |-> t]
Bool(b)  == [boolean |-> b]
Whole(n) == [integer |-> n]
Real(d)  == [float |-> d]
Arr(s)   == [array |-> s]
Obj(f)   == [object |-> f]

IsString(j) == DOMAIN j = {"string"}
IsBool(j)   == DOMAIN j = {"boolean"}
IsArray(j)  == DOMAIN j = {"array"}
IsObject(j) == DOMAIN j = {"object"}
IsNumber(j) == DOMAIN j \in {{"integer"}, {"float"}}
IsStringArray(j) == IsArray(j) /\ \A i \in DOMAIN j.array : IsString(j.array[i])

Number(j) == IF DOMAIN j = {"integer"} THEN 2 * j.integer ELSE j.float
StringsIn(j) == [i \in DOMAIN j.array |-> j.array[i].string]

\* A text that UTF-8 can write.
IsUtf8(t) == Utf8(t) = t

The(option) == CHOOSE x \in option : TRUE
IsOption(s) == \A x, y \in s : x = y

\* A double as an int: the range check, and static_cast, which truncates.
IsInt(d) == -2 * (IntMax + 1) <= d /\ d <= 2 * IntMax
Truncated(d) == IF d >= 0 THEN d \div 2 ELSE -((-d) \div 2)
\* std::llround: halves away from zero.
Rounded(d) == IF d >= 0 THEN (d + 1) \div 2 ELSE -((1 - d) \div 2)
-----------------------------------------------------------------------------
Strings(s) == Arr([i \in DOMAIN s |-> Str(Utf8(s[i]))])

BuildEventObject(e) ==
  Obj([id         |-> Str(Utf8(e.id)),
       pubkey     |-> Str(Utf8(e.publicKey)),
       created_at |-> Real(e.createdAt),
       kind       |-> Whole(e.kind),
       tags       |-> Arr([i \in DOMAIN e.tags |-> Strings(e.tags[i])]),
       content    |-> Str(Utf8(e.content)),
       sig        |-> Str(Utf8(e.signature))])

\* The properties of one object, and those of another that it does not have.
Over(o, p) == [x \in DOMAIN o \cup DOMAIN p |-> IF x \in DOMAIN o THEN o[x] ELSE p[x]]

\* Empty lists and absent numbers are left out.  A tag query is written last,
\* under its label, whatever the label is.
BuildFilterObject(f) ==
  LET lists   == [p \in {q \in {"ids", "authors", "kinds"} : f[q] # <<>>} |->
                    IF p = "kinds" THEN Arr([i \in DOMAIN f.kinds |-> Whole(f.kinds[i])])
                                   ELSE Strings(f[p])]
      numbers == [p \in {q \in {"since", "until", "limit"} : f[q] # {}} |->
                    IF p = "limit" THEN Whole(The(f.limit)) ELSE Real(The(f[p]))]
      queries == [p \in {Utf8(q) : q \in DOMAIN f.tagQueries} |->
                    Strings(f.tagQueries[CHOOSE q \in DOMAIN f.tagQueries : Utf8(q) = p])]
  IN  Obj(Over(queries, Over(lists, numbers)))

SerializeEvent(e) == Arr(<<Str("EVENT"), BuildEventObject(e)>>)

SerializeRequest(id, filters) ==
  Arr(<<Str("REQ"), Str(Utf8(id))>> \o [i \in DOMAIN filters |-> BuildFilterObject(filters[i])])
-----------------------------------------------------------------------------
Has(j, p) == p \in DOMAIN j.object
HasString(j, p) == Has(j, p) /\ IsString(j.object[p])
HasNumber(j, p) == Has(j, p) /\ IsNumber(j.object[p])
\* Mutant: the range is not checked.
MutantHasInt(j, p) == HasNumber(j, p)

HasInt(j, p) == HasNumber(j, p) /\ IsInt(Number(j.object[p]))

\* The bodies that ReadEventObject accepts; it throws on every other.
IsEventBody(j) ==
  /\ IsObject(j)
  /\ \A p \in {"id", "pubkey", "sig"} : HasString(j, p)
  /\ HasNumber(j, "created_at")
  /\ HasInt(j, "kind")
  /\ Has(j, "tags") => /\ IsArray(j.object.tags)
                       /\ \A i \in DOMAIN j.object.tags.array : IsStringArray(j.object.tags.array[i])
  /\ Has(j, "content") => IsString(j.object.content)

ReadTags(j) ==
  IF Has(j, "tags")
  THEN [i \in DOMAIN j.object.tags.array |-> StringsIn(j.object.tags.array[i])]
  ELSE <<>>

ReadEventObject(j) ==
  [id        |-> j.object.id.string,
   publicKey |-> j.object.pubkey.string,
   createdAt |-> Number(j.object.created_at),
   kind      |-> Truncated(Number(j.object.kind)),
   tags      |-> ReadTags(j),
   content   |-> IF Has(j, "content") THEN j.object.content.string ELSE "",
   signature |-> j.object.sig.string]

\* The serializer's own reading of a filter, which no client code calls: here it
\* is how a relay reads what BuildFilterObject writes.
ReadFilterObject(j) ==
  LET list(p) == IF Has(j, p) THEN StringsIn(j.object[p]) ELSE <<>>
      number(p) == IF Has(j, p) THEN {Number(j.object[p])} ELSE {}
  IN  [ids        |-> list("ids"),
       authors    |-> list("authors"),
       kinds      |-> IF Has(j, "kinds")
                      THEN [i \in DOMAIN j.object.kinds.array |->
                              Truncated(Number(j.object.kinds.array[i]))]
                      ELSE <<>>,
       since      |-> number("since"),
       until      |-> number("until"),
       limit      |-> {Truncated(d) : d \in number("limit")},
       tagQueries |-> [p \in {q \in DOMAIN j.object : IsLabel(q) /\ IsArray(j.object[q])} |->
                         StringsIn(j.object[p])]]
-----------------------------------------------------------------------------
IsFrame(j, type, least) == IsArray(j) /\ Len(j.array) >= least /\ j.array[1] = Str(type)

\* Mutant: off by one.
MutantEventIndex(j) == IF Len(j.array) > 3 THEN 3 ELSE 2

\* The event follows the subscription id, if there are three elements.
EventIndex(j) == IF Len(j.array) >= 3 THEN 3 ELSE 2

IsEvent(j) == /\ IsFrame(j, "EVENT", 2)
              /\ EventIndex(j) = 3 => IsString(j.array[2])
              /\ IsEventBody(j.array[EventIndex(j)])

DeserializeEvent(j) ==
  [type           |-> "EVENT",
   subscriptionId |-> IF EventIndex(j) = 3 THEN {j.array[2].string} ELSE {},
   event          |-> ReadEventObject(j.array[EventIndex(j)])]

IsOk(j) == /\ IsFrame(j, "OK", 3)
           /\ IsString(j.array[2]) /\ IsBool(j.array[3])
           /\ Len(j.array) >= 4 => IsString(j.array[4])

DeserializeOk(j) ==
  [type    |-> "OK",
   eventId |-> j.array[2].string,
   success |-> j.array[3].boolean,
   message |-> IF Len(j.array) >= 4 THEN j.array[4].string ELSE ""]

IsNotice(j) == IsFrame(j, "NOTICE", 2) /\ IsString(j.array[2])
DeserializeNotice(j) == [type |-> "NOTICE", message |-> j.array[2].string]

IsEose(j) == IsFrame(j, "EOSE", 2) /\ IsString(j.array[2])
DeserializeEndOfStoredEvents(j) == [type |-> "EOSE", subscriptionId |-> j.array[2].string]

IsClosed(j) == /\ IsFrame(j, "CLOSED", 2) /\ IsString(j.array[2])
               /\ Len(j.array) >= 3 => IsString(j.array[3])

DeserializeClosed(j) ==
  [type           |-> "CLOSED",
   subscriptionId |-> j.array[2].string,
   reason         |-> IF Len(j.array) >= 3 THEN j.array[3].string ELSE ""]

\* The first of the readings of an object's properties that gives something.
FirstOf(readings) ==
  LET given == {i \in DOMAIN readings : readings[i] # {}}
  IN  IF given = {} THEN {} ELSE readings[Min(given)]

Property(j, p) == IF Has(j, p) THEN {j.object[p]} ELSE {}

Text(j) == IF IsString(j) THEN {j.string} ELSE {}

\* A text is a number if it begins with one, else a date.
TryParseUnixTimestamp(j) ==
  IF IsNumber(j) THEN {Number(j)}
  ELSE IF ~IsString(j) THEN {}
  ELSE IF TextNumber(j.string) # {} THEN TextNumber(j.string) ELSE TextDate(j.string)

Challenge(j) ==
  LET names == <<"challenge", "message", "value">>
  IN  IF IsObject(j)
      THEN FirstOf([i \in DOMAIN names |-> UNION {Text(v) : v \in Property(j, names[i])}])
      ELSE Text(j)

ReadAuthExpiration(j) ==
  LET names == <<"expires_at", "expiration", "expiresAt">>
  IN  IF IsObject(j)
      THEN FirstOf([i \in DOMAIN names |->
             UNION {TryParseUnixTimestamp(v) : v \in Property(j, names[i])}])
      ELSE {}

IsAuth(j) == IsFrame(j, "AUTH", 2) /\ Challenge(j.array[2]) \notin {{}, {""}}

DeserializeAuthChallenge(j) ==
  [type      |-> "AUTH",
   challenge |-> The(Challenge(j.array[2])),
   expiresAt |-> ReadAuthExpiration(j.array[2])]

\* HandleIncomingMessage drops a message that its reader throws on.
Deserialized(j) ==
  CASE IsEvent(j)  -> {DeserializeEvent(j)}
    [] IsOk(j)     -> {DeserializeOk(j)}
    [] IsNotice(j) -> {DeserializeNotice(j)}
    [] IsEose(j)   -> {DeserializeEndOfStoredEvents(j)}
    [] IsClosed(j) -> {DeserializeClosed(j)}
    [] IsAuth(j)   -> {DeserializeAuthChallenge(j)}
    [] OTHER       -> {}
=============================================================================
