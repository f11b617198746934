----------------------------- MODULE ComObjects -----------------------------
(***************************************************************************)
(* The COM side of the data: VARIANTs, safe arrays and the DTO objects     *)
(* (ComValueHelpers, NostrDtoComObjects), and how NostrJsonSerializer and  *)
(* PublishEvent copy them to and from native data.                         *)
(*                                                                         *)
(* A VARIANT is a record whose one field names its type.  Texts given      *)
(* where a number is expected hold whole numbers.                          *)
(***************************************************************************)
EXTENDS RelayMessages

CONSTANTS
  CStr(_),  \* a text as a null-terminated string: what precedes its first NUL
  Hash(_)   \* SHA-256 of a serialized event, in hex
-----------------------------------------------------------------------------
Empty       == [empty |-> TRUE]
Bstr(t)     == [bstr |-> t]
I4(n)       == [i4 |-> n]
R8(d)       == [r8 |-> d]
Date(d)     == [date |-> d] \* in halves of a second since the Unix epoch
Dispatch(o) == [dispatch |-> o]

\* A safe array with the type of its elements; their values are VARIANTs if
\* that type is "variant", and plain otherwise.
Array(type, s) == [array |-> s, of |-> type]

IsSafeArray(v) == "array" \in DOMAIN v
Holds(v, type) == DOMAIN v = {type}

\* VariantToDouble and VariantToLong; ChangeType(VT_I4) rounds halves to even and
\* fails outside a long.  A limit is not a date.
VariantToDouble(v) ==
  CASE Holds(v, "r8")   -> {v.r8}
    [] Holds(v, "i4")   -> {2 * v.i4}
    [] Holds(v, "bstr") -> TextNumber(v.bstr)
    [] Holds(v, "date") -> {v.date} \ {d \in {v.date} : d < 0}
    [] OTHER            -> {}

RoundedToEven(d) == LET n == d \div 2 IN IF d % 2 = 1 /\ n % 2 = 1 THEN n + 1 ELSE n

\* A VARIANT that is read as one number or as none.
IsReading(v) == /\ VariantToDouble(v) \subseteq Int /\ IsOption(VariantToDouble(v))
                /\ Holds(v, "date") => v.date \in Int

VariantToLong(v) ==
  {n \in {RoundedToEven(d) : d \in VariantToDouble(v)} : -IntMax - 1 <= n /\ n <= IntMax}
-----------------------------------------------------------------------------
\* SafeArrayToStringVector and SafeArrayToLongVector: VT_EMPTY is the empty text,
\* and zero; what cannot be converted is refused.  A CComBSTR made of a BSTR takes
\* it as a null-terminated string.
AreStrings(a) ==
  a.of = "variant" => \A i \in DOMAIN a.array : Holds(a.array[i], "bstr") \/ a.array[i] = Empty

\* Mutant: an empty element is skipped.
MutantStringVector(a) ==
  LET filled == SelectSeq(a.array, LAMBDA v : a.of = "bstr" \/ v # Empty)
  IN  [i \in DOMAIN filled |-> CStr(IF a.of = "bstr" THEN filled[i] ELSE filled[i].bstr)]

StringVector(a) ==
  [i \in DOMAIN a.array |->
     IF a.of = "bstr" THEN CStr(a.array[i])
     ELSE IF a.array[i] = Empty THEN "" ELSE CStr(a.array[i].bstr)]

AreLongs(a) ==
  a.of = "variant" => \A i \in DOMAIN a.array : a.array[i] = Empty \/ VariantToLong(a.array[i]) # {}

LongVector(a) ==
  [i \in DOMAIN a.array |->
     IF a.of = "i4" THEN a.array[i]
     ELSE IF a.array[i] = Empty THEN 0 ELSE The(VariantToLong(a.array[i]))]

IsTagMatrix(a) == \A i \in DOMAIN a.array : IsSafeArray(a.array[i]) /\ AreStrings(a.array[i])
\* Mutant: upper - lower elements.
MutantTagMatrix(a) == [i \in 1..Len(a.array) - 1 |-> StringVector(a.array[i])]

TagMatrix(a) == [i \in DOMAIN a.array |-> StringVector(a.array[i])]

SafeArrayFromTags(tags) == Array("variant", [i \in DOMAIN tags |-> Array("bstr", tags[i])])
-----------------------------------------------------------------------------
\* An event whose texts have been passed as null-terminated strings.
CTags(tags) == [i \in DOMAIN tags |-> [k \in DOMAIN tags[i] |-> CStr(tags[i][k])]]

WithCStrings(e) ==
  [e EXCEPT !.id = CStr(@), !.publicKey = CStr(@), !.content = CStr(@), !.signature = CStr(@),
            !.tags = CTags(@)]

\* What a NostrEvent holds after these properties have been put: its texts are
\* assigned as null-terminated strings, its tags come and go in safe arrays.
NostrEvent(e) == [WithCStrings(e) EXCEPT !.tags = TagMatrix(SafeArrayFromTags(e.tags))]

PopulateEventDispatch(e)    == NostrEvent(WithCStrings(e))
ReadEventFromDispatch(o)    == [o EXCEPT !.tags = TagMatrix(SafeArrayFromTags(@))]

\* Mutant: the signature is not written.
MutantWriteEventBackToDispatch(e) == NostrEvent([WithCStrings(e) EXCEPT !.signature = ""])

WriteEventBackToDispatch(e) == NostrEvent(WithCStrings(e))

\* What ComputeEventId hashes: [0, pubkey, created_at, kind, tags, content].
Hashed(e) ==
  <<Utf8(e.publicKey), Rounded(e.createdAt), e.kind,
    [i \in DOMAIN e.tags |-> [k \in DOMAIN e.tags[i] |-> Utf8(e.tags[i][k])]], Utf8(e.content)>>
ComputeEventId(e) == Hash(Hashed(e))

\* Mutant: the tags are not copied.
MutantCreateEventDraft(e) ==
  [publicKey |-> CStr(e.publicKey), createdAt |-> e.createdAt, kind |-> e.kind,
   tags |-> <<>>, content |-> CStr(e.content)]

\* The draft a signer is given.
CreateEventDraft(e) ==
  [publicKey |-> CStr(e.publicKey), createdAt |-> e.createdAt, kind |-> e.kind,
   tags |-> TagMatrix(SafeArrayFromTags(CTags(e.tags))), content |-> CStr(e.content)]
-----------------------------------------------------------------------------
\* The properties of a NostrFilter, whose arrays are typed.
CStrings(s) == Array("bstr", [i \in DOMAIN s |-> CStr(s[i])])

NostrFilter(f) ==
  [ids     |-> CStrings(f.ids),
   authors |-> CStrings(f.authors),
   kinds   |-> Array("i4", f.kinds),
   tags    |-> Array("dispatch", [i \in DOMAIN f.tags |->
                 [label |-> Bstr(CStr(f.tags[i].label)), values |-> CStrings(f.tags[i].values)]]),
   since   |-> f.since, until |-> f.until, limit |-> f.limit]

\* The element of an array of objects as ReadFiltersFromSafeArray gets it, in a
\* VARIANT: of an array of pointers it is the pointer that is copied there, so
\* that its type is not VT_DISPATCH.
ElementAsVariant(a, i) == IF a.of = "variant" THEN a.array[i] ELSE Empty
AreObjects(a) == \A i \in DOMAIN a.array : Holds(ElementAsVariant(a, i), "dispatch")
ObjectsOf(a) == [i \in DOMAIN a.array |-> ElementAsVariant(a, i).dispatch]

IsTagQuery(q) == Holds(q.label, "bstr") /\ IsSafeArray(q.values) /\ AreStrings(q.values)

IsReadable(p) ==
  /\ \A list \in {p.ids, p.authors} : IsSafeArray(list) => AreStrings(list)
  /\ IsSafeArray(p.kinds) => AreLongs(p.kinds)
  /\ IsSafeArray(p.tags) => /\ AreObjects(p.tags)
                            /\ \A i \in DOMAIN p.tags.array : IsTagQuery(ObjectsOf(p.tags)[i])

\* A property that is not an array is ignored; of two tag queries with the same
\* label the last one counts.
FilterData(p) ==
  LET list(v) == IF IsSafeArray(v) THEN StringVector(v) ELSE <<>>
      queries == IF IsSafeArray(p.tags) THEN ObjectsOf(p.tags) ELSE <<>>
      label(i) == queries[i].label.bstr
  IN  [ids        |-> list(p.ids),
       authors    |-> list(p.authors),
       kinds      |-> IF IsSafeArray(p.kinds) THEN LongVector(p.kinds) ELSE <<>>,
       tagQueries |-> [t \in {label(i) : i \in DOMAIN queries} |->
                         StringVector(queries[Max({i \in DOMAIN queries : label(i) = t})].values)],
       since      |-> VariantToDouble(p.since),
       until      |-> VariantToDouble(p.until),
       limit      |-> VariantToLong(p.limit)]

AreFilters(a) == AreObjects(a) /\ \A i \in DOMAIN a.array : IsReadable(ObjectsOf(a)[i])
ReadFiltersFromSafeArray(a) == [i \in DOMAIN a.array |-> FilterData(ObjectsOf(a)[i])]
=============================================================================
