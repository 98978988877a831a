-------------------------- MODULE Payloads_proofs --------------------------
(***************************************************************************)
(* Lemmas about payloads as values: how they are put together, what is     *)
(* read of them in a query, what of the schemas' demands survives that,    *)
(* and that the metadata made from options are as they are specified.      *)
(***************************************************************************)
EXTENDS ResponseSchemas, MetadataPayloads, UriEncoding, Selections_proofs

LEMMA Spreading ==
  ASSUME NEW v, NEW w, NEW k
  PROVE  /\ Has(Spread(v, w), k) <=> Has(v, k) \/ Has(w, k)
         /\ At(Spread(v, w), k) = IF Has(w, k) THEN w.at[k] ELSE At(v, k)
  BY DEF Spread, Object, Has, Keys, At

LEMMA Leaving ==
  ASSUME NEW v, NEW ks, NEW k
  PROVE  /\ Has(Without(v, ks), k) <=> Has(v, k) /\ k \notin ks
         /\ At(Without(v, ks), k) = IF k \in ks THEN Undef ELSE At(v, k)
  BY DEF Without, Object, Has, Keys, At

LEMMA Defining ==
  ASSUME NEW f, NEW k
  PROVE  /\ Has(Defined(f), k) <=> k \in DOMAIN f /\ f[k] # Undef
         /\ At(Defined(f), k) = IF k \in DOMAIN f THEN f[k] ELSE Undef
  BY DEF Defined, Object, Has, Keys, At

LEMMA UndefinedIsFalse == ~IsTrue(Undef)
  BY DEF IsTrue, Undef

LEMMA Encoding ==
  ASSUME NEW v, NEW k
  PROVE  /\ Has(encodeJsonAsURI(v), k) <=> IsTrue(At(v, k))
         /\ Has(encodeJsonAsURI(v), k) => encodeJsonAsURI(v).at[k] = At(v, k)
  BY UndefinedIsFalse DEF encodeJsonAsURI, Object, Has, Keys, At

LEMMA Reading ==
  ASSUME NEW query, NEW k
  PROVE  /\ Has(decodeUriAsJson(query), k) <=> Has(query, k)
         /\ Has(query, k) => decodeUriAsJson(query).at[k] = ReadValue(query.at[k])
  BY DEF decodeUriAsJson, Object, Has, Keys

LEMMA ObjectsAreTrue == ASSUME NEW v, IsObject(v) PROVE IsTrue(v)
  BY DEF IsTrue, IsObject

LEMMA TrueIsReadAsTrue == ASSUME NEW v, IsTrue(v) PROVE IsTrue(ReadValue(v))
<1>1. \A t : t # "" => Unescaped(t) # ""
  BY DEF Unescaped
<1>2. CASE v.is = "string"
  BY <1>1, <1>2 DEF ReadValue, Reread, WithMembers, String, IsTrue
<1>3. CASE v.is = "object"
  BY <1>3 DEF ReadValue, Reread, WithMembers, Object, IsTrue
<1>4. CASE v.is \notin {"string", "object"}
  BY <1>4 DEF ReadValue, String, IsTrue, Listing, Digits
<1>5. QED
  BY <1>2, <1>3, <1>4

LEMMA MetadataIsObject ==
  ASSUME NEW m
  PROVE  IsObject(createRPRegistrationMetadataPayload(m))
  BY DEF createRPRegistrationMetadataPayload, Spread, Object, IsObject

LEMMA ReadIsTextOrObject ==
  ASSUME NEW v
  PROVE  IsString(ReadValue(v)) \/ IsObject(ReadValue(v))
<1>1. \A t : IsString(String(t))
  BY DEF IsString, String
<1>2. \A w, member : w.is = "string" => IsString(WithMembers(w, member))
  BY <1>1 DEF WithMembers
<1>3. \A w, member : w.is = "object" => IsObject(WithMembers(w, member))
  BY DEF WithMembers, IsObject, Object
<1>4. CASE v.is = "string"
  <2>1. IsString(Reread(v))
    BY <1>2, <1>4 DEF Reread
  <2>2. QED
    BY <1>4, <2>1 DEF ReadValue
<1>5. CASE v.is = "object"
  <2>1. IsObject(Reread(v))
    BY <1>3, <1>5 DEF Reread
  <2>2. QED
    BY <1>5, <2>1 DEF ReadValue
<1>6. CASE v.is = "array"
  BY <1>1, <1>6 DEF ReadValue
<1>7. CASE v.is = "number"
  BY <1>1, <1>7 DEF ReadValue
<1>8. CASE v.is = "boolean"
  BY <1>1, <1>8 DEF ReadValue
<1>9. CASE v.is \notin {"string", "object", "array", "number", "boolean"}
  BY <1>1, <1>9 DEF ReadValue
<1>10. QED
  BY <1>4, <1>5, <1>6, <1>7, <1>8, <1>9

LEMMA QueryAsRead ==
  ASSUME NEW query, NEW k \in Keys(decodeUriAsJson(query))
  PROVE  \/ IsString(decodeUriAsJson(query).at[k])
         \/ IsObject(decodeUriAsJson(query).at[k])
<1>1. decodeUriAsJson(query).at = [j \in Keys(query) |-> ReadValue(query.at[j])]
  BY DEF decodeUriAsJson, Object
<1>2. k \in Keys(query)
  BY <1>1 DEF Keys
<1>3. QED
  BY <1>1, <1>2, ReadIsTextOrObject

-----------------------------------------------------------------------------
(***************************************************************************)
(* What is read of a value: the recursions of UriEncoding are defined, and *)
(* no value changes its kind or its keys two levels down.                  *)
(***************************************************************************)
Within(v, f, n) == IF n = 0 THEN {v} ELSE UNION {Members(w) \cup {w} : w \in f[n - 1]}

LEMMA WithinDefined ==
  ASSUME NEW v, NEW k \in Nat
  PROVE  \E f : f = [n \in 0..k |-> Within(v, f, n)]
<1> DEFINE D == {j \in Nat : \E f : f = [n \in 0..j |-> Within(v, f, n)]}
<1>1. 0 \in D
  <2> DEFINE f == [n \in 0..0 |-> {v}]
  <2>1. f = [n \in 0..0 |-> Within(v, f, n)]
    BY DEF Within
  <2>2. QED
    BY <2>1
<1>2. ASSUME NEW j \in D PROVE j + 1 \in D
  <2>1. PICK f : f = [n \in 0..j |-> Within(v, f, n)]
    OBVIOUS
  <2> DEFINE g == [n \in 0..j + 1 |-> IF n = j + 1 THEN Within(v, f, j + 1) ELSE f[n]]
  <2>2. \A n \in 0..j : g[n] = f[n]
    OBVIOUS
  <2>3. ASSUME NEW n \in 0..j + 1 PROVE g[n] = Within(v, g, n)
    <3>1. n # 0 => n - 1 \in 0..j
      OBVIOUS
    <3>2. Within(v, g, n) = Within(v, f, n)
      BY <2>2, <3>1 DEF Within
    <3>3. n # j + 1 => n \in 0..j /\ f[n] = Within(v, f, n)
      BY <2>1
    <3>4. QED
      BY <3>2, <3>3
  <2>4. g = [n \in 0..j + 1 |-> Within(v, g, n)]
    BY <2>3
  <2>5. j + 1 \in Nat
    OBVIOUS
  <2> HIDE DEF g
  <2>6. QED
    BY <2>4, <2>5
<1>3. D = Nat
  BY <1>1, <1>2, SetInduction
<1>4. QED
  BY <1>3

LEMMA PartsOfMembers ==
  ASSUME NEW v
  PROVE  /\ v \in PartsOf(v)
         /\ \A w \in Members(v) : w \in PartsOf(v) /\ Members(w) \subseteq PartsOf(v)
<1> DEFINE within == CHOOSE f : f = [n \in 0..Depth |-> Within(v, f, n)]
<1>1. within = [n \in 0..Depth |-> Within(v, within, n)]
  BY WithinDefined DEF Depth
<1>2. PartsOf(v) = within[Depth]
  BY DEF PartsOf, Within
<1> HIDE DEF within
<1>3. /\ within[0] = {v}
      /\ \A n \in 1..12 : within[n] = UNION {Members(w) \cup {w} : w \in within[n - 1]}
  <2>1. \A n \in 0..12 : within[n] = Within(v, within, n)
    BY <1>1 DEF Depth
  <2>2. /\ \A n \in 1..12 : n \in 0..12 /\ n # 0
        /\ 0 \in 0..12
    OBVIOUS
  <2>3. QED
    BY <2>1, <2>2 DEF Within
<1>4. \A n \in 1..12 : within[n] = UNION {Members(w) \cup {w} : w \in within[n - 1]}
  BY <1>3
<1>5. \A n \in 1..12 : within[n - 1] \subseteq within[n]
  BY <1>4
<1>6. /\ within[1] = UNION {Members(w) \cup {w} : w \in within[0]}
      /\ within[2] = UNION {Members(w) \cup {w} : w \in within[1]}
  BY <1>4
<1>7. within[1] \subseteq within[12] /\ within[2] \subseteq within[12]
  <2>1. /\ within[1] \subseteq within[2] /\ within[2] \subseteq within[3]
        /\ within[3] \subseteq within[4] /\ within[4] \subseteq within[5]
        /\ within[5] \subseteq within[6] /\ within[6] \subseteq within[7]
        /\ within[7] \subseteq within[8] /\ within[8] \subseteq within[9]
        /\ within[9] \subseteq within[10] /\ within[10] \subseteq within[11]
        /\ within[11] \subseteq within[12]
    BY <1>5
  <2>2. QED
    BY <2>1
<1>8. v \in within[1] /\ Members(v) \subseteq within[1]
  BY <1>3, <1>6
<1>9. \A w \in within[1] : Members(w) \subseteq within[2]
  BY <1>6
<1>10. QED
  BY <1>2, <1>7, <1>8, <1>9 DEF Depth

\* One more level of reading, given what the members of a part are read as.
ReadOnce(parts, f, n) == [w \in parts |-> IF n = 0 THEN w ELSE WithMembers(w, f[n - 1])]

LEMMA ReadDefined ==
  ASSUME NEW parts, NEW k \in Nat
  PROVE  \E f : f = [n \in 0..k |-> ReadOnce(parts, f, n)]
<1> DEFINE D == {j \in Nat : \E f : f = [n \in 0..j |-> ReadOnce(parts, f, n)]}
<1>1. 0 \in D
  <2> DEFINE f == [n \in 0..0 |-> [w \in parts |-> w]]
  <2>1. f = [n \in 0..0 |-> ReadOnce(parts, f, n)]
    BY DEF ReadOnce
  <2>2. QED
    BY <2>1
<1>2. ASSUME NEW j \in D PROVE j + 1 \in D
  <2>1. PICK f : f = [n \in 0..j |-> ReadOnce(parts, f, n)]
    OBVIOUS
  <2> DEFINE g == [n \in 0..j + 1 |-> IF n = j + 1 THEN ReadOnce(parts, f, j + 1) ELSE f[n]]
  <2>2. \A n \in 0..j : g[n] = f[n]
    OBVIOUS
  <2>3. ASSUME NEW n \in 0..j + 1 PROVE g[n] = ReadOnce(parts, g, n)
    <3>1. n # 0 => n - 1 \in 0..j
      OBVIOUS
    <3>2. n # 0 => g[n - 1] = f[n - 1]
      BY <2>2, <3>1
    <3>3. ReadOnce(parts, g, n) = ReadOnce(parts, f, n)
      BY <3>2 DEF ReadOnce
    <3>4. n # j + 1 => n \in 0..j /\ f[n] = ReadOnce(parts, f, n)
      BY <2>1
    <3>5. QED
      BY <3>3, <3>4
  <2>4. g = [n \in 0..j + 1 |-> ReadOnce(parts, g, n)]
    BY <2>3
  <2>5. j + 1 \in Nat
    OBVIOUS
  <2> HIDE DEF g
  <2>6. QED
    BY <2>4, <2>5
<1>3. D = Nat
  BY <1>1, <1>2, SetInduction
<1>4. QED
  BY <1>3

LEMMA RereadUnfolds ==
  ASSUME NEW v
  PROVE  \E read : /\ read = [n \in 0..Depth |-> ReadOnce(PartsOf(v), read, n)]
                   /\ Reread(v) = WithMembers(v, read[Depth])
<1> DEFINE read == CHOOSE f : f = [n \in 0..Depth |-> ReadOnce(PartsOf(v), f, n)]
<1>1. read = [n \in 0..Depth |-> ReadOnce(PartsOf(v), read, n)]
  BY ReadDefined DEF Depth
<1>2. Reread(v) = WithMembers(v, read[Depth])
  BY DEF Reread, ReadOnce
<1> HIDE DEF read
<1>3. QED
  BY <1>1, <1>2

\* The kind and the keys of a value.
SameShape(v, w) == v.is = w.is /\ Keys(v) = Keys(w)

LEMMA ShapeKept ==
  ASSUME NEW v, NEW f
  PROVE  SameShape(WithMembers(v, f), v)
  BY DEF WithMembers, SameShape, Keys, String, Array, Object

LEMMA RereadKeepsShape ==
  ASSUME NEW v, IsObject(v)
  PROVE  /\ SameShape(Reread(v), v)
         /\ \A k \in Keys(v) :
              /\ SameShape(Reread(v).at[k], v.at[k])
              /\ \A j \in Keys(v.at[k]) : SameShape(Reread(v).at[k].at[j], v.at[k].at[j])
<1>1. PICK read : /\ read = [n \in 0..Depth |-> ReadOnce(PartsOf(v), read, n)]
                  /\ Reread(v) = WithMembers(v, read[Depth])
  BY RereadUnfolds
<1>2. \A w \in PartsOf(v) : /\ read[12][w] = WithMembers(w, read[11])
                            /\ read[11][w] = WithMembers(w, read[10])
  <2>1. read[12] = ReadOnce(PartsOf(v), read, 12) /\ read[11] = ReadOnce(PartsOf(v), read, 11)
    BY <1>1 DEF Depth
  <2>2. QED
    BY <2>1 DEF ReadOnce
<1>3. ASSUME NEW k \in Keys(v)
      PROVE  /\ Reread(v).at[k] = WithMembers(v.at[k], read[11])
             /\ \A j \in Keys(v.at[k]) :
                  Reread(v).at[k].at[j] = WithMembers(v.at[k].at[j], read[10])
  <2>1. v.at[k] \in Members(v)
    BY DEF Members, Keys, IsObject
  <2>2. Reread(v).at[k] = read[12][v.at[k]]
    BY <1>1 DEF WithMembers, Object, IsObject, Keys, Depth
  <2>3. Reread(v).at[k] = WithMembers(v.at[k], read[11])
    BY <1>2, <2>1, <2>2, PartsOfMembers
  <2>4. ASSUME NEW j \in Keys(v.at[k])
        PROVE  Reread(v).at[k].at[j] = WithMembers(v.at[k].at[j], read[10])
    <3>1. v.at[k].at[j] \in Members(v.at[k]) /\ v.at[k].is = "object" /\ j \in DOMAIN v.at[k].at
      BY <2>4 DEF Members, Keys
    <3>2. Reread(v).at[k].at[j] = read[11][v.at[k].at[j]]
      BY <2>3, <3>1 DEF WithMembers, Object
    <3>3. v.at[k].at[j] \in PartsOf(v)
      BY <2>1, <3>1, PartsOfMembers
    <3>4. QED
      BY <1>2, <3>2, <3>3
  <2>5. QED
    BY <2>3, <2>4
<1>4. QED
  BY <1>1, <1>3, ShapeKept

\* A JSON value without texts that look encoded is read as it is.
LEMMA ReadAsItIs ==
  ASSUME NEW v, JsonValue(v), TextsOf(v) \cap {EscapedLetter, EscapedQuote} = {}
  PROVE  Reread(v) = v
<1> DEFINE parts == PartsOf(v)
<1>1. ASSUME NEW w \in parts, NEW f, \A u \in Members(w) : f[u] = u
      PROVE  WithMembers(w, f) = w
  <2>1. Canonical(w)
    BY DEF JsonValue
  <2>2. CASE w.is = "string"
    <3>1. w.text \notin {EscapedLetter, EscapedQuote}
      BY <2>2 DEF TextsOf, IsString
    <3>2. Unescaped(w.text) = w.text
      BY <3>1 DEF Unescaped
    <3>3. QED
      BY <2>1, <2>2, <3>2 DEF Canonical, WithMembers
  <2>3. CASE w.is = "array"
    <3>1. \A i \in DOMAIN w.of : f[w.of[i]] = w.of[i]
      BY <1>1, <2>3 DEF Members
    <3>2. [i \in DOMAIN w.of |-> f[w.of[i]]] = [i \in DOMAIN w.of |-> w.of[i]]
      BY <3>1
    <3>3. QED
      BY <2>1, <2>3, <3>2 DEF Canonical, WithMembers
  <2>4. CASE w.is = "object"
    <3>1. \A k \in DOMAIN w.at : f[w.at[k]] = w.at[k]
      BY <1>1, <2>4 DEF Members
    <3>2. [k \in DOMAIN w.at |-> f[w.at[k]]] = [k \in DOMAIN w.at |-> w.at[k]]
      BY <3>1
    <3>3. QED
      BY <2>1, <2>4, <3>2 DEF Canonical, WithMembers
  <2>5. CASE w.is \notin {"string", "array", "object"}
    BY <2>5 DEF WithMembers
  <2>6. QED
    BY <2>2, <2>3, <2>4, <2>5
<1>2. PICK read : /\ read = [n \in 0..Depth |-> ReadOnce(parts, read, n)]
                  /\ Reread(v) = WithMembers(v, read[Depth])
  BY RereadUnfolds
<1>3. \A n \in 0..12 : \A w \in parts :
        read[n][w] = IF n = 0 THEN w ELSE WithMembers(w, read[n - 1])
  <2>1. \A n \in 0..12 : read[n] = ReadOnce(parts, read, n)
    BY <1>2 DEF Depth
  <2>2. QED
    BY <2>1 DEF ReadOnce
<1> DEFINE D == {n \in Nat : n <= 12 => \A w \in parts : read[n][w] = w}
<1>4. 0 \in D
  <2>1. 0 \in 0..12
    OBVIOUS
  <2>2. QED
    BY <1>3, <2>1
<1>5. ASSUME NEW n \in D PROVE n + 1 \in D
  <2>1. SUFFICES ASSUME n + 1 <= 12, NEW w \in parts PROVE read[n + 1][w] = w
    OBVIOUS
  <2>2. n + 1 \in 0..12 /\ n + 1 # 0 /\ (n + 1) - 1 = n
    BY <2>1
  <2>3. read[n + 1][w] = WithMembers(w, read[n])
    BY <1>3, <2>2
  <2>4. \A u \in Members(w) : read[n][u] = u
    BY <2>1 DEF JsonValue
  <2>5. QED
    BY <1>1, <2>3, <2>4
<1> HIDE DEF D
<1>6. D = Nat
  BY <1>4, <1>5, SetInduction DEF D
<1>7. \A w \in parts : read[12][w] = w
  BY <1>6 DEF D
<1>8. v \in parts /\ Members(v) \subseteq parts
  BY PartsOfMembers
<1>9. QED
  BY <1>1, <1>2, <1>7, <1>8 DEF Depth

-----------------------------------------------------------------------------
(***************************************************************************)
(* The metadata that are published: where each of their fields comes from, *)
(* and that a field fits its kind where the option it renames did.         *)
(***************************************************************************)
LEMMA Renaming ==
  ASSUME NEW v, NEW table, NEW n
  PROVE  /\ Has(Renamed(v, table), n) <=> n \in DOMAIN table /\ At(v, table[n]) # Undef
         /\ Has(Renamed(v, table), n) => Renamed(v, table).at[n] = At(v, table[n])
<1> DEFINE f == [j \in DOMAIN table |-> At(v, table[j])]
<1>1. Renamed(v, table) = Defined(f)
  BY DEF Renamed
<1>2. DOMAIN f = DOMAIN table /\ \A j \in DOMAIN table : f[j] = At(v, table[j])
  OBVIOUS
<1> HIDE DEF f
<1>3. QED
  BY <1>1, <1>2, Defining DEF At

\* Names in other languages keep their languages, and hide no other field.
LEMMA TaggedFields ==
  ASSUME NEW opts
  PROVE  LET tagged == getLanguageTaggedPropertiesMapped(opts, languageTagEnabledFieldsNamesMapping)
         IN  /\ \A n \in MetadataFields : ~Has(tagged, n)
             /\ \A k \in Keys(opts) \cap NamesInLanguages :
                  TagOf[k] \in ValidTags =>
                    Has(tagged, TaggedName(k)) /\ tagged.at[TaggedName(k)] = opts.at[k]
<1> DEFINE mapping == languageTagEnabledFieldsNamesMapping
           found == {k \in Keys(opts) \cap TaggedKeys : hasLanguageTag(k) /\ FieldOf[k] \in DOMAIN mapping}
           tagged == getLanguageTaggedPropertiesMapped(opts, mapping)
           source(n) == CHOOSE k \in found : TaggedName(k) = n
<1>1. found \subseteq NamesInLanguages
  BY DEF NamesInLanguages
<1>2. \A k : getMappedFieldName(mapping, k) = TaggedName(k)
  BY DEF getMappedFieldName, TaggedName
<1>3. tagged = Object([n \in {TaggedName(k) : k \in found} |-> opts.at[source(n)]])
  BY <1>2 DEF getLanguageTaggedPropertiesMapped
<1>4. \A n : Has(tagged, n) <=> \E k \in found : n = TaggedName(k)
  BY <1>3 DEF Object, Has, Keys
<1>5. ASSUME NEW k \in found
      PROVE  Has(tagged, TaggedName(k)) /\ tagged.at[TaggedName(k)] = opts.at[k]
  <2>1. source(TaggedName(k)) = k
    BY <1>1, NamesAssumption
  <2>2. tagged.at[TaggedName(k)] = opts.at[source(TaggedName(k))]
    BY <1>3 DEF Object
  <2>3. QED
    BY <1>4, <2>1, <2>2
<1>6. ASSUME NEW k \in Keys(opts) \cap NamesInLanguages, TagOf[k] \in ValidTags
      PROVE  k \in found
  <2>1. FieldOf[k] # ""
    BY DEF NamesInLanguages, languageTagEnabledFieldsNamesMapping
  <2>2. QED
    BY <1>6, <2>1 DEF NamesInLanguages, hasLanguageTag, isFieldLanguageTagged
<1> HIDE DEF found, tagged
<1>7. \A n \in MetadataFields : ~Has(tagged, n)
  BY <1>1, <1>4, NamesAssumption
<1>8. QED
  BY <1>5, <1>6, <1>7 DEF tagged

DefaultNames == {"authorization_endpoint", "issuer", "response_types_supported", "scopes_supported",
          "subject_types_supported", "id_token_signing_alg_values_supported",
          "request_object_signing_alg_values_supported"}

LEMMA DiscoveryFields ==
  ASSUME NEW opts, NEW n \in MetadataFields
  PROVE  LET payload == createDiscoveryMetadataPayload(opts)
         IN  Has(payload, n) =>
               \/ /\ n \in DOMAIN DiscoveryNames /\ Has(opts, DiscoveryNames[n])
                  /\ payload.at[n] = opts.at[DiscoveryNames[n]]
               \/ n \in DefaultNames /\ payload.at[n] = DiscoveryDefaults(opts).at[n]
<1> DEFINE payload == createDiscoveryMetadataPayload(opts)
           renamed == Renamed(opts, DiscoveryNames)
           defaults == DiscoveryDefaults(opts)
           tagged == getLanguageTaggedPropertiesMapped(opts, languageTagEnabledFieldsNamesMapping)
<1>1. payload = Spread(Spread(defaults, renamed), tagged)
  BY DEF createDiscoveryMetadataPayload
<1>2. ~Has(tagged, n)
  BY TaggedFields
<1>3. Has(defaults, n) => n \in DefaultNames
  BY DEF DiscoveryDefaults, Object, Has, Keys, DefaultNames
<1>4. /\ Has(renamed, n) <=> n \in DOMAIN DiscoveryNames /\ At(opts, DiscoveryNames[n]) # Undef
      /\ Has(renamed, n) => renamed.at[n] = At(opts, DiscoveryNames[n])
  BY Renaming
<1> HIDE DEF payload, renamed, defaults, tagged
<1>5. /\ Has(payload, n) <=> Has(defaults, n) \/ Has(renamed, n)
      /\ At(payload, n) = IF Has(renamed, n) THEN renamed.at[n] ELSE At(defaults, n)
  BY <1>1, <1>2, Spreading
<1>6. Has(renamed, n) => Has(opts, DiscoveryNames[n]) /\ renamed.at[n] = opts.at[DiscoveryNames[n]]
  BY <1>4 DEF At
<1>7. QED
  BY <1>3, <1>4, <1>5, <1>6 DEF payload, defaults, At


\* A field of metadata and the option it is made from take the same values.
NamedAlike(n, options, table) ==
  /\ n \in DOMAIN DiscoveryNames \ DefaultNames
  /\ DiscoveryNames[n] \in DOMAIN options /\ options[DiscoveryNames[n]] = table[n]

LEMMA EndpointsNamed ==
  \A n \in DOMAIN EndpointMetadata : NamedAlike(n, EndpointOptions, EndpointMetadata)
<1>1. DOMAIN EndpointMetadata = {"token_endpoint", "userinfo_endpoint", "jwks_uri",
                                 "registration_endpoint", "response_modes_supported",
                                 "grant_types_supported", "acr_values_supported"}
  BY DEF EndpointMetadata
<1>2. /\ DiscoveryNames["token_endpoint"] = "tokenEndpoint"
      /\ DiscoveryNames["userinfo_endpoint"] = "userinfoEndpoint"
      /\ DiscoveryNames["jwks_uri"] = "jwksUri"
      /\ DiscoveryNames["registration_endpoint"] = "registrationEndpoint"
      /\ DiscoveryNames["response_modes_supported"] = "responseModesSupported"
      /\ DiscoveryNames["grant_types_supported"] = "grantTypesSupported"
      /\ DiscoveryNames["acr_values_supported"] = "acrValuesSupported"
  BY DEF DiscoveryNames
<1>3. /\ EndpointMetadata["token_endpoint"] = EndpointOptions["tokenEndpoint"]
      /\ EndpointMetadata["userinfo_endpoint"] = EndpointOptions["userinfoEndpoint"]
      /\ EndpointMetadata["jwks_uri"] = EndpointOptions["jwksUri"]
      /\ EndpointMetadata["registration_endpoint"] = EndpointOptions["registrationEndpoint"]
      /\ EndpointMetadata["response_modes_supported"] = EndpointOptions["responseModesSupported"]
      /\ EndpointMetadata["grant_types_supported"] = EndpointOptions["grantTypesSupported"]
      /\ EndpointMetadata["acr_values_supported"] = EndpointOptions["acrValuesSupported"]
  BY DEF EndpointMetadata, EndpointOptions
<1>4. {"token_endpoint", "userinfo_endpoint", "jwks_uri", "registration_endpoint",
       "response_modes_supported", "grant_types_supported", "acr_values_supported"}
        \subseteq DOMAIN DiscoveryNames \ DefaultNames
  BY DEF DiscoveryNames, DefaultNames
<1>5. {"tokenEndpoint", "userinfoEndpoint", "jwksUri", "registrationEndpoint",
       "responseModesSupported", "grantTypesSupported", "acrValuesSupported"}
        \subseteq DOMAIN EndpointOptions
  BY DEF EndpointOptions
<1>6. QED
  BY <1>1, <1>2, <1>3, <1>4, <1>5 DEF NamedAlike

LEMMA AlgorithmsNamed ==
  \A n \in DOMAIN AlgorithmMetadata : NamedAlike(n, AlgorithmOptions, AlgorithmMetadata)
<1>1. DOMAIN AlgorithmMetadata = {"id_token_encryption_alg_values_supported",
                                  "id_token_encryption_enc_values_supported",
                                  "userinfo_signing_alg_values_supported",
                                  "userinfo_encryption_alg_values_supported",
                                  "userinfo_encryption_enc_values_supported",
                                  "request_object_encryption_alg_values_supported",
                                  "request_object_encryption_enc_values_supported",
                                  "token_endpoint_auth_methods_supported",
                                  "token_endpoint_auth_signing_alg_values_supported"}
  BY DEF AlgorithmMetadata
<1>2. /\ DiscoveryNames["id_token_encryption_alg_values_supported"] = "idTokenEncryptionAlgValuesSupported"
      /\ DiscoveryNames["id_token_encryption_enc_values_supported"] = "idTokenEncryptionEncValuesSupported"
      /\ DiscoveryNames["userinfo_signing_alg_values_supported"] = "userinfoSigningAlgValuesSupported"
      /\ DiscoveryNames["userinfo_encryption_alg_values_supported"] = "userinfoEncryptionAlgValuesSupported"
      /\ DiscoveryNames["userinfo_encryption_enc_values_supported"] = "userinfoEncryptionEncValuesSupported"
      /\ DiscoveryNames["request_object_encryption_alg_values_supported"] = "requestObjectEncryptionAlgValuesSupported"
      /\ DiscoveryNames["request_object_encryption_enc_values_supported"] = "requestObjectEncryptionEncValuesSupported"
      /\ DiscoveryNames["token_endpoint_auth_methods_supported"] = "tokenEndpointAuthMethodsSupported"
      /\ DiscoveryNames["token_endpoint_auth_signing_alg_values_supported"] = "tokenEndpointAuthSigningAlgValuesSupported"
  BY DEF DiscoveryNames
<1>3. /\ AlgorithmMetadata["id_token_encryption_alg_values_supported"] = AlgorithmOptions["idTokenEncryptionAlgValuesSupported"]
      /\ AlgorithmMetadata["id_token_encryption_enc_values_supported"] = AlgorithmOptions["idTokenEncryptionEncValuesSupported"]
      /\ AlgorithmMetadata["userinfo_signing_alg_values_supported"] = AlgorithmOptions["userinfoSigningAlgValuesSupported"]
      /\ AlgorithmMetadata["userinfo_encryption_alg_values_supported"] = AlgorithmOptions["userinfoEncryptionAlgValuesSupported"]
      /\ AlgorithmMetadata["userinfo_encryption_enc_values_supported"] = AlgorithmOptions["userinfoEncryptionEncValuesSupported"]
      /\ AlgorithmMetadata["request_object_encryption_alg_values_supported"] = AlgorithmOptions["requestObjectEncryptionAlgValuesSupported"]
      /\ AlgorithmMetadata["request_object_encryption_enc_values_supported"] = AlgorithmOptions["requestObjectEncryptionEncValuesSupported"]
      /\ AlgorithmMetadata["token_endpoint_auth_methods_supported"] = AlgorithmOptions["tokenEndpointAuthMethodsSupported"]
      /\ AlgorithmMetadata["token_endpoint_auth_signing_alg_values_supported"] = AlgorithmOptions["tokenEndpointAuthSigningAlgValuesSupported"]
  BY DEF AlgorithmMetadata, AlgorithmOptions
<1>4. {"id_token_encryption_alg_values_supported", "id_token_encryption_enc_values_supported",
       "userinfo_signing_alg_values_supported", "userinfo_encryption_alg_values_supported",
       "userinfo_encryption_enc_values_supported", "request_object_encryption_alg_values_supported",
       "request_object_encryption_enc_values_supported", "token_endpoint_auth_methods_supported",
       "token_endpoint_auth_signing_alg_values_supported"}
        \subseteq DOMAIN DiscoveryNames \ DefaultNames
  BY DEF DiscoveryNames, DefaultNames
<1>5. {"idTokenEncryptionAlgValuesSupported", "idTokenEncryptionEncValuesSupported",
       "userinfoSigningAlgValuesSupported", "userinfoEncryptionAlgValuesSupported",
       "userinfoEncryptionEncValuesSupported", "requestObjectEncryptionAlgValuesSupported",
       "requestObjectEncryptionEncValuesSupported", "tokenEndpointAuthMethodsSupported",
       "tokenEndpointAuthSigningAlgValuesSupported"}
        \subseteq DOMAIN AlgorithmOptions
  BY DEF AlgorithmOptions
<1>6. QED
  BY <1>1, <1>2, <1>3, <1>4, <1>5 DEF NamedAlike

LEMMA ClaimsNamed ==
  \A n \in DOMAIN ClaimMetadata : NamedAlike(n, ClaimOptions, ClaimMetadata)
<1>1. DOMAIN ClaimMetadata = {"claim_types_supported", "claims_supported", "service_documentation",
                              "claims_locales_supported", "ui_locales_supported",
                              "claims_parameter_supported", "request_parameter_supported",
                              "request_uri_parameter_supported", "require_request_uri_registration",
                              "op_policy_uri", "op_tos_uri"}
  BY DEF ClaimMetadata
<1>2. /\ DiscoveryNames["claim_types_supported"] = "claimTypesSupported"
      /\ DiscoveryNames["claims_supported"] = "claimsSupported"
      /\ DiscoveryNames["service_documentation"] = "serviceDocumentation"
      /\ DiscoveryNames["claims_locales_supported"] = "claimsLocalesSupported"
      /\ DiscoveryNames["ui_locales_supported"] = "uiLocalesSupported"
      /\ DiscoveryNames["claims_parameter_supported"] = "claimsParameterSupported"
      /\ DiscoveryNames["request_parameter_supported"] = "requestParameterSupported"
      /\ DiscoveryNames["request_uri_parameter_supported"] = "requestUriParameterSupported"
      /\ DiscoveryNames["require_request_uri_registration"] = "requireRequestUriRegistration"
      /\ DiscoveryNames["op_policy_uri"] = "opPolicyUri"
      /\ DiscoveryNames["op_tos_uri"] = "opTosUri"
  BY DEF DiscoveryNames
<1>3. /\ ClaimMetadata["claim_types_supported"] = ClaimOptions["claimTypesSupported"]
      /\ ClaimMetadata["claims_supported"] = ClaimOptions["claimsSupported"]
      /\ ClaimMetadata["service_documentation"] = ClaimOptions["serviceDocumentation"]
      /\ ClaimMetadata["claims_locales_supported"] = ClaimOptions["claimsLocalesSupported"]
      /\ ClaimMetadata["ui_locales_supported"] = ClaimOptions["uiLocalesSupported"]
      /\ ClaimMetadata["claims_parameter_supported"] = ClaimOptions["claimsParameterSupported"]
      /\ ClaimMetadata["request_parameter_supported"] = ClaimOptions["requestParameterSupported"]
      /\ ClaimMetadata["request_uri_parameter_supported"] = ClaimOptions["requestUriParameterSupported"]
      /\ ClaimMetadata["require_request_uri_registration"] = ClaimOptions["requireRequestUriRegistration"]
      /\ ClaimMetadata["op_policy_uri"] = ClaimOptions["opPolicyUri"]
      /\ ClaimMetadata["op_tos_uri"] = ClaimOptions["opTosUri"]
  BY DEF ClaimMetadata, ClaimOptions
<1>4. {"claim_types_supported", "claims_supported", "service_documentation",
       "claims_locales_supported", "ui_locales_supported", "claims_parameter_supported",
       "request_parameter_supported", "request_uri_parameter_supported",
       "require_request_uri_registration", "op_policy_uri", "op_tos_uri"}
        \subseteq DOMAIN DiscoveryNames \ DefaultNames
  BY DEF DiscoveryNames, DefaultNames
<1>5. {"claimTypesSupported", "claimsSupported", "serviceDocumentation", "claimsLocalesSupported",
       "uiLocalesSupported", "claimsParameterSupported", "requestParameterSupported",
       "requestUriParameterSupported", "requireRequestUriRegistration", "opPolicyUri", "opTosUri"}
        \subseteq DOMAIN ClaimOptions
  BY DEF ClaimOptions
<1>6. QED
  BY <1>1, <1>2, <1>3, <1>4, <1>5 DEF NamedAlike

LEMMA ClientsNamed ==
  \A n \in DOMAIN ClientMetadata \ {"redirectUris"} : NamedAlike(n, ClientOptions, ClientMetadata)
<1>1. DOMAIN ClientMetadata \ {"redirectUris"} = {"client_id", "client_name",
                                                  "token_endpoint_auth_method", "application_type",
                                                  "response_types", "grant_types", "vp_formats"}
  BY DEF ClientMetadata
<1>2. /\ DiscoveryNames["client_id"] = "clientId"
      /\ DiscoveryNames["client_name"] = "clientName"
      /\ DiscoveryNames["token_endpoint_auth_method"] = "tokenEndpointAuthMethod"
      /\ DiscoveryNames["application_type"] = "applicationType"
      /\ DiscoveryNames["response_types"] = "responseTypes"
      /\ DiscoveryNames["grant_types"] = "grantTypes"
      /\ DiscoveryNames["vp_formats"] = "vpFormats"
  BY DEF DiscoveryNames
<1>3. /\ ClientMetadata["client_id"] = ClientOptions["clientId"]
      /\ ClientMetadata["client_name"] = ClientOptions["clientName"]
      /\ ClientMetadata["token_endpoint_auth_method"] = ClientOptions["tokenEndpointAuthMethod"]
      /\ ClientMetadata["application_type"] = ClientOptions["applicationType"]
      /\ ClientMetadata["response_types"] = ClientOptions["responseTypes"]
      /\ ClientMetadata["grant_types"] = ClientOptions["grantTypes"]
      /\ ClientMetadata["vp_formats"] = ClientOptions["vpFormats"]
  BY DEF ClientMetadata, ClientOptions
<1>4. {"client_id", "client_name", "token_endpoint_auth_method", "application_type",
       "response_types", "grant_types", "vp_formats"}
        \subseteq DOMAIN DiscoveryNames \ DefaultNames
  BY DEF DiscoveryNames, DefaultNames
<1>5. {"clientId", "clientName", "tokenEndpointAuthMethod", "applicationType", "responseTypes",
       "grantTypes", "vpFormats"}
        \subseteq DOMAIN ClientOptions
  BY DEF ClientOptions
<1>6. QED
  BY <1>1, <1>2, <1>3, <1>4, <1>5 DEF NamedAlike


LEMMA FitsByName ==
  ASSUME NEW opts, NEW options, NEW table, Conforms(opts, options),
         NEW n \in Keys(createDiscoveryMetadataPayload(opts)), NamedAlike(n, options, table)
  PROVE  Fits(createDiscoveryMetadataPayload(opts).at[n], table[n])
<1>1. n \in MetadataFields /\ n \notin DefaultNames
  BY DEF NamedAlike, MetadataFields
<1>2. /\ Has(opts, DiscoveryNames[n])
      /\ createDiscoveryMetadataPayload(opts).at[n] = opts.at[DiscoveryNames[n]]
  BY <1>1, DiscoveryFields DEF Has
<1>3. Fits(opts.at[DiscoveryNames[n]], options[DiscoveryNames[n]])
  BY <1>2 DEF Conforms, NamedAlike, Has
<1>4. QED
  BY <1>2, <1>3 DEF NamedAlike

LEMMA KindsOfIdentity ==
  ASSUME NEW v
  PROVE  /\ Fits(v, "string") <=> IsString(v)
         /\ Fits(v, "issuer") <=> ResponseIss(v)
         /\ Fits(v, "some response") <=> ResponseTypes(v)
         /\ Fits(v, "some scope") <=> Scopes(v)
         /\ Fits(v, "some subject") <=> SubjectTypes(v)
         /\ Fits(v, "some algorithm") <=> SigningAlgos(v)
  BY DEF Fits

\* The defaults are such values, and so is what the options have instead.
LEMMA DefaultsFit ==
  /\ IsString(String("openid:")) /\ ResponseIss(String("https://self-issued.me/v2"))
  /\ ResponseTypes(String("id_token"))
  /\ Scopes(TextList(<<"openid">>)) /\ SubjectTypes(TextList(<<"pairwise">>))
  /\ SigningAlgos(TextList(<<"ES256K", "EdDSA">>))
<1>1. /\ IsString(String("openid:")) /\ ResponseIss(String("https://self-issued.me/v2"))
      /\ ResponseTypes(String("id_token"))
  BY DEF IsString, String, ResponseIss, ResponseTypes, SomeOf, ResponseType, OneOf
<1>2. \A t : /\ TextList(<<t>>).is = "array" 
             /\ \A i \in DOMAIN TextList(<<t>>).of : TextList(<<t>>).of[i] = String(t)
  <2>1. \A t : DOMAIN <<t>> = {1} /\ <<t>>[1] = t
    OBVIOUS
  <2>2. QED
    BY <2>1 DEF TextList, Array
<1>3. Scopes(TextList(<<"openid">>)) /\ SubjectTypes(TextList(<<"pairwise">>))
  <2>1. ASSUME NEW i \in DOMAIN TextList(<<"openid">>).of
        PROVE  Scope(TextList(<<"openid">>).of[i])
    <3>1. TextList(<<"openid">>).of[i] = String("openid")
      BY <1>2
    <3>2. TextList(<<"openid">>).of[i].is = "string" /\ TextList(<<"openid">>).of[i].text = "openid"
      BY <3>1 DEF String
    <3>3. QED
      BY <3>2, Zenon DEF Scope, OneOf
  <2>2. ASSUME NEW i \in DOMAIN TextList(<<"pairwise">>).of
        PROVE  SubjectType(TextList(<<"pairwise">>).of[i])
    <3>1. TextList(<<"pairwise">>).of[i] = String("pairwise")
      BY <1>2
    <3>2. QED
      BY <3>1 DEF SubjectType, OneOf, String
  <2>3. QED
    BY <1>2, <2>1, <2>2 DEF Scopes, SubjectTypes, SomeOf, ArrayOf
<1>4. SigningAlgos(TextList(<<"ES256K", "EdDSA">>))
  <2>1. DOMAIN <<"ES256K", "EdDSA">> = {1, 2}
    OBVIOUS
  <2>2. \A i \in {1, 2} : <<"ES256K", "EdDSA">>[i] \in {"ES256K", "EdDSA"}
    OBVIOUS
  <2>3. /\ TextList(<<"ES256K", "EdDSA">>).is = "array"
        /\ \A i \in DOMAIN TextList(<<"ES256K", "EdDSA">>).of :
             \E t \in {"ES256K", "EdDSA"} : TextList(<<"ES256K", "EdDSA">>).of[i] = String(t)
    BY <2>1, <2>2 DEF TextList, Array
  <2>4. QED
    BY <2>3 DEF SigningAlgos, SomeOf, ArrayOf, SigningAlgo, OneOf, String
<1>5. QED
  BY <1>1, <1>3, <1>4

LEMMA Defaults ==
  ASSUME NEW opts, Conforms(opts, IdentityOptions), NEW n \in DefaultNames
  PROVE  n \in DOMAIN IdentityMetadata /\ Fits(DiscoveryDefaults(opts).at[n], IdentityMetadata[n])
<1> DEFINE at == DiscoveryDefaults(opts).at
<1>1. ASSUME NEW k, NEW w, k \in DOMAIN IdentityOptions, Fits(w, IdentityOptions[k])
      PROVE  Fits(OrElse(opts, k, w), IdentityOptions[k])
  BY <1>1 DEF OrElse, Conforms, Has
<1>2. /\ IdentityOptions["authorizationEndpoint"] = "string"
      /\ IdentityOptions["scopesSupported"] = "some scope"
      /\ IdentityOptions["subjectTypesSupported"] = "some subject"
      /\ IdentityOptions["idTokenSigningAlgValuesSupported"] = "some algorithm"
      /\ IdentityOptions["requestObjectSigningAlgValuesSupported"] = "some algorithm"
      /\ {"authorizationEndpoint", "scopesSupported", "subjectTypesSupported",
          "idTokenSigningAlgValuesSupported", "requestObjectSigningAlgValuesSupported"}
           \subseteq DOMAIN IdentityOptions
  BY DEF IdentityOptions
<1>3. /\ IdentityMetadata["authorization_endpoint"] = "string"
      /\ IdentityMetadata["issuer"] = "issuer"
      /\ IdentityMetadata["response_types_supported"] = "some response"
      /\ IdentityMetadata["scopes_supported"] = "some scope"
      /\ IdentityMetadata["subject_types_supported"] = "some subject"
      /\ IdentityMetadata["id_token_signing_alg_values_supported"] = "some algorithm"
      /\ IdentityMetadata["request_object_signing_alg_values_supported"] = "some algorithm"
      /\ DefaultNames \subseteq DOMAIN IdentityMetadata
  BY DEF IdentityMetadata, DefaultNames
<1>4. /\ Fits(OrElse(opts, "authorizationEndpoint", String("openid:")), "string")
      /\ Fits(OrElse(opts, "scopesSupported", TextList(<<"openid">>)), "some scope")
      /\ Fits(OrElse(opts, "subjectTypesSupported", TextList(<<"pairwise">>)), "some subject")
      /\ Fits(OrElse(opts, "idTokenSigningAlgValuesSupported", TextList(<<"ES256K", "EdDSA">>)),
              "some algorithm")
      /\ Fits(OrElse(opts, "requestObjectSigningAlgValuesSupported", TextList(<<"ES256K", "EdDSA">>)),
              "some algorithm")
  BY <1>1, <1>2, KindsOfIdentity, DefaultsFit
<1>5. /\ Fits(String("https://self-issued.me/v2"), "issuer")
      /\ Fits(String("id_token"), "some response")
  BY KindsOfIdentity, DefaultsFit
<1>6. /\ at["authorization_endpoint"] = OrElse(opts, "authorizationEndpoint", String("openid:"))
      /\ at["issuer"] = String("https://self-issued.me/v2")
      /\ at["response_types_supported"] = String("id_token")
      /\ at["scopes_supported"] = OrElse(opts, "scopesSupported", TextList(<<"openid">>))
      /\ at["subject_types_supported"] = OrElse(opts, "subjectTypesSupported", TextList(<<"pairwise">>))
      /\ at["id_token_signing_alg_values_supported"] =
           OrElse(opts, "idTokenSigningAlgValuesSupported", TextList(<<"ES256K", "EdDSA">>))
      /\ at["request_object_signing_alg_values_supported"] =
           OrElse(opts, "requestObjectSigningAlgValuesSupported", TextList(<<"ES256K", "EdDSA">>))
  BY DEF DiscoveryDefaults, Object
<1> HIDE DEF at
<1>7. QED
  BY <1>3, <1>4, <1>5, <1>6 DEF DefaultNames, at

LEMMA IdentityFits ==
  ASSUME NEW opts, Conforms(opts, IdentityOptions)
  PROVE  Conforms(createDiscoveryMetadataPayload(opts), IdentityMetadata)
<1> DEFINE payload == createDiscoveryMetadataPayload(opts)
<1>1. SUFFICES ASSUME NEW n \in Keys(payload) \cap DOMAIN IdentityMetadata
               PROVE  Fits(payload.at[n], IdentityMetadata[n])
  BY DEF Conforms
<1>2. /\ DOMAIN IdentityMetadata = DefaultNames \cup {"subject_syntax_types_supported"}
      /\ DefaultNames \cap DOMAIN DiscoveryNames = {}
      /\ IdentityMetadata["subject_syntax_types_supported"] = "strings"
  BY DEF IdentityMetadata, DefaultNames, DiscoveryNames
<1>3. CASE n \in DefaultNames
  <2>1. n \in MetadataFields
    BY <1>3 DEF DefaultNames, MetadataFields
  <2>2. payload.at[n] = DiscoveryDefaults(opts).at[n]
    BY <1>2, <1>3, <2>1, DiscoveryFields DEF Has
  <2>3. QED
    BY <1>3, <2>2, Defaults
<1>4. CASE n = "subject_syntax_types_supported"
  <2>1. /\ "subject_syntax_types_supported" \in DOMAIN DiscoveryNames
        /\ DiscoveryNames["subject_syntax_types_supported"] = "subjectSyntaxTypesSupported"
    BY DEF DiscoveryNames
  <2>2. /\ "subjectSyntaxTypesSupported" \in DOMAIN IdentityOptions
        /\ IdentityOptions["subjectSyntaxTypesSupported"] = "strings"
    BY DEF IdentityOptions
  <2>3. NamedAlike(n, IdentityOptions, IdentityMetadata)
    BY <1>2, <1>4, <2>1, <2>2 DEF NamedAlike, DefaultNames
  <2>4. QED
    BY <2>3, FitsByName
<1>5. QED
  BY <1>2, <1>3, <1>4

\* Metadata made from options that satisfy the schema satisfy theirs.
LEMMA DiscoveryPublished ==
  ASSUME NEW opts, ResponseRegistrationOpts(opts)
  PROVE  DiscoveryMetadataPayload(createDiscoveryMetadataPayload(opts))
<1> DEFINE payload == createDiscoveryMetadataPayload(opts)
<1>1. CommonMetadata(payload)
  <2>1. CommonOptions(opts)
    BY DEF ResponseRegistrationOpts, JWT_VCDiscoveryMetadataOpts, DiscoveryMetadataOptsVID1,
           DiscoveryMetadataOptsVD11
  <2>2. IsObject(payload)
    BY DEF createDiscoveryMetadataPayload, Spread, Object, IsObject
  <2>3. Conforms(payload, IdentityMetadata)
    BY <2>1, IdentityFits DEF CommonOptions
  <2>4. Conforms(payload, EndpointMetadata)
    BY <2>1, EndpointsNamed, FitsByName DEF CommonOptions, Conforms
  <2>5. Conforms(payload, AlgorithmMetadata)
    BY <2>1, AlgorithmsNamed, FitsByName DEF CommonOptions, Conforms
  <2>6. Conforms(payload, ClaimMetadata)
    BY <2>1, ClaimsNamed, FitsByName DEF CommonOptions, Conforms
  <2>7. QED
    BY <2>2, <2>3, <2>4, <2>5, <2>6 DEF CommonMetadata
<1>2. \A n \in {"redirectUris", "vp_formats_supported"} : n \notin Keys(payload)
  <2>1. \A n \in {"redirectUris", "vp_formats_supported"} :
          n \in MetadataFields /\ n \notin DOMAIN DiscoveryNames /\ n \notin DefaultNames
    BY DEF MetadataFields, DiscoveryNames, DefaultNames
  <2>2. QED
    BY <2>1, DiscoveryFields DEF Has
<1>3. CASE Conforms(opts, ClientOptions)
  <2>1. Conforms(payload, ClientMetadata)
    BY <1>2, <1>3, ClientsNamed, FitsByName DEF Conforms
  <2>2. QED
    BY <1>1, <2>1 DEF DiscoveryMetadataPayload, DiscoveryMetadataPayloadVID1
<1>4. CASE DiscoveryMetadataOptsVD11(opts)
  <2> DEFINE options == [idTokenTypesSupported |-> "some token type", vpFormatsSupported |-> "format"]
             table == [id_token_types_supported |-> "some token type", vp_formats_supported |-> "format"]
  <2>1. /\ DOMAIN table = {"id_token_types_supported", "vp_formats_supported"}
        /\ table["id_token_types_supported"] = "some token type"
        /\ "idTokenTypesSupported" \in DOMAIN options
        /\ options["idTokenTypesSupported"] = "some token type"
    OBVIOUS
  <2>2. Conforms(opts, options)
    BY <1>4 DEF DiscoveryMetadataOptsVD11
  <2>3. /\ "id_token_types_supported" \in DOMAIN DiscoveryNames \ DefaultNames
        /\ DiscoveryNames["id_token_types_supported"] = "idTokenTypesSupported"
    BY DEF DiscoveryNames, DefaultNames
  <2> HIDE DEF options, table
  <2>4. NamedAlike("id_token_types_supported", options, table)
    BY <2>1, <2>3 DEF NamedAlike
  <2>5. Conforms(payload, table)
    BY <1>2, <2>1, <2>2, <2>4, FitsByName DEF Conforms
  <2>6. QED
    BY <1>1, <2>5 DEF DiscoveryMetadataPayload, DiscoveryMetadataPayloadVD11, table
<1>5. QED
  BY <1>3, <1>4 DEF ResponseRegistrationOpts, JWT_VCDiscoveryMetadataOpts, DiscoveryMetadataOptsVID1

-----------------------------------------------------------------------------
LEMMA RPFields ==
  ASSUME NEW opts, NEW n \in MetadataFields
  PROVE  LET payload == createRPRegistrationMetadataPayload(opts)
         IN  IF n = "subject_syntax_types_supported"
               THEN /\ Has(payload, n)
                    /\ payload.at[n] = OrElse(opts, "subjectSyntaxTypesSupported",
                                              TextList(<<"did:web:", "did:ion:">>))
               ELSE Has(payload, n) =>
                      /\ n \in DOMAIN RPMetadataNames /\ Has(opts, RPMetadataNames[n])
                      /\ payload.at[n] = opts.at[RPMetadataNames[n]]
<1> DEFINE payload == createRPRegistrationMetadataPayload(opts)
           renamed == Renamed(opts, RPMetadataNames)
           types == OrElse(opts, "subjectSyntaxTypesSupported", TextList(<<"did:web:", "did:ion:">>))
           fields == With(renamed, "subject_syntax_types_supported", types)
           tagged == getLanguageTaggedPropertiesMapped(opts, languageTagEnabledFieldsNamesMapping)
<1>1. payload = Spread(fields, tagged)
  BY DEF createRPRegistrationMetadataPayload
<1>2. ~Has(tagged, n)
  BY TaggedFields
<1>3. /\ Has(renamed, n) <=> n \in DOMAIN RPMetadataNames /\ At(opts, RPMetadataNames[n]) # Undef
      /\ Has(renamed, n) => renamed.at[n] = At(opts, RPMetadataNames[n])
  BY Renaming
<1> HIDE DEF renamed, tagged, types
<1>4. /\ Has(fields, n) <=> Has(renamed, n) \/ n = "subject_syntax_types_supported"
      /\ Has(fields, n) => fields.at[n] = IF n = "subject_syntax_types_supported" THEN types ELSE renamed.at[n]
  BY DEF With, Object, Has, Keys
<1> HIDE DEF payload, fields
<1>5. /\ Has(payload, n) <=> Has(fields, n)
      /\ Has(payload, n) => payload.at[n] = fields.at[n]
  BY <1>1, <1>2, Spreading DEF At
<1>6. QED
  BY <1>3, <1>4, <1>5 DEF payload, types, At

LEMMA RPPublished ==
  ASSUME NEW opts, ClientMetadataOpts(opts)
  PROVE  RPRegistrationMetadataPayload(createRPRegistrationMetadataPayload(opts))
<1> DEFINE payload == createRPRegistrationMetadataPayload(opts)
           lists == {"id_token_signing_alg_values_supported", "request_object_signing_alg_values_supported",
                     "response_types_supported", "scopes_supported", "subject_types_supported"}
<1>1. /\ RPMetadataNames["id_token_signing_alg_values_supported"] = "idTokenSigningAlgValuesSupported"
      /\ RPMetadataNames["request_object_signing_alg_values_supported"] = "requestObjectSigningAlgValuesSupported"
      /\ RPMetadataNames["response_types_supported"] = "responseTypesSupported"
      /\ RPMetadataNames["scopes_supported"] = "scopesSupported"
      /\ RPMetadataNames["subject_types_supported"] = "subjectTypesSupported"
  BY DEF RPMetadataNames
<1>2. /\ lists \subseteq MetadataFields /\ "subject_syntax_types_supported" \in MetadataFields
      /\ "subject_syntax_types_supported" \notin lists
  <2>1. lists \subseteq MetadataFields
    BY DEF MetadataFields, RPMetadataNames
  <2>2. "subject_syntax_types_supported" \in MetadataFields
    BY DEF MetadataFields, DiscoveryNames
  <2>3. QED
    BY <2>1, <2>2
<1>3. \A n \in lists \cap Keys(payload) :
        Has(opts, RPMetadataNames[n]) /\ payload.at[n] = opts.at[RPMetadataNames[n]]
  BY <1>2, RPFields DEF Has
<1>4. IsObject(payload)
  BY MetadataIsObject
<1>5. Properties(payload, {"id_token_signing_alg_values_supported",
                           "request_object_signing_alg_values_supported"}, SigningAlgos)
  BY <1>1, <1>3 DEF Properties, ClientMetadataOpts, Has
<1>6. Properties(payload, {"response_types_supported"}, ResponseTypes)
  BY <1>1, <1>3 DEF Properties, ClientMetadataOpts, Has
<1>7. Properties(payload, {"scopes_supported"}, Scopes)
  BY <1>1, <1>3 DEF Properties, ClientMetadataOpts, Has
<1>8. Properties(payload, {"subject_types_supported"}, SubjectTypes)
  BY <1>1, <1>3 DEF Properties, ClientMetadataOpts, Has
<1>9. Properties(payload, {"subject_syntax_types_supported"}, Strings)
  <2> DEFINE types == OrElse(opts, "subjectSyntaxTypesSupported", TextList(<<"did:web:", "did:ion:">>))
  <2>1. payload.at["subject_syntax_types_supported"] = types
    BY <1>2, RPFields
  <2>2. Strings(TextList(<<"did:web:", "did:ion:">>))
    BY DEF Strings, ArrayOf, TextList, Array, IsString, String
  <2>3. Strings(types)
    BY <2>2 DEF OrElse, ClientMetadataOpts, Properties, Has
  <2>4. QED
    BY <2>1, <2>3 DEF Properties
<1>10. QED
  BY <1>4, <1>5, <1>6, <1>7, <1>8, <1>9 DEF RPRegistrationMetadataPayload

\* Both keep the names in other languages.
LEMMA LanguagesPublished ==
  ASSUME NEW opts, NEW k \in Keys(opts) \cap NamesInLanguages, TagOf[k] \in ValidTags
  PROVE  /\ At(createDiscoveryMetadataPayload(opts), TaggedName(k)) = opts.at[k]
         /\ At(createRPRegistrationMetadataPayload(opts), TaggedName(k)) = opts.at[k]
  BY TaggedFields, Spreading DEF createDiscoveryMetadataPayload, createRPRegistrationMetadataPayload

-----------------------------------------------------------------------------
(***************************************************************************)
(* What a schema says of a value it says of what is read of it: a relation *)
(* between values that keeps kinds, keys and members, and changes texts by *)
(* Unescaped at most, keeps every predicate of the schemas of requests.    *)
(***************************************************************************)
Simulates(R) ==
  \A x, y : <<x, y>> \in R =>
    /\ x.is = y.is /\ Keys(x) = Keys(y)
    /\ \A k \in Keys(y) : <<x.at[k], y.at[k]>> \in R
    /\ y.is = "array" => DOMAIN x.of = DOMAIN y.of /\ \A i \in DOMAIN y.of : <<x.of[i], y.of[i]>> \in R
    /\ y.is = "string" => x.text \in {y.text, Unescaped(y.text)}
    /\ y.is \notin {"string", "array", "object"} => x = y

LEMMA ReadingSimulates ==
  ASSUME NEW v, JsonValue(v)
  PROVE  \E R : Simulates(R) /\ <<Reread(v), v>> \in R
<1> DEFINE parts == PartsOf(v)
<1>1. PICK read : /\ read = [n \in 0..Depth |-> ReadOnce(parts, read, n)]
                  /\ Reread(v) = WithMembers(v, read[Depth])
  BY RereadUnfolds
<1>2. \A n \in 0..12 : \A w \in parts : read[n][w] = IF n = 0 THEN w ELSE WithMembers(w, read[n - 1])
  <2>1. \A n \in 0..12 : read[n] = ReadOnce(parts, read, n)
    BY <1>1 DEF Depth
  <2>2. QED
    BY <2>1 DEF ReadOnce
<1>3. v \in parts /\ \A w \in parts : Members(w) \subseteq parts
  BY PartsOfMembers DEF JsonValue
<1> HIDE DEF parts
<1> DEFINE R == {<<w, w>> : w \in parts}
                  \cup {<<WithMembers(w, read[n]), w>> : n \in 0..12, w \in parts}
<1>4. ASSUME NEW n \in 0..12, NEW w \in parts PROVE <<read[n][w], w>> \in R
  <2>1. CASE n = 0
    BY <1>2, <2>1
  <2>2. CASE n # 0
    <3>1. n - 1 \in 0..12 /\ read[n][w] = WithMembers(w, read[n - 1])
      BY <1>2, <2>2
    <3>2. QED
      BY <3>1
  <2>3. QED
    BY <2>1, <2>2
<1>5. ASSUME NEW w \in parts
      PROVE  /\ \A k \in Keys(w) : w.at[k] \in parts
             /\ w.is = "array" => \A i \in DOMAIN w.of : w.of[i] \in parts
  BY <1>3 DEF Members, Keys
<1> DEFINE Fine(x, y) ==
    /\ x.is = y.is /\ Keys(x) = Keys(y)
    /\ \A k \in Keys(y) : <<x.at[k], y.at[k]>> \in R
    /\ y.is = "array" => DOMAIN x.of = DOMAIN y.of /\ \A i \in DOMAIN y.of : <<x.of[i], y.of[i]>> \in R
    /\ y.is = "string" => x.text \in {y.text, Unescaped(y.text)}
    /\ y.is \notin {"string", "array", "object"} => x = y
<1>6. ASSUME NEW w \in parts PROVE <<w, w>> \in R
  OBVIOUS
<1>7. ASSUME NEW w \in parts PROVE Fine(w, w)
  <2> HIDE DEF R
  <2>1. QED
    BY <1>5, <1>6
<1>8. ASSUME NEW n \in 0..12, NEW w \in parts PROVE Fine(WithMembers(w, read[n]), w)
  <2> HIDE DEF R
  <2> DEFINE x == WithMembers(w, read[n])
  <2>1. CASE w.is = "string"
    BY <2>1 DEF WithMembers, String, Keys
  <2>2. CASE w.is = "array"
    <3>1. x = Array([i \in DOMAIN w.of |-> read[n][w.of[i]]])
      BY <2>2 DEF WithMembers
    <3>2. \A i \in DOMAIN w.of : <<read[n][w.of[i]], w.of[i]>> \in R
      BY <1>4, <1>5, <2>2
    <3>3. QED
      BY <2>2, <3>1, <3>2 DEF Array, Keys
  <2>3. CASE w.is = "object"
    <3>1. x = Object([k \in DOMAIN w.at |-> read[n][w.at[k]]])
      BY <2>3 DEF WithMembers
    <3>2. \A k \in DOMAIN w.at : <<read[n][w.at[k]], w.at[k]>> \in R
      BY <1>4, <1>5, <2>3 DEF Keys
    <3>3. QED
      BY <2>3, <3>1, <3>2 DEF Object, Keys
  <2>4. CASE w.is \notin {"string", "array", "object"}
    BY <2>4 DEF WithMembers, Keys
  <2>5. QED
    BY <2>1, <2>2, <2>3, <2>4
<1>9. \A x, y : <<x, y>> \in R => Fine(x, y)
  <2> HIDE DEF Fine
  <2>1. ASSUME NEW x, NEW y, <<x, y>> \in R PROVE Fine(x, y)
    <3>1. \/ \E w \in parts : <<x, y>> = <<w, w>>
          \/ \E n \in 0..12, w \in parts : <<x, y>> = <<WithMembers(w, read[n]), w>>
      BY <2>1
    <3>2. \/ \E w \in parts : x = w /\ y = w
          \/ \E n \in 0..12, w \in parts : x = WithMembers(w, read[n]) /\ y = w
      BY <3>1
    <3>3. QED
      BY <1>7, <1>8, <3>2
  <2>2. QED
    BY <2>1
<1>10. <<Reread(v), v>> \in R
  <2>1. 12 \in 0..12
    OBVIOUS
  <2>2. QED
    BY <1>1, <1>3, <2>1 DEF Depth
<1> HIDE DEF R
<1>11. Simulates(R)
  BY <1>9 DEF Simulates
<1>12. QED
  BY <1>10, <1>11

\* What a relation of this kind says of two values.
LEMMA Related ==
  ASSUME NEW R, Simulates(R), NEW x, NEW y, <<x, y>> \in R
  PROVE  /\ x.is = y.is /\ Keys(x) = Keys(y)
         /\ \A k \in Keys(y) : <<x.at[k], y.at[k]>> \in R
         /\ y.is = "array" => DOMAIN x.of = DOMAIN y.of /\ \A i \in DOMAIN y.of : <<x.of[i], y.of[i]>> \in R
         /\ y.is = "string" => x.text \in {y.text, Unescaped(y.text)}
         /\ y.is \notin {"string", "array", "object"} => x = y
  BY DEF Simulates

LEMMA SimpleKept ==
  ASSUME NEW R, Simulates(R), NEW x, NEW y, <<x, y>> \in R
  PROVE  /\ IsString(x) <=> IsString(y)
         /\ IsNumber(x) <=> IsNumber(y)
         /\ IsBoolean(x) <=> IsBoolean(y)
         /\ IsObject(x) <=> IsObject(y)
         /\ Constant(x) <=> Constant(y)
         /\ Strings(x) <=> Strings(y)
         /\ Enumeration(x) <=> Enumeration(y)
         /\ IsTrue(x) <=> IsTrue(y)
<1>1. /\ x.is = y.is
      /\ y.is = "string" => x.text \in {y.text, Unescaped(y.text)}
      /\ y.is = "array" => DOMAIN x.of = DOMAIN y.of /\ \A i \in DOMAIN y.of : x.of[i].is = y.of[i].is
  <2>1. y.is = "array" => \A i \in DOMAIN y.of : <<x.of[i], y.of[i]>> \in R
    BY Related
  <2>2. \A u, w : <<u, w>> \in R => u.is = w.is
    BY Related
  <2>3. y.is = "array" => \A i \in DOMAIN y.of : x.of[i].is = y.of[i].is
    BY <2>1, <2>2
  <2>4. QED
    BY <2>3, Related
<1>2. Strings(x) <=> Strings(y)
  BY <1>1 DEF Strings, ArrayOf, IsString
<1>3. Enumeration(x) <=> Enumeration(y)
  BY <1>1 DEF Enumeration, ArrayOf, EnumElement
<1>4. IsTrue(x) <=> IsTrue(y)
  <2>1. \A t : Unescaped(t) = "" <=> t = ""
    BY DEF Unescaped, EscapedLetter, EscapedQuote
  <2>2. CASE y.is = "string"
    <3>1. x.is = "string" /\ (x.text = "" <=> y.text = "")
      BY <1>1, <2>1, <2>2
    <3>2. QED
      BY <2>2, <3>1 DEF IsTrue
  <2>3. CASE y.is \in {"array", "object"}
    <3>1. x.is \in {"array", "object"}
      BY <1>1, <2>3
    <3>2. QED
      BY <2>3, <3>1 DEF IsTrue
  <2>4. CASE y.is \notin {"string", "array", "object"}
    BY <2>4, Related
  <2>5. QED
    BY <2>2, <2>3, <2>4
<1>5. QED
  BY <1>1, <1>2, <1>3, <1>4 DEF IsString, IsNumber, IsBoolean, IsObject, Constant

LEMMA NamesKept ==
  ASSUME NEW R, Simulates(R), NEW x, NEW y, <<x, y>> \in R
  PROVE  /\ Rules(x) <=> Rules(y)
         /\ Optionality(x) <=> Optionality(y)
         /\ Directives(x) <=> Directives(y)
<1> DEFINE names == {"all", "pick", "required", "preferred", "allowed", "disallowed"}
<1>1. x.is = y.is /\ (y.is = "string" => x.text \in {y.text, Unescaped(y.text)})
  BY Related
<1>2. Unescaped(y.text) = y.text
        \/ (y.text \in {"%41", "%22"} /\ Unescaped(y.text) \in {"A", "\""})
  BY DEF Unescaped, EscapedLetter, EscapedQuote
<1>3. y.is = "string" => x.text = y.text \/ (x.text \notin names /\ y.text \notin names)
  BY <1>1, <1>2
<1>4. ASSUME NEW S, S \subseteq names
      PROVE  OneOf(x, S) <=> OneOf(y, S)
  BY <1>1, <1>3, <1>4 DEF OneOf
<1>5. QED
  BY <1>4 DEF Rules, Optionality, Directives

LEMMA JwtObjectKept ==
  ASSUME NEW R, Simulates(R), NEW x, NEW y, <<x, y>> \in R
  PROVE  JwtObject(x) <=> JwtObject(y)
<1>1. x.is = y.is /\ Keys(x) = Keys(y) /\ \A k \in Keys(y) : <<x.at[k], y.at[k]>> \in R
  BY Related
<1>2. \A k \in Keys(y) : Strings(x.at[k]) <=> Strings(y.at[k])
  BY <1>1, SimpleKept
<1>3. QED
  BY <1>1, <1>2 DEF JwtObject, Closed, Requires

LEMMA LdpObjectKept ==
  ASSUME NEW R, Simulates(R), NEW x, NEW y, <<x, y>> \in R
  PROVE  LdpObject(x) <=> LdpObject(y)
<1>1. x.is = y.is /\ Keys(x) = Keys(y) /\ \A k \in Keys(y) : <<x.at[k], y.at[k]>> \in R
  BY Related
<1>2. \A k \in Keys(y) : Strings(x.at[k]) <=> Strings(y.at[k])
  BY <1>1, SimpleKept
<1>3. QED
  BY <1>1, <1>2 DEF LdpObject, Closed, Requires

LEMMA FormatKept ==
  ASSUME NEW R, Simulates(R), NEW x, NEW y, <<x, y>> \in R
  PROVE  Format(x) <=> Format(y)
<1>1. x.is = y.is /\ Keys(x) = Keys(y) /\ \A k \in Keys(y) : <<x.at[k], y.at[k]>> \in R
  BY Related
<1>2. \A k \in Keys(y) : /\ JwtObject(x.at[k]) <=> JwtObject(y.at[k])
                         /\ LdpObject(x.at[k]) <=> LdpObject(y.at[k])
  BY <1>1, JwtObjectKept, LdpObjectKept
<1>3. /\ Properties(x, JwtFormats, JwtObject) <=> Properties(y, JwtFormats, JwtObject)
      /\ Properties(x, LdpFormats, LdpObject) <=> Properties(y, LdpFormats, LdpObject)
  BY <1>1, <1>2 DEF Properties
<1>4. QED
  BY <1>1, <1>2, <1>3 DEF Format, Closed

LEMMA FlatRequirementKept ==
  ASSUME NEW R, Simulates(R), NEW x, NEW y, <<x, y>> \in R
  PROVE  FlatRequirement(x) <=> FlatRequirement(y)
<1>1. x.is = y.is /\ Keys(x) = Keys(y) /\ \A k \in Keys(y) : <<x.at[k], y.at[k]>> \in R
  BY Related
<1>2. \A k \in Keys(y) : /\ IsString(x.at[k]) <=> IsString(y.at[k])
                         /\ IsNumber(x.at[k]) <=> IsNumber(y.at[k])
                         /\ Rules(x.at[k]) <=> Rules(y.at[k])
  BY <1>1, SimpleKept, NamesKept
<1>3. /\ Properties(x, {"name", "purpose", "from"}, IsString) <=> Properties(y, {"name", "purpose", "from"}, IsString)
      /\ Properties(x, {"count", "min", "max"}, IsNumber) <=> Properties(y, {"count", "min", "max"}, IsNumber)
  BY <1>1, <1>2 DEF Properties
<1>4. QED
  BY <1>1, <1>2, <1>3 DEF FlatRequirement, Closed, Requires

LEMMA NestedRequirementKept ==
  ASSUME NEW R, Simulates(R), NEW x, NEW y, <<x, y>> \in R
  PROVE  NestedRequirement(x) <=> NestedRequirement(y)
<1>1. x.is = y.is /\ Keys(x) = Keys(y) /\ \A k \in Keys(y) : <<x.at[k], y.at[k]>> \in R
  BY Related
<1>2. \A k \in Keys(y) : x.at[k].is = y.at[k].is /\ (y.at[k].is = "array" => DOMAIN x.at[k].of = DOMAIN y.at[k].of)
  <2>1. \A u, w : <<u, w>> \in R => u.is = w.is /\ (w.is = "array" => DOMAIN u.of = DOMAIN w.of)
    BY Related
  <2>2. QED
    BY <1>1, <2>1
<1>3. FlatRequirement(x) <=> FlatRequirement(y)
  BY FlatRequirementKept
<1>4. QED
  BY <1>1, <1>2, <1>3 DEF NestedRequirement, Properties, ArrayOf, NoSubmissionRequirement

LEMMA SubmissionRequirementKept ==
  ASSUME NEW R, Simulates(R), NEW x, NEW y, <<x, y>> \in R
  PROVE  SubmissionRequirement(x) <=> SubmissionRequirement(y)
<1> DEFINE nested(w) == ArrayOf(w, NestedRequirement)
<1>1. x.is = y.is /\ Keys(x) = Keys(y) /\ \A k \in Keys(y) : <<x.at[k], y.at[k]>> \in R
  BY Related
<1>2. \A u, w : <<u, w>> \in R => (NestedRequirement(u) <=> NestedRequirement(w))
  BY NestedRequirementKept
<1>3. \A u, w : <<u, w>> \in R => (nested(u) <=> nested(w))
  <2>1. SUFFICES ASSUME NEW u, NEW w, <<u, w>> \in R PROVE nested(u) <=> nested(w)
    OBVIOUS
  <2>2. /\ u.is = w.is
        /\ w.is = "array" => DOMAIN u.of = DOMAIN w.of /\ \A i \in DOMAIN w.of : <<u.of[i], w.of[i]>> \in R
    BY <2>1, Related
  <2>3. QED
    BY <1>2, <2>2 DEF ArrayOf
<1>4. \A k \in Keys(y) : nested(x.at[k]) <=> nested(y.at[k])
  BY <1>1, <1>3
<1>5. FlatRequirement(x) <=> FlatRequirement(y)
  BY FlatRequirementKept
<1> HIDE DEF nested
<1>6. Properties(x, {"from_nested"}, nested) <=> Properties(y, {"from_nested"}, nested)
  BY <1>1, <1>4 DEF Properties
<1>7. QED
  BY <1>5, <1>6 DEF SubmissionRequirement, nested

LEMMA SchemaKept ==
  ASSUME NEW R, Simulates(R), NEW x, NEW y, <<x, y>> \in R
  PROVE  Schema(x) <=> Schema(y)
<1>1. x.is = y.is /\ Keys(x) = Keys(y) /\ \A k \in Keys(y) : <<x.at[k], y.at[k]>> \in R
  BY Related
<1>2. \A k \in Keys(y) : /\ IsString(x.at[k]) <=> IsString(y.at[k])
                         /\ IsBoolean(x.at[k]) <=> IsBoolean(y.at[k])
  BY <1>1, SimpleKept
<1>3. /\ Properties(x, {"uri"}, IsString) <=> Properties(y, {"uri"}, IsString)
      /\ Properties(x, {"required"}, IsBoolean) <=> Properties(y, {"required"}, IsBoolean)
  BY <1>1, <1>2 DEF Properties
<1>4. QED
  BY <1>1, <1>2, <1>3 DEF Schema, Closed, Requires

LEMMA PdStatusKept ==
  ASSUME NEW R, Simulates(R), NEW x, NEW y, <<x, y>> \in R
  PROVE  PdStatus(x) <=> PdStatus(y)
<1>1. x.is = y.is /\ Keys(x) = Keys(y) /\ \A k \in Keys(y) : <<x.at[k], y.at[k]>> \in R
  BY Related
<1>2. \A k \in Keys(y) : Directives(x.at[k]) <=> Directives(y.at[k])
  BY <1>1, NamesKept
<1>3. Properties(x, {"directive"}, Directives) <=> Properties(y, {"directive"}, Directives)
  BY <1>1, <1>2 DEF Properties
<1>4. QED
  BY <1>1, <1>2, <1>3 DEF PdStatus, Closed

LEMMA StatusesKept ==
  ASSUME NEW R, Simulates(R), NEW x, NEW y, <<x, y>> \in R
  PROVE  Statuses(x) <=> Statuses(y)
<1>1. x.is = y.is /\ Keys(x) = Keys(y) /\ \A k \in Keys(y) : <<x.at[k], y.at[k]>> \in R
  BY Related
<1>2. \A k \in Keys(y) : PdStatus(x.at[k]) <=> PdStatus(y.at[k])
  BY <1>1, PdStatusKept
<1>3. Properties(x, {"active", "suspended", "revoked"}, PdStatus) <=> Properties(y, {"active", "suspended", "revoked"}, PdStatus)
  BY <1>1, <1>2 DEF Properties
<1>4. QED
  BY <1>1, <1>2, <1>3 DEF Statuses, Closed

LEMMA HolderSubjectKept ==
  ASSUME NEW R, Simulates(R), NEW x, NEW y, <<x, y>> \in R
  PROVE  HolderSubject(x) <=> HolderSubject(y)
<1>1. x.is = y.is /\ Keys(x) = Keys(y) /\ \A k \in Keys(y) : <<x.at[k], y.at[k]>> \in R
  BY Related
<1>2. \A k \in Keys(y) : /\ Strings(x.at[k]) <=> Strings(y.at[k])
                         /\ Optionality(x.at[k]) <=> Optionality(y.at[k])
  BY <1>1, SimpleKept, NamesKept
<1>3. QED
  BY <1>1, <1>2 DEF HolderSubject, Closed, Requires

LEMMA FilterKept ==
  ASSUME NEW R, Simulates(R), NEW x, NEW y, <<x, y>> \in R, NEW texts
  PROVE  FilterWith(x, texts) <=> FilterWith(y, texts)
<1>1. x.is = y.is /\ Keys(x) = Keys(y) /\ \A k \in Keys(y) : <<x.at[k], y.at[k]>> \in R
  BY Related
<1>2. \A k \in Keys(y) : /\ Constant(x.at[k]) <=> Constant(y.at[k])
                         /\ Enumeration(x.at[k]) <=> Enumeration(y.at[k])
                         /\ IsNumber(x.at[k]) <=> IsNumber(y.at[k])
                         /\ IsObject(x.at[k]) <=> IsObject(y.at[k])
                         /\ IsString(x.at[k]) <=> IsString(y.at[k])
  BY <1>1, SimpleKept
<1>3. /\ Properties(x, Bounds \cup {"_const"}, Constant) <=> Properties(y, Bounds \cup {"_const"}, Constant)
      /\ Properties(x, {"_enum"}, Enumeration) <=> Properties(y, {"_enum"}, Enumeration)
      /\ Properties(x, {"minLength", "maxLength"}, IsNumber) <=> Properties(y, {"minLength", "maxLength"}, IsNumber)
      /\ Properties(x, {"not"}, IsObject) <=> Properties(y, {"not"}, IsObject)
      /\ Properties(x, texts, IsString) <=> Properties(y, texts, IsString)
  BY <1>1, <1>2 DEF Properties
<1>4. QED
  BY <1>1, <1>3 DEF FilterWith, Closed, Requires

LEMMA FiltersKept ==
  ASSUME NEW R, Simulates(R), NEW x, NEW y, <<x, y>> \in R
  PROVE  (FilterV1(x) <=> FilterV1(y)) /\ (FilterV2(x) <=> FilterV2(y))
  BY FilterKept DEF FilterV1, FilterV2

LEMMA FieldBesidesFilterKept ==
  ASSUME NEW R, Simulates(R), NEW x, NEW y, <<x, y>> \in R
  PROVE  FieldBesidesFilter(x) <=> FieldBesidesFilter(y)
<1>1. x.is = y.is /\ Keys(x) = Keys(y) /\ \A k \in Keys(y) : <<x.at[k], y.at[k]>> \in R
  BY Related
<1>2. \A k \in Keys(y) : /\ IsString(x.at[k]) <=> IsString(y.at[k])
                         /\ Strings(x.at[k]) <=> Strings(y.at[k])
                         /\ Optionality(x.at[k]) <=> Optionality(y.at[k])
  BY <1>1, SimpleKept, NamesKept
<1>3. /\ Properties(x, {"id", "purpose"}, IsString) <=> Properties(y, {"id", "purpose"}, IsString)
      /\ Properties(x, {"path"}, Strings) <=> Properties(y, {"path"}, Strings)
      /\ Properties(x, {"predicate"}, Optionality) <=> Properties(y, {"predicate"}, Optionality)
  BY <1>1, <1>2 DEF Properties
<1>4. QED
  BY <1>1, <1>2, <1>3 DEF FieldBesidesFilter, Closed

LEMMA FieldV1Kept ==
  ASSUME NEW R, Simulates(R), NEW x, NEW y, <<x, y>> \in R
  PROVE  FieldV1(x) <=> FieldV1(y)
<1>1. x.is = y.is /\ Keys(x) = Keys(y) /\ \A k \in Keys(y) : <<x.at[k], y.at[k]>> \in R
  BY Related
<1>2. \A k \in Keys(y) : FilterV1(x.at[k]) <=> FilterV1(y.at[k])
  BY <1>1, FiltersKept
<1>3. (FieldBesidesFilter(x) <=> FieldBesidesFilter(y))
  BY FieldBesidesFilterKept
<1>4. Properties(x, {"filter"}, FilterV1) <=> Properties(y, {"filter"}, FilterV1)
  BY <1>1, <1>2 DEF Properties
<1>5. QED
  BY <1>1, <1>2, <1>3, <1>4 DEF FieldV1

LEMMA FieldsV1Kept ==
  ASSUME NEW R, Simulates(R), NEW x, NEW y, <<x, y>> \in R
  PROVE  FieldsV1(x) <=> FieldsV1(y)
<1>1. \A u, w : <<u, w>> \in R => (FieldV1(u) <=> FieldV1(w))
  BY FieldV1Kept
<1>2. /\ x.is = y.is
      /\ y.is = "array" => DOMAIN x.of = DOMAIN y.of /\ \A i \in DOMAIN y.of : <<x.of[i], y.of[i]>> \in R
  BY Related
<1>3. QED
  BY <1>1, <1>2 DEF FieldsV1, ArrayOf

LEMMA FieldV2Kept ==
  ASSUME NEW R, Simulates(R), NEW x, NEW y, <<x, y>> \in R
  PROVE  FieldV2(x) <=> FieldV2(y)
<1>1. x.is = y.is /\ Keys(x) = Keys(y) /\ \A k \in Keys(y) : <<x.at[k], y.at[k]>> \in R
  BY Related
<1>2. \A k \in Keys(y) : FilterV2(x.at[k]) <=> FilterV2(y.at[k])
  BY <1>1, FiltersKept
<1>3. (FieldBesidesFilter(x) <=> FieldBesidesFilter(y))
  BY FieldBesidesFilterKept
<1>4. Properties(x, {"filter"}, FilterV2) <=> Properties(y, {"filter"}, FilterV2)
  BY <1>1, <1>2 DEF Properties
<1>5. QED
  BY <1>1, <1>2, <1>3, <1>4 DEF FieldV2

LEMMA FieldsV2Kept ==
  ASSUME NEW R, Simulates(R), NEW x, NEW y, <<x, y>> \in R
  PROVE  FieldsV2(x) <=> FieldsV2(y)
<1>1. \A u, w : <<u, w>> \in R => (FieldV2(u) <=> FieldV2(w))
  BY FieldV2Kept
<1>2. /\ x.is = y.is
      /\ y.is = "array" => DOMAIN x.of = DOMAIN y.of /\ \A i \in DOMAIN y.of : <<x.of[i], y.of[i]>> \in R
  BY Related
<1>3. QED
  BY <1>1, <1>2 DEF FieldsV2, ArrayOf

LEMMA HolderSubjectsKept ==
  ASSUME NEW R, Simulates(R), NEW x, NEW y, <<x, y>> \in R
  PROVE  HolderSubjects(x) <=> HolderSubjects(y)
<1>1. \A u, w : <<u, w>> \in R => (HolderSubject(u) <=> HolderSubject(w))
  BY HolderSubjectKept
<1>2. /\ x.is = y.is
      /\ y.is = "array" => DOMAIN x.of = DOMAIN y.of /\ \A i \in DOMAIN y.of : <<x.of[i], y.of[i]>> \in R
  BY Related
<1>3. QED
  BY <1>1, <1>2 DEF HolderSubjects, ArrayOf

LEMMA ConstraintsBesidesFieldsKept ==
  ASSUME NEW R, Simulates(R), NEW x, NEW y, <<x, y>> \in R
  PROVE  ConstraintsBesidesFields(x) <=> ConstraintsBesidesFields(y)
<1>1. x.is = y.is /\ Keys(x) = Keys(y) /\ \A k \in Keys(y) : <<x.at[k], y.at[k]>> \in R
  BY Related
<1>2. \A k \in Keys(y) : /\ Optionality(x.at[k]) <=> Optionality(y.at[k])
                         /\ Statuses(x.at[k]) <=> Statuses(y.at[k])
                         /\ HolderSubjects(x.at[k]) <=> HolderSubjects(y.at[k])
  BY <1>1, NamesKept, StatusesKept, HolderSubjectsKept
<1>3. /\ Properties(x, {"limit_disclosure", "subject_is_issuer"}, Optionality) <=> Properties(y, {"limit_disclosure", "subject_is_issuer"}, Optionality)
      /\ Properties(x, {"statuses"}, Statuses) <=> Properties(y, {"statuses"}, Statuses)
      /\ Properties(x, {"is_holder", "same_subject"}, HolderSubjects) <=> Properties(y, {"is_holder", "same_subject"}, HolderSubjects)
  BY <1>1, <1>2 DEF Properties
<1>4. QED
  BY <1>1, <1>2, <1>3 DEF ConstraintsBesidesFields, Closed

LEMMA ConstraintsV1Kept ==
  ASSUME NEW R, Simulates(R), NEW x, NEW y, <<x, y>> \in R
  PROVE  ConstraintsV1(x) <=> ConstraintsV1(y)
<1>1. x.is = y.is /\ Keys(x) = Keys(y) /\ \A k \in Keys(y) : <<x.at[k], y.at[k]>> \in R
  BY Related
<1>2. \A k \in Keys(y) : FieldsV1(x.at[k]) <=> FieldsV1(y.at[k])
  BY <1>1, FieldsV1Kept
<1>3. (ConstraintsBesidesFields(x) <=> ConstraintsBesidesFields(y))
  BY ConstraintsBesidesFieldsKept
<1>4. Properties(x, {"fields"}, FieldsV1) <=> Properties(y, {"fields"}, FieldsV1)
  BY <1>1, <1>2 DEF Properties
<1>5. QED
  BY <1>1, <1>2, <1>3, <1>4 DEF ConstraintsV1

LEMMA ConstraintsV2Kept ==
  ASSUME NEW R, Simulates(R), NEW x, NEW y, <<x, y>> \in R
  PROVE  ConstraintsV2(x) <=> ConstraintsV2(y)
<1>1. x.is = y.is /\ Keys(x) = Keys(y) /\ \A k \in Keys(y) : <<x.at[k], y.at[k]>> \in R
  BY Related
<1>2. \A k \in Keys(y) : FieldsV2(x.at[k]) <=> FieldsV2(y.at[k])
  BY <1>1, FieldsV2Kept
<1>3. (ConstraintsBesidesFields(x) <=> ConstraintsBesidesFields(y))
  BY ConstraintsBesidesFieldsKept
<1>4. Properties(x, {"fields"}, FieldsV2) <=> Properties(y, {"fields"}, FieldsV2)
  BY <1>1, <1>2 DEF Properties
<1>5. QED
  BY <1>1, <1>2, <1>3, <1>4 DEF ConstraintsV2

LEMMA SchemasKept ==
  ASSUME NEW R, Simulates(R), NEW x, NEW y, <<x, y>> \in R
  PROVE  Schemas(x) <=> Schemas(y)
<1>1. \A u, w : <<u, w>> \in R => (Schema(u) <=> Schema(w))
  BY SchemaKept
<1>2. /\ x.is = y.is
      /\ y.is = "array" => DOMAIN x.of = DOMAIN y.of /\ \A i \in DOMAIN y.of : <<x.of[i], y.of[i]>> \in R
  BY Related
<1>3. QED
  BY <1>1, <1>2 DEF Schemas, ArrayOf

LEMMA InputDescriptorV1Kept ==
  ASSUME NEW R, Simulates(R), NEW x, NEW y, <<x, y>> \in R
  PROVE  InputDescriptorV1(x) <=> InputDescriptorV1(y)
<1>1. x.is = y.is /\ Keys(x) = Keys(y) /\ \A k \in Keys(y) : <<x.at[k], y.at[k]>> \in R
  BY Related
<1>2. \A k \in Keys(y) : /\ IsString(x.at[k]) <=> IsString(y.at[k])
                         /\ Strings(x.at[k]) <=> Strings(y.at[k])
                         /\ Schemas(x.at[k]) <=> Schemas(y.at[k])
                         /\ ConstraintsV1(x.at[k]) <=> ConstraintsV1(y.at[k])
  BY <1>1, SimpleKept, SchemasKept, ConstraintsV1Kept
<1>3. /\ Properties(x, Named, IsString) <=> Properties(y, Named, IsString)
      /\ Properties(x, {"group"}, Strings) <=> Properties(y, {"group"}, Strings)
      /\ Properties(x, {"schema"}, Schemas) <=> Properties(y, {"schema"}, Schemas)
      /\ Properties(x, {"constraints"}, ConstraintsV1) <=> Properties(y, {"constraints"}, ConstraintsV1)
  BY <1>1, <1>2 DEF Properties
<1>4. QED
  BY <1>1, <1>2, <1>3 DEF InputDescriptorV1, Closed, Requires

LEMMA InputDescriptorV2Kept ==
  ASSUME NEW R, Simulates(R), NEW x, NEW y, <<x, y>> \in R
  PROVE  InputDescriptorV2(x) <=> InputDescriptorV2(y)
<1>1. x.is = y.is /\ Keys(x) = Keys(y) /\ \A k \in Keys(y) : <<x.at[k], y.at[k]>> \in R
  BY Related
<1>2. \A k \in Keys(y) : /\ IsString(x.at[k]) <=> IsString(y.at[k])
                         /\ Strings(x.at[k]) <=> Strings(y.at[k])
                         /\ ConstraintsV2(x.at[k]) <=> ConstraintsV2(y.at[k])
  BY <1>1, SimpleKept, ConstraintsV2Kept
<1>3. /\ Properties(x, Named, IsString) <=> Properties(y, Named, IsString)
      /\ Properties(x, {"group"}, Strings) <=> Properties(y, {"group"}, Strings)
      /\ Properties(x, {"constraints"}, ConstraintsV2) <=> Properties(y, {"constraints"}, ConstraintsV2)
  BY <1>1, <1>2 DEF Properties
<1>4. QED
  BY <1>1, <1>2, <1>3 DEF InputDescriptorV2, Closed, Requires

LEMMA SubmissionRequirementsKept ==
  ASSUME NEW R, Simulates(R), NEW x, NEW y, <<x, y>> \in R
  PROVE  SubmissionRequirements(x) <=> SubmissionRequirements(y)
<1>1. \A u, w : <<u, w>> \in R => (SubmissionRequirement(u) <=> SubmissionRequirement(w))
  BY SubmissionRequirementKept
<1>2. /\ x.is = y.is
      /\ y.is = "array" => DOMAIN x.of = DOMAIN y.of /\ \A i \in DOMAIN y.of : <<x.of[i], y.of[i]>> \in R
  BY Related
<1>3. QED
  BY <1>1, <1>2 DEF SubmissionRequirements, ArrayOf

LEMMA InputDescriptorsV1Kept ==
  ASSUME NEW R, Simulates(R), NEW x, NEW y, <<x, y>> \in R
  PROVE  InputDescriptorsV1(x) <=> InputDescriptorsV1(y)
<1>1. \A u, w : <<u, w>> \in R => (InputDescriptorV1(u) <=> InputDescriptorV1(w))
  BY InputDescriptorV1Kept
<1>2. /\ x.is = y.is
      /\ y.is = "array" => DOMAIN x.of = DOMAIN y.of /\ \A i \in DOMAIN y.of : <<x.of[i], y.of[i]>> \in R
  BY Related
<1>3. QED
  BY <1>1, <1>2 DEF InputDescriptorsV1, ArrayOf

LEMMA InputDescriptorsV2Kept ==
  ASSUME NEW R, Simulates(R), NEW x, NEW y, <<x, y>> \in R
  PROVE  InputDescriptorsV2(x) <=> InputDescriptorsV2(y)
<1>1. \A u, w : <<u, w>> \in R => (InputDescriptorV2(u) <=> InputDescriptorV2(w))
  BY InputDescriptorV2Kept
<1>2. /\ x.is = y.is
      /\ y.is = "array" => DOMAIN x.of = DOMAIN y.of /\ \A i \in DOMAIN y.of : <<x.of[i], y.of[i]>> \in R
  BY Related
<1>3. QED
  BY <1>1, <1>2 DEF InputDescriptorsV2, ArrayOf

LEMMA BesidesDescriptorsKept ==
  ASSUME NEW R, Simulates(R), NEW x, NEW y, <<x, y>> \in R, NEW ks
  PROVE  DefinitionBesidesDescriptors(x, ks) <=> DefinitionBesidesDescriptors(y, ks)
<1>1. x.is = y.is /\ Keys(x) = Keys(y) /\ \A k \in Keys(y) : <<x.at[k], y.at[k]>> \in R
  BY Related
<1>2. \A k \in Keys(y) : /\ IsString(x.at[k]) <=> IsString(y.at[k])
                         /\ Format(x.at[k]) <=> Format(y.at[k])
                         /\ SubmissionRequirements(x.at[k]) <=> SubmissionRequirements(y.at[k])
  BY <1>1, SimpleKept, FormatKept, SubmissionRequirementsKept
<1>3. /\ Properties(x, Named, IsString) <=> Properties(y, Named, IsString)
      /\ Properties(x, {"format"}, Format) <=> Properties(y, {"format"}, Format)
      /\ Properties(x, {"submission_requirements"}, SubmissionRequirements)
           <=> Properties(y, {"submission_requirements"}, SubmissionRequirements)
  BY <1>1, <1>2 DEF Properties
<1>4. QED
  BY <1>1, <1>3 DEF DefinitionBesidesDescriptors, Closed, Requires

LEMMA PresentationDefinitionKept ==
  ASSUME NEW R, Simulates(R), NEW x, NEW y, <<x, y>> \in R
  PROVE  /\ PresentationDefinitionV1(x) <=> PresentationDefinitionV1(y)
         /\ PresentationDefinitionV2(x) <=> PresentationDefinitionV2(y)
         /\ PresentationDefinition(x) <=> PresentationDefinition(y)
<1>1. Keys(x) = Keys(y) /\ \A k \in Keys(y) : <<x.at[k], y.at[k]>> \in R
  BY Related
<1>2. \A k \in Keys(y) : /\ InputDescriptorsV1(x.at[k]) <=> InputDescriptorsV1(y.at[k])
                         /\ InputDescriptorsV2(x.at[k]) <=> InputDescriptorsV2(y.at[k])
                         /\ IsObject(x.at[k]) <=> IsObject(y.at[k])
  BY <1>1, SimpleKept, InputDescriptorsV1Kept, InputDescriptorsV2Kept
<1>3. \A ks : DefinitionBesidesDescriptors(x, ks) <=> DefinitionBesidesDescriptors(y, ks)
  BY BesidesDescriptorsKept
<1>4. /\ Properties(x, {"input_descriptors"}, InputDescriptorsV1)
           <=> Properties(y, {"input_descriptors"}, InputDescriptorsV1)
      /\ Properties(x, {"input_descriptors"}, InputDescriptorsV2)
           <=> Properties(y, {"input_descriptors"}, InputDescriptorsV2)
      /\ Properties(x, {"frame"}, IsObject) <=> Properties(y, {"frame"}, IsObject)
  BY <1>1, <1>2 DEF Properties
<1>5. QED
  BY <1>3, <1>4 DEF PresentationDefinitionV1, PresentationDefinitionV2, PresentationDefinition

LEMMA VpTokenClaimPayloadKept ==
  ASSUME NEW R, Simulates(R), NEW x, NEW y, <<x, y>> \in R
  PROVE  VpTokenClaimPayload(x) <=> VpTokenClaimPayload(y)
<1>1. x.is = y.is /\ Keys(x) = Keys(y) /\ \A k \in Keys(y) : <<x.at[k], y.at[k]>> \in R
  BY Related
<1>2. \A k \in Keys(y) : /\ PresentationDefinition(x.at[k]) <=> PresentationDefinition(y.at[k])
                         /\ IsString(x.at[k]) <=> IsString(y.at[k])
  BY <1>1, PresentationDefinitionKept, SimpleKept
<1>3. /\ Properties(x, {"presentation_definition"}, PresentationDefinition) <=> Properties(y, {"presentation_definition"}, PresentationDefinition)
      /\ Properties(x, {"presentation_definition_uri"}, IsString) <=> Properties(y, {"presentation_definition_uri"}, IsString)
  BY <1>1, <1>2 DEF Properties
<1>4. QED
  BY <1>1, <1>2, <1>3 DEF VpTokenClaimPayload, Closed

\* The claims of a request, read from a query.
LEMMA ClaimPayloadKept ==
  ASSUME NEW R, Simulates(R), NEW x, NEW y, <<x, y>> \in R
  PROVE  ClaimPayloadVID1(x) <=> ClaimPayloadVID1(y)
<1>1. x.is = y.is /\ Keys(x) = Keys(y) /\ \A k \in Keys(y) : <<x.at[k], y.at[k]>> \in R
  BY Related
<1>2. \A k \in Keys(y) : /\ IdTokenClaimPayload(x.at[k]) <=> IdTokenClaimPayload(y.at[k])
                         /\ VpTokenClaimPayload(x.at[k]) <=> VpTokenClaimPayload(y.at[k])
  BY <1>1, SimpleKept, VpTokenClaimPayloadKept DEF IdTokenClaimPayload
<1>3. /\ Properties(x, {"id_token"}, IdTokenClaimPayload) <=> Properties(y, {"id_token"}, IdTokenClaimPayload)
      /\ Properties(x, {"vp_token"}, VpTokenClaimPayload) <=> Properties(y, {"vp_token"}, VpTokenClaimPayload)
  BY <1>1, <1>2 DEF Properties
<1>4. QED
  BY <1>1, <1>3 DEF ClaimPayloadVID1, Closed

(***************************************************************************)
(* What is read of the claims and of a definition satisfies the schemas of *)
(* requests if and only if they did.                                       *)
(***************************************************************************)
THEOREM SchemasReadTheSame ==
  ASSUME NEW v, JsonValue(v)
  PROVE  /\ PresentationDefinition(Reread(v)) <=> PresentationDefinition(v)
         /\ ClaimPayloadVID1(Reread(v)) <=> ClaimPayloadVID1(v)
         /\ IsTrue(At(Reread(v), "vp_token")) <=> IsTrue(At(v, "vp_token"))
<1>1. PICK R : Simulates(R) /\ <<Reread(v), v>> \in R
  BY ReadingSimulates
<1>2. \A k \in Keys(v) : IsTrue(Reread(v).at[k]) <=> IsTrue(v.at[k])
  <2>1. \A k \in Keys(v) : <<Reread(v).at[k], v.at[k]>> \in R
    BY <1>1, Related
  <2>2. QED
    BY <1>1, <2>1, SimpleKept
<1>3. Keys(Reread(v)) = Keys(v)
  BY <1>1, Related
<1>4. QED
  BY <1>1, <1>2, <1>3, PresentationDefinitionKept, ClaimPayloadKept DEF At, Has

-----------------------------------------------------------------------------
\* x is what is read of y, if that is no object and no array.
ReadText(x, y) == x.is = y.is /\ (y.is = "string" => x.text = Unescaped(y.text))

LEMMA MembersRead ==
  ASSUME NEW v, IsObject(v)
  PROVE  /\ IsObject(Reread(v)) /\ Keys(Reread(v)) = Keys(v)
         /\ \A k \in Keys(v) :
              LET x == Reread(v).at[k]
                  y == v.at[k]
              IN  /\ ReadText(x, y)
                  /\ y.is = "array" => DOMAIN x.of = DOMAIN y.of /\ \A i \in DOMAIN y.of : ReadText(x.of[i], y.of[i])
<1>1. PICK read : /\ read = [n \in 0..Depth |-> ReadOnce(PartsOf(v), read, n)]
                  /\ Reread(v) = WithMembers(v, read[Depth])
  BY RereadUnfolds
<1>2. \A w \in PartsOf(v) : /\ read[12][w] = WithMembers(w, read[11])
                            /\ read[11][w] = WithMembers(w, read[10])
  <2>1. read[12] = ReadOnce(PartsOf(v), read, 12) /\ read[11] = ReadOnce(PartsOf(v), read, 11)
    BY <1>1 DEF Depth
  <2>2. QED
    BY <2>1 DEF ReadOnce
<1>3. \A w, f : /\ ReadText(WithMembers(w, f), w)
                /\ w.is = "array" => /\ DOMAIN WithMembers(w, f).of = DOMAIN w.of
                                     /\ \A i \in DOMAIN w.of : WithMembers(w, f).of[i] = f[w.of[i]]
  BY DEF WithMembers, ReadText, String, Array, Object
<1>4. ASSUME NEW k \in Keys(v)
      PROVE  LET x == Reread(v).at[k]
                 y == v.at[k]
             IN  /\ ReadText(x, y)
                 /\ y.is = "array" => DOMAIN x.of = DOMAIN y.of /\ \A i \in DOMAIN y.of : ReadText(x.of[i], y.of[i])
  <2> DEFINE y == v.at[k]
  <2>1. y \in Members(v)
    BY DEF Members, Keys, IsObject
  <2>2. Reread(v).at[k] = read[12][y]
    BY <1>1 DEF WithMembers, Object, IsObject, Keys, Depth
  <2>3. Reread(v).at[k] = WithMembers(y, read[11])
    BY <1>2, <2>1, <2>2, PartsOfMembers
  <2>4. ASSUME y.is = "array", NEW i \in DOMAIN y.of
        PROVE  read[11][y.of[i]] = WithMembers(y.of[i], read[10])
    <3>1. y.of[i] \in Members(y)
      BY <2>4 DEF Members
    <3>2. y.of[i] \in PartsOf(v)
      BY <2>1, <3>1, PartsOfMembers
    <3>3. QED
      BY <1>2, <3>2
  <2>5. QED
    BY <1>3, <2>3, <2>4
<1>5. SameShape(Reread(v), v)
  BY <1>1, ShapeKept
<1>6. QED
  BY <1>4, <1>5 DEF SameShape, IsObject

\* A name has nothing to unescape.
LEMMA NameRead ==
  ASSUME NEW x, NEW y, ReadText(x, y), NEW S, {"%41", "%22"} \cap S = {}, OneOf(y, S)
  PROVE  OneOf(x, S)
<1>1. Unescaped(y.text) = y.text
  BY DEF OneOf, Unescaped, EscapedLetter, EscapedQuote
<1>2. QED
  BY <1>1 DEF ReadText, OneOf

LEMMA NamesRead ==
  ASSUME NEW x, NEW y, ReadText(x, y)
  PROVE  /\ SigningAlgo(y) => SigningAlgo(x)
         /\ ResponseType(y) => ResponseType(x)
         /\ Scope(y) => Scope(x)
         /\ SubjectType(y) => SubjectType(x)
         /\ IsString(y) => IsString(x)
<1>1. SigningAlgo(y) => SigningAlgo(x)
  BY NameRead DEF SigningAlgo
<1>2. ResponseType(y) => ResponseType(x)
  BY NameRead DEF ResponseType
<1>3. Scope(y) => Scope(x)
  <2> DEFINE S == {"openid", "openid did_authn", "profile", "email", "address", "phone"}
  <2>1. \A v : Scope(v) <=> OneOf(v, S)
    BY Zenon DEF Scope
  <2>2. {"%41", "%22"} \cap S = {}
    BY Zenon
  <2> HIDE DEF S
  <2>3. QED
    BY <2>1, <2>2, NameRead
<1>4. SubjectType(y) => SubjectType(x)
  BY NameRead DEF SubjectType
<1>5. IsString(y) => IsString(x)
  BY DEF ReadText, IsString
<1>6. QED
  BY <1>1, <1>2, <1>3, <1>4, <1>5

(***************************************************************************)
(* Metadata read from a query are metadata of a relying party still, with  *)
(* as many syntax types as before.                                         *)
(***************************************************************************)
LEMMA MetadataRead ==
  ASSUME NEW v, RPRegistrationMetadataPayload(v)
  PROVE  /\ RPRegistrationMetadataPayload(Reread(v))
         /\ Has(v, "subject_syntax_types_supported") =>
              /\ Has(Reread(v), "subject_syntax_types_supported")
              /\ DOMAIN Reread(v).at["subject_syntax_types_supported"].of =
                   DOMAIN v.at["subject_syntax_types_supported"].of
<1>1. IsObject(v)
  BY DEF RPRegistrationMetadataPayload
<1>2. Keys(Reread(v)) = Keys(v) /\ IsObject(Reread(v))
  BY <1>1, MembersRead
<1>3. ASSUME NEW k \in Keys(v)
      PROVE  /\ SigningAlgos(v.at[k]) => SigningAlgos(Reread(v).at[k])
             /\ ResponseTypes(v.at[k]) => ResponseTypes(Reread(v).at[k])
             /\ Scopes(v.at[k]) => Scopes(Reread(v).at[k])
             /\ SubjectTypes(v.at[k]) => SubjectTypes(Reread(v).at[k])
             /\ Strings(v.at[k]) => Strings(Reread(v).at[k])
             /\ Strings(v.at[k]) => DOMAIN Reread(v).at[k].of = DOMAIN v.at[k].of
  <2> DEFINE x == Reread(v).at[k]
             y == v.at[k]
  <2>1. /\ ReadText(x, y)
        /\ y.is = "array" => DOMAIN x.of = DOMAIN y.of /\ \A i \in DOMAIN y.of : ReadText(x.of[i], y.of[i])
    BY <1>1, MembersRead
  <2>2. x.is = y.is
    BY <2>1 DEF ReadText
  <2> HIDE DEF x, y
  <2>3. SigningAlgos(y) => SigningAlgos(x)
    BY <2>1, <2>2, NamesRead DEF SigningAlgos, SomeOf, ArrayOf
  <2>4. ResponseTypes(y) => ResponseTypes(x)
    BY <2>1, <2>2, NamesRead DEF ResponseTypes, SomeOf, ArrayOf
  <2>5. Scopes(y) => Scopes(x)
    BY <2>1, <2>2, NamesRead DEF Scopes, SomeOf, ArrayOf
  <2>6. SubjectTypes(y) => SubjectTypes(x)
    BY <2>1, <2>2, NamesRead DEF SubjectTypes, SomeOf, ArrayOf
  <2>7. Strings(y) => Strings(x) /\ DOMAIN x.of = DOMAIN y.of
    BY <2>1, <2>2, NamesRead DEF Strings, ArrayOf
  <2>8. QED
    BY <2>3, <2>4, <2>5, <2>6, <2>7 DEF x, y
<1>4. QED
  BY <1>2, <1>3 DEF RPRegistrationMetadataPayload, Properties, Has

=============================================================================
