--------------------------- MODULE SubjectSyntax ---------------------------
(***************************************************************************)
(* Subject syntax types: what the two parties announce that a subject may  *)
(* identify itself with, which resolver they choose for it (did/           *)
(* DIDResolution.ts) and what they agree upon (helpers/Metadata.ts).       *)
(*                                                                         *)
(* A list of types is a sequence without duplicates.  A property that is   *)
(* absent is the list <<Undefined>>: mergeAllDidMethods wraps it that way, *)
(* and every other reader treats the two alike.                            *)
(***************************************************************************)
EXTENDS SequencesExt, Selections

CONSTANTS
  Methods,      \* names of DID methods, such as "ethr"
  FormatNames,  \* names of credential formats, such as "jwt_vc"
  Algs          \* the algorithms and proof types the formats list

\* addDidMethod("did") registers the names "" and "did" as if they were methods,
\* and the types "did:web:" and "did:ion:" of the default end in a colon.
NoMethods == {"", "did", "web:", "ion:"}

ASSUME MethodsAssumption == Methods \cap NoMethods = {}

MethodName == Methods \cup NoMethods

Did         == [kind |-> "did",       method |-> ""]   \* "did": any DID method
Jwk         == [kind |-> "jwk",       method |-> ""]   \* the JWK thumbprint
Other       == [kind |-> "other",     method |-> ""]   \* a string of another kind, "jkt"
Undefined   == [kind |-> "undefined", method |-> ""]
OfMethod(m) == [kind |-> "method",    method |-> m]    \* "did:<m>"

\* What a relying party announces whose metadata list no types.
DefaultTypes == <<OfMethod("web:"), OfMethod("ion:")>>

MethodType == {OfMethod(m) : m \in MethodName}
SyntaxType == {Did, Jwk, Other, Undefined} \cup MethodType

----------------------------------------------------------------------------
(* The resolvers a builder was given, an insertion-ordered map: its keys   *)
(* are method names without "did:".  An entry is null (own = FALSE) or a   *)
(* resolver of the host (own = TRUE).                                      *)

BareMethod(m) == [kind |-> "bare", method |-> m]

ResolverEntry == [key : {BareMethod(m) : m \in MethodName}, own : BOOLEAN]

addResolver(resolvers, m, own) ==
  LET at == {i \in DOMAIN resolvers : resolvers[i].key = BareMethod(m)}
      entry == [key |-> BareMethod(m), own |-> own]
  IN  IF at = {} THEN Append(resolvers, entry)
      ELSE [i \in DOMAIN resolvers |-> IF i \in at THEN entry ELSE resolvers[i]]

addDidMethod(resolvers, m, opts) ==
  IF m = "did" THEN addResolver(addResolver(resolvers, "", opts), m, opts)
  ELSE addResolver(resolvers, m, opts)

\* Faulty variant: the registered methods take the place of the list.
mergedAnew(types, resolvers) == [i \in DOMAIN resolvers |-> OfMethod(resolvers[i].key.method)]

\* The list with the methods of the registered resolvers added.
mergeAllDidMethods(types, resolvers) ==
  LET registered == [i \in DOMAIN resolvers |-> OfMethod(resolvers[i].key.method)]
  IN  types \o Kept(registered, ToSet(registered) \ ToSet(types))

----------------------------------------------------------------------------
(* A resolver: the host's own, the universal one, or a did-resolver        *)
(* registry, in which `use` says what serves the method.                   *)

Resolver == [kind : {"custom", "universal"}]
            \cup [kind : {"registry"}, method : MethodName, use : {"universal", "own"}]
            \cup [kind : {"empty"}]

\* Faulty variant: the universal resolver as a fallback.
newResolverOrUniversal(registries) == IF registries = <<>> THEN [kind |-> "universal"] ELSE Head(registries)

\* The constructor of did-resolver takes ONE registry, and options after it:
\* of the registries that are spread into it, the first one counts.
newResolver(registries) == IF registries = <<>> THEN [kind |-> "empty"] ELSE Head(registries)

\* The lookup is by type ("did:ethr"), the keys are bare names ("ethr").
methodResolver(t, resolvers) ==
  [kind |-> "registry", method |-> t.method,
   use |-> IF \E i \in DOMAIN resolvers : resolvers[i].key = t /\ resolvers[i].own
           THEN "own" ELSE "universal"]

getResolverUnion(custom, types, resolvers) ==
  LET specific == Kept(types, MethodType)
  IN  CASE custom -> [kind |-> "custom"]
        [] ~custom /\ Did \in ToSet(types) -> [kind |-> "universal"]
        [] OTHER -> newResolver([i \in DOMAIN specific |-> methodResolver(specific[i], resolvers)])

\* Who resolves a DID of method m.  A resolver of the host that stands where a
\* registry is expected is a record without an entry for m.
ResolvedBy(resolver, m) ==
  CASE resolver.kind = "custom" -> "custom"
    [] resolver.kind = "universal" -> "universal"
    [] resolver.kind = "registry" /\ resolver.method = m /\ resolver.use = "universal" -> "universal"
    [] OTHER -> "nobody"

----------------------------------------------------------------------------
(* What two parties agree upon.  Failed stands for the exceptions.         *)

Failed == [ok |-> FALSE]

\* Faulty variant: nothing is filtered.
Unfiltered(as, bs) == as

Intersection(as, bs) == Kept(as, ToSet(bs))

OfAnyMethod(types) == Kept(types, MethodType)

\* sst.includes and method.startsWith raise a TypeError on what is undefined.
verifySubjectSyntaxes(types) ==
  types # <<>> /\ \A t \in ToSet(types) : t.kind \in {"did", "method", "jwk"}

\* Faulty variant: "did" is looked for on the side of the RP only.
supportedOneSided(rp, op) ==
  LET common == Intersection(rp, op)
  IN  CASE Did \in ToSet(common) -> [ok |-> TRUE, types |-> <<Did>>]
        [] Did \in ToSet(rp) /\ Did \notin ToSet(op) /\ OfAnyMethod(op) # <<>> -> [ok |-> TRUE, types |-> OfAnyMethod(op)]
        [] OTHER -> IF common = <<>> THEN Failed ELSE [ok |-> TRUE, types |-> common]

supportedSubjectSyntaxTypes(rp, op) ==
  LET common == Intersection(rp, op)
      didIn(types) == Did \in ToSet(types)
      agreedOn(types) == [ok |-> TRUE, types |-> types]
  IN  CASE didIn(common) -> agreedOn(<<Did>>)
        [] didIn(rp) /\ ~didIn(op) /\ Undefined \in ToSet(op) -> Failed
        [] didIn(rp) /\ ~didIn(op) /\ Undefined \notin ToSet(op) /\ OfAnyMethod(op) # <<>> ->
             agreedOn(OfAnyMethod(op))
        [] didIn(op) /\ ~didIn(rp) /\ OfAnyMethod(rp) # <<>> -> agreedOn(OfAnyMethod(rp))
        [] OTHER -> IF common = <<>> THEN Failed
                    ELSE IF OfAnyMethod(common) # <<>> THEN agreedOn(OfAnyMethod(common))
                    ELSE agreedOn(common)

\* The formats of a party: the algorithms (or proof types) it lists by format.
Formats == UNION {[S -> [key : {"alg", "proof_type"}, algs : SUBSET Algs]] : S \in SUBSET FormatNames}

supportedCredentialsFormats(rp, op) ==
  LET common == DOMAIN rp \cap DOMAIN op
      fits(f) == rp[f].key = op[f].key /\ rp[f].algs \cap op[f].algs # {}
  IN  IF common = {} \/ \E f \in common : ~fits(f) THEN Failed
      ELSE [ok |-> TRUE, formats |-> [f \in common |-> [key |-> op[f].key, algs |-> rp[f].algs \cap op[f].algs]]]

\* What a party offers: its list of types and its formats.
assertValidMetadata(op, rp) ==
  LET credentials == supportedCredentialsFormats(rp.formats, op.formats)
      subjects == IF Undefined \in ToSet(rp.types) THEN Failed
                  ELSE IF verifySubjectSyntaxes(rp.types) THEN supportedSubjectSyntaxTypes(rp.types, op.types)
                  ELSE [ok |-> TRUE, types |-> <<>>]
  IN  IF credentials.ok /\ subjects.ok
      THEN [ok |-> TRUE, types |-> subjects.types, formats |-> credentials.formats]
      ELSE Failed
=============================================================================
