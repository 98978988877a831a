--------------------------- MODULE PartyBuilders ---------------------------
(***************************************************************************)
(* The fluent builders of the two parties, rp/Builder.ts and op/           *)
(* Builder.ts.  A host calls their methods in any order and any number of  *)
(* times, and builds as often as it likes: a party that is built copies    *)
(* most of the builder, but a relying party goes on sharing the metadata   *)
(* object with its builder, and the build itself writes into that object   *)
(* (createVerifyResponseOptsFromBuilderOrExistingOpts, rp/Opts.ts:54).     *)
(***************************************************************************)
EXTENDS SubjectSyntax, Integers

CONSTANTS
  Version,      \* the versions hosts ask for: 70 is SIOPv2_ID1, 71 the JWT_VC
                \* presentation profile and 110 SIOPv2_D11
  TypeLists,    \* the lists of syntax types a host puts into its metadata
  Required,     \* properties the schema requires in the request object
  Options,      \* withRequestBy and withSignature: what the schema requires besides
  OwnFormats,   \* the formats of the party at hand
  Peers,        \* what other parties offer: [types, formats]
  MaxCalls,     \* bound: calls of builder methods, over both builders
  MaxBuilds,    \* bound: parties built by each builder
  MaxObjects    \* bound: metadata objects the host makes

MetadataKey   == {"request_registration", "client_metadata"}
DefinitionKey == {"claims", "presentation_definition"}
Key    == Required \cup MetadataKey \cup DefinitionKey
Target == {"outer", "object"}   \* AUTHORIZATION_REQUEST and REQUEST_OBJECT

ASSUME BuildersAssumption ==
  /\ Version \subseteq {70, 71, 110}
  /\ TypeLists \subseteq Seq(SyntaxType)
  /\ Required \cap (MetadataKey \cup DefinitionKey) = {}
  /\ OwnFormats \in Formats
  /\ Peers \subseteq [types : Seq(SyntaxType), formats : Formats]
  /\ MaxCalls \in Nat /\ MaxBuilds \in Nat /\ MaxObjects \in Nat

VARIABLES
  host,       \* which of the two parties the host builds
  rpBuilder,  \* the state of the RP's builder
  opBuilder,  \* the state of the OP's builder
  objects,    \* the metadata objects of the host: the list of types in each
  rps,        \* the relying parties built
  ops,        \* the OPs built
  outcome,    \* what the last call built: "rp", "op", "none", or "failed"
  agreement,  \* what the last negotiation of a party with a peer gave
  calls       \* how many calls were made

vars == <<host, rpBuilder, opBuilder, objects, rps, ops, outcome, agreement, calls>>

NoAgreement == [made |-> FALSE]

NewRPBuilder(versions) ==
  [versions |-> versions, payload |-> [t \in Target |-> {}], options |-> {},
   custom |-> FALSE, resolvers |-> <<>>, metadata |-> 0]

NewOPBuilder ==
  [registered |-> FALSE, types |-> <<Undefined>>, signature |-> FALSE,
   custom |-> FALSE, resolvers |-> <<>>]

Init ==
  /\ host \in {"rp", "op"}
  /\ \E versions \in {<<>>} \cup {<<v>> : v \in Version} : rpBuilder = NewRPBuilder(versions)
  /\ opBuilder = NewOPBuilder
  /\ objects = <<>> /\ rps = <<>> /\ ops = <<>>
  /\ outcome = "none" /\ agreement = NoAgreement /\ calls = 0

----------------------------------------------------------------------------
(* Calls of the RP's builder.                                              *)

\* Bookkeeping of a call: the bound, and what it forgets and leaves alone.
Call ==
  /\ calls < MaxCalls /\ calls' = calls + 1
  /\ outcome' = "none" /\ agreement' = NoAgreement
  /\ UNCHANGED <<host, rps, ops>>

OnRP(b) == host = "rp" /\ rpBuilder' = b /\ UNCHANGED <<opBuilder, objects>> /\ Call
OnOP(b) == host = "op" /\ opBuilder' = b /\ UNCHANGED <<rpBuilder, objects>> /\ Call

\* assignIfAuth and assignIfRequestObject: the keys k are set at the targets,
\* and become undefined where they are not targeted.
Assign(payload, k, targets) ==
  [t \in Target |-> IF t \in targets THEN payload[t] \cup {k} ELSE payload[t] \ {k}]

\* Faulty variant: how many versions there are.
countSupportedVersions(b) == Len(b.versions)

getSupportedRequestVersion(b) == Head(b.versions)

AddSupportedVersion(v) ==
  OnRP([rpBuilder EXCEPT !.versions = IF v \in ToSet(@) THEN @ ELSE Append(@, v)])

WithProperty(k, targets) == OnRP([rpBuilder EXCEPT !.payload = Assign(@, k, targets)])

WithOption(o) == OnRP([rpBuilder EXCEPT !.options = @ \cup {o}])

WithCustomResolver == OnRP([rpBuilder EXCEPT !.custom = TRUE])

AddResolver(m) == OnRP([rpBuilder EXCEPT !.resolvers = addResolver(@, m, TRUE)])

AddDidMethod(m, opts) == OnRP([rpBuilder EXCEPT !.resolvers = addDidMethod(@, m, opts)])

\* Faulty variant: the key of the version added last.
LastMetadataKey(b) == IF Last(b.versions) < 110 THEN "request_registration" ELSE "client_metadata"

MetadataKeyOf(b) ==
  IF getSupportedRequestVersion(b) < 110 THEN "request_registration" ELSE "client_metadata"

\* With an object the host has passed before, or with a new one.
WithClientMetadata(targets) ==
  /\ host = "rp" /\ rpBuilder.versions # <<>>
  /\ \E o \in 1..MaxObjects, types \in TypeLists :
       /\ (o \in DOMAIN objects /\ types = objects[o]) \/ o = Len(objects) + 1
       /\ objects' = IF o \in DOMAIN objects THEN objects ELSE Append(objects, types)
       /\ rpBuilder' = [rpBuilder EXCEPT !.metadata = o,
                                         !.payload = Assign(@, MetadataKeyOf(rpBuilder), targets)]
  /\ UNCHANGED opBuilder /\ Call

\* Before draft 11 the definition goes into claims.vp_token, where it stays
\* when a later call targets the other place only.
WithPresentationDefinition(targets) ==
  /\ rpBuilder.versions # <<>>
  /\ OnRP([rpBuilder EXCEPT !.payload =
       IF getSupportedRequestVersion(rpBuilder) < 110
       THEN [t \in Target |-> IF t \in targets THEN @[t] \cup {"claims"} ELSE @[t]]
       ELSE Assign(@, "presentation_definition", targets)])

----------------------------------------------------------------------------
(* Building a relying party.  Of the fields of a party `configured` and    *)
(* `before` are history: the resolvers and the types before the build.     *)

\* The JSON schema of the options: an array of types holds strings.
ValidTypes(types) == types = <<Undefined>> \/ Undefined \notin ToSet(types)

\* It demands passBy, a signature type and four properties of the request object.
ValidRequestObject(b) == Options \subseteq b.options /\ Required \subseteq b.payload["object"]

RPOptionsValid(b) ==
  /\ b.versions # <<>>
  /\ ValidRequestObject(b)
  /\ b.metadata = 0 \/ ValidTypes(objects[b.metadata])

\* Faulty variant: the list itself becomes an element of an array, which is no string.
MergedWrapped(types, resolvers) ==
  IF resolvers # <<>> THEN mergeAllDidMethods(<<Undefined>>, resolvers) ELSE types

\* What the metadata object lists once the verification options were made.
MergedTypes(types, resolvers) ==
  IF resolvers # <<>> THEN mergeAllDidMethods(types, resolvers) ELSE types

BuildRP ==
  LET b == rpBuilder
      types == MergedTypes(objects[b.metadata], b.resolvers)
  IN  /\ host = "rp" /\ Len(rps) < MaxBuilds
      /\ agreement' = NoAgreement
      /\ UNCHANGED <<host, rpBuilder, opBuilder, ops, calls>>
      /\ IF RPOptionsValid(b) /\ b.metadata # 0
         THEN /\ objects' = [objects EXCEPT ![b.metadata] = types]
              /\ rps' = Append(rps, [version |-> getSupportedRequestVersion(b), payload |-> b.payload,
                                     metadata |-> b.metadata, listed |-> types,
                                     configured |-> b.resolvers, before |-> objects[b.metadata],
                                     resolver |-> getResolverUnion(b.custom, types, b.resolvers)])
              /\ outcome' = "rp"
         ELSE outcome' = "failed" /\ UNCHANGED <<objects, rps>>

\* What a relying party puts into the metadata of its requests: the object is
\* read when a request is created, not when the party is built.
Announced(rp) == IF objects[rp.metadata] = <<Undefined>> THEN DefaultTypes ELSE objects[rp.metadata]

----------------------------------------------------------------------------
(* The OP.                                                                 *)

OPWithCustomResolver == OnOP([opBuilder EXCEPT !.custom = TRUE])

OPAddResolver(m) == OnOP([opBuilder EXCEPT !.resolvers = addResolver(@, m, TRUE)])

OPAddDidMethod(m, opts) == OnOP([opBuilder EXCEPT !.resolvers = addDidMethod(@, m, opts)])

OPSignature == OnOP([opBuilder EXCEPT !.signature = TRUE])

\* registration() keeps a copy of what it is given.
OPRegistration(types) == OnOP([opBuilder EXCEPT !.registered = TRUE, !.types = types])

\* The schema demands a signature and what registration() sets.
OPOptionsValid(b, types) == b.registered /\ b.signature /\ ValidTypes(types)

\* createResponseOptsFromBuilderOrExistingOpts merges a list that is there,
\* createVerifyRequestOptsFromBuilderOrExistingOpts after it in any case.
BuildOP ==
  LET b == opBuilder
      response == IF b.types = <<Undefined>> THEN b.types ELSE MergedTypes(b.types, b.resolvers)
      verify == MergedTypes(response, b.resolvers)
      valid == OPOptionsValid(b, response)
  IN  /\ host = "op" /\ Len(ops) < MaxBuilds
      /\ agreement' = NoAgreement
      /\ UNCHANGED <<host, rpBuilder, objects, rps, calls>>
      /\ opBuilder' = [b EXCEPT !.types = IF valid THEN verify ELSE response]
      /\ IF valid
         THEN /\ ops' = Append(ops, [announces |-> response, listed |-> verify, configured |-> b.resolvers, before |-> b.types,
                                     resolver |-> getResolverUnion(b.custom, verify, b.resolvers)])
              /\ outcome' = "op"
         ELSE outcome' = "failed" /\ UNCHANGED ops

----------------------------------------------------------------------------
(* assertValidMetadata, called by a host with the metadata of both sides.  *)
(* Bound: right after it has built a party, since what a party announces   *)
(* changes with a build only.                                              *)

Agree(rp, op) ==
  /\ outcome \in {"rp", "op"}
  /\ agreement' = [made |-> TRUE, rp |-> rp, op |-> op, result |-> assertValidMetadata(op, rp)]
  /\ UNCHANGED <<host, rpBuilder, opBuilder, objects, rps, ops, outcome, calls>>

RPNegotiates ==
  \E i \in DOMAIN rps, peer \in Peers :
    Agree([types |-> Announced(rps[i]), formats |-> OwnFormats], peer)

OPNegotiates ==
  \E i \in DOMAIN ops, peer \in Peers :
    Agree(peer, [types |-> ops[i].announces, formats |-> OwnFormats])

----------------------------------------------------------------------------
Targeted == SUBSET Target \ {{}}

Next ==
  \/ \E v \in Version : AddSupportedVersion(v)
  \/ \E k \in Required, targets \in Targeted : WithProperty(k, targets)
  \/ \E o \in Options : WithOption(o)
  \/ WithCustomResolver
  \/ \E m \in Methods : AddResolver(m)
  \/ \E m \in Methods \cup {"did"}, opts \in BOOLEAN : AddDidMethod(m, opts)
  \/ \E targets \in Targeted : WithClientMetadata(targets)
  \/ \E targets \in Targeted : WithPresentationDefinition(targets)
  \/ BuildRP
  \/ OPWithCustomResolver
  \/ \E m \in Methods : OPAddResolver(m)
  \/ \E m \in Methods \cup {"did"}, opts \in BOOLEAN : OPAddDidMethod(m, opts)
  \/ OPSignature
  \/ \E types \in TypeLists : OPRegistration(types)
  \/ BuildOP
  \/ RPNegotiates
  \/ OPNegotiates

Spec == Init /\ [][Next]_vars
----------------------------------------------------------------------------
(* Properties.                                                             *)

RPType == [version : Version, payload : [Target -> SUBSET Key], metadata : 1..MaxObjects,
           listed : Seq(SyntaxType), configured : Seq(ResolverEntry),
           before : Seq(SyntaxType), resolver : Resolver]

OPType == [announces : Seq(SyntaxType), listed : Seq(SyntaxType),
           configured : Seq(ResolverEntry),
           before : Seq(SyntaxType), resolver : Resolver]

\* Types of the variables.
TypeOK ==
  /\ host \in {"rp", "op"}
  /\ rpBuilder \in [versions : Seq(Version), payload : [Target -> SUBSET Key], options : SUBSET Options,
                    custom : BOOLEAN, resolvers : Seq(ResolverEntry), metadata : 0..MaxObjects]
  /\ opBuilder \in [registered : BOOLEAN, types : Seq(SyntaxType), signature : BOOLEAN,
                    custom : BOOLEAN, resolvers : Seq(ResolverEntry)]
  /\ objects \in Seq(Seq(SyntaxType)) /\ Len(objects) <= MaxObjects /\ rpBuilder.metadata <= Len(objects)
  /\ rps \in Seq(RPType) /\ \A i \in DOMAIN rps : rps[i].metadata <= Len(objects)
  /\ ops \in Seq(OPType)
  /\ outcome \in {"none", "rp", "op", "failed"}
  /\ agreement.made => agreement.result.ok \in BOOLEAN
  /\ calls \in 0..MaxCalls

\* The keys under which a relying party puts its metadata and its presentation
\* definition are those of the version of its requests, however many versions
\* the builder supports and in whatever order it was called: an OP tells the
\* version from these keys (rp/Builder.ts:153-176 and 199-234).
KeysMatchVersion ==
  \A i \in DOMAIN rps, t \in Target :
    LET foreign == IF rps[i].version < 110 THEN {"client_metadata", "presentation_definition"}
                   ELSE {"request_registration", "claims"}
    IN  rps[i].payload[t] \cap foreign = {}

Covers(types, m) == Did \in ToSet(types) \/ OfMethod(m) \in ToSet(types)

\* Without a resolver of its own that takes over everything, a party resolves
\* only DIDs of methods it announces; an OP, if it announces types at all
\* (rp/Opts.ts:53-62, op/Opts.ts:19-24 and 120-129).
OnlyAnnouncedIsResolved ==
  LET resolvesOnly(party, types) ==
        party.resolver.kind # "custom" =>
          \A m \in MethodName : ResolvedBy(party.resolver, m) # "nobody" => Covers(types, m)
  IN  /\ \A i \in DOMAIN rps : resolvesOnly(rps[i], Announced(rps[i]))
      /\ \A i \in DOMAIN ops : ops[i].announces # <<Undefined>> => resolvesOnly(ops[i], ops[i].announces)

\* The types in the verification options of a party are among those it
\* announces: the announcement is read from metadata that its builder may have
\* changed since (rp/Opts.ts:54-71).
ListedIsAnnounced ==
  /\ \A i \in DOMAIN rps : ToSet(rps[i].listed) \ {Undefined} \subseteq ToSet(Announced(rps[i]))
  /\ \A i \in DOMAIN ops : ops[i].announces # <<Undefined>> => ops[i].listed = ops[i].announces

\* What a relying party has announced it goes on announcing, although its
\* builder and other relying parties write into the same metadata object.  (If
\* the host listed no types, it announces did:web and did:ion until a build
\* puts a list into the object.)
AnnouncementsOnlyGrow ==
  [][\A i \in DOMAIN rps : Undefined \notin ToSet(objects[rps[i].metadata]) =>
       ToSet(Announced(rps[i])) \subseteq ToSet(Announced(rps[i])')]_vars

\* A builder that has just built a party builds another one, if its metadata
\* list syntax types.  (If they list none, the first build puts `undefined`
\* into the list and the second one is refused by the schema.)
RebuildSucceeds ==
  [][/\ outcome = "rp" /\ BuildRP /\ Last(rps).before # <<Undefined>> => outcome' = "rp"
     /\ outcome = "op" /\ BuildOP /\ Last(ops).before # <<Undefined>> => outcome' = "op"]_vars

\* A list accepts a type if it has it, or if it has "did" and the type is one
\* of a DID method.
AcceptsType(types, t) == t \in ToSet(types) \/ (Did \in ToSet(types) /\ t.kind = "method")

\* Whatever two parties agree upon is supported by both: every type, and every
\* format with all its algorithms, of which there is one at least
\* (helpers/Metadata.ts:56-112).
AgreementIsShared ==
  agreement.made /\ agreement.result.ok =>
    /\ \A t \in ToSet(agreement.result.types) :
         AcceptsType(agreement.rp.types, t) /\ AcceptsType(agreement.op.types, t)
    /\ agreement.result.formats # << >>
    /\ \A f \in DOMAIN agreement.result.formats :
         LET agreed == agreement.result.formats[f]
         IN  /\ agreed.algs # {}
             /\ \A side \in {agreement.rp.formats, agreement.op.formats} :
                  f \in DOMAIN side /\ side[f].key = agreed.key /\ agreed.algs \subseteq side[f].algs

\* Types that both sides could use are not overlooked: of well-formed lists the
\* agreement fails only if no type is acceptable to both, and prefers DIDs to
\* thumbprints (helpers/Metadata.ts:56-84).
NothingSharedIsOverlooked ==
  LET rp == agreement.rp.types
      op == agreement.op.types
      shared == {t \in ToSet(rp) \cup ToSet(op) : AcceptsType(rp, t) /\ AcceptsType(op, t)}
      agreed == supportedSubjectSyntaxTypes(rp, op)
  IN  agreement.made /\ verifySubjectSyntaxes(rp) /\ Undefined \notin ToSet(op) /\ shared # {} =>
        /\ agreed.ok
        /\ shared \ {Jwk} # {} => ToSet(agreed.types) = IF Did \in shared THEN {Did} ELSE shared \ {Jwk}

\* What the comment promises of the resolver of a party: its own custom
\* resolver, otherwise the custom resolver of the method, otherwise, for the
\* methods it was configured with or lists, the universal resolver.  The code
\* does not keep it (did/DIDResolution.ts:33-43).
ConfiguredMethodIsResolved ==
  \A i \in DOMAIN rps, m \in Methods :
    LET own == \E j \in DOMAIN rps[i].configured : rps[i].configured[j] = [key |-> BareMethod(m), own |-> TRUE]
    IN  Covers(rps[i].listed, m) =>
          ResolvedBy(rps[i].resolver, m) = CASE rps[i].resolver.kind = "custom" -> "custom"
                                             [] rps[i].resolver.kind # "custom" /\ own -> "own"
                                             [] OTHER -> "universal"

=============================================================================
