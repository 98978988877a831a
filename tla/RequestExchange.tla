-------------------------- MODULE RequestExchange --------------------------
(***************************************************************************)
(* One request on its way: from the options of an RP to the request object *)
(* and the URI, through what an OP reads, verifies and recognises in it,   *)
(* to the ID token in its answer and the check of its subject by the RP.   *)
(* Payloads are JSON values, held against the schemas wherever the code    *)
(* does so.  Time, nonces and repeated links are AuthorizationFlow's, the  *)
(* matching of presentations is PresentationVerification's, and calls of   *)
(* one RP that overlap are RequestCreation's.                              *)
(***************************************************************************)
EXTENDS FiniteSets, ResponseSchemas, MetadataPayloads, UriEncoding, LinkedDomains

CONSTANTS
  Settings,     \* [rp, op: the options of the parties, modes: of the domain checks]
  Dids,         \* the texts that begin with "did:"
  Served,       \* what a reference to metadata serves; Undef if the fetch fails
  ServedDefs,   \* what a reference to a presentation definition serves
  DomainChecks  \* what the checks of linked domains meet

ASSUME SettingsAssumption == \A s \in Settings : s.modes \in [op: Modes, rp: Modes]
ASSUME DomainChecksAssumption == \A r \in DomainChecks : DomainResult(r)

VARIABLES
  setting,      \* the parties
  stage,        \* what was done last, or "refused"
  reason,       \* why the exchange was refused
  object,       \* the payload of the request object, as it is signed
  outer,        \* the payload around it, and then the query of the URI
  received,     \* the payload that the OP reads
  metadata,     \* the RP's metadata, as the OP found it last
  found,        \* the definitions that the OP found last
  versions,     \* the versions that the OP recognised last
  subject,      \* the subject of the ID token
  checks        \* the linked-domain checks that were passed

created  == <<object, outer>>
verified == <<metadata, found, versions>>
vars == <<setting, stage, reason, object, outer, received, metadata, found, versions, subject, checks>>

rp == setting.rp
op == setting.op

Init ==
  /\ setting \in Settings
  /\ stage = "given" /\ reason = "none"
  /\ object = Undef /\ outer = Undef /\ received = Undef
  /\ metadata = Undef /\ found = <<>> /\ versions = <<>>
  /\ subject = "none" /\ checks = <<>>

Truthy(v, k) == IsTrue(At(v, k))
TextAt(v, k) == IF Has(v, k) /\ IsString(v.at[k]) THEN v.at[k].text ELSE ""

Reach(s)  == stage' = s /\ UNCHANGED <<setting, reason>>
Refuse(r) ==
  /\ stage' = "refused" /\ reason' = r
  /\ UNCHANGED <<setting, created, received, verified, subject, checks>>

----------------------------------------------------------------------------
(* The options.                                                            *)

ClientMetadataOf(o) == At(o, "clientMetadata")
RequestObjectOf(o)  == At(o, "requestObject")
VersionOf(o)        == o.at.version.value
IsDraft11(o)        == VersionOf(o) >= 110
PassedBy(v, by)     == TextAt(v, "passBy") = by

\* REFERENCE needs a reference; NONE is refused.
PassByValid(v) == PassedBy(v, "VALUE") \/ (PassedBy(v, "REFERENCE") /\ Truthy(v, "referenceUri"))

assertValidRequestObjectOpts(v) == PassByValid(v) /\ (Has(v, "payload") \/ ~Truthy(v, "referenceUri"))

assertValidRequestRegistrationOpts(v) == v # Undef /\ PassByValid(v)

assertValidAuthorizationRequestOpts(o) ==
  /\ Has(o, "payload") \/ Has(RequestObjectOf(o), "payload")
  /\ Truthy(At(o, "payload"), "request_uri") => Has(RequestObjectOf(o), "payload")
  /\ assertValidRequestObjectOpts(RequestObjectOf(o))
  /\ assertValidRequestRegistrationOpts(ClientMetadataOf(o))

BuildParties ==
  /\ stage = "given"
  /\ CreateAuthorizationRequestOpts(rp) /\ AuthorizationResponseOpts(op)
  /\ Reach("built")
  /\ UNCHANGED <<created, received, verified, subject, checks>>

RefuseOptions ==
  /\ stage = "given"
  /\ ~(CreateAuthorizationRequestOpts(rp) /\ AuthorizationResponseOpts(op))
  /\ Refuse("options")

----------------------------------------------------------------------------
(* The request object and the payload around it.                           *)

MetadataKey(o) == IF IsDraft11(o) THEN "client_metadata" ELSE "registration"
ReferenceKey   == [registration |-> "registration_uri", client_metadata |-> "client_metadata_uri"]

createRequestRegistrationPayload(o) ==
  LET m == ClientMetadataOf(o)
  IN  IF PassedBy(m, "VALUE")
        THEN Object([k \in {MetadataKey(o)} |-> createRPRegistrationMetadataPayload(m)])
        ELSE Object([k \in {ReferenceKey[MetadataKey(o)]} |-> m.at.referenceUri])

\* What the library PEX takes for a definition (external).
PexAccepts(d) == IsObject(d) /\ Requires(d, {"id", "input_descriptors"})

AsksFor(claims) ==
  LET vpToken == At(claims, "vp_token")
  IN  Truthy(vpToken, "presentation_definition") \/ Truthy(vpToken, "presentation_definition_uri")

\* Of the definition and its reference, the reference is taken.
ClaimsProperties(claims) ==
  LET vpToken == At(claims, "vp_token")
      way     == IF Truthy(vpToken, "presentation_definition_uri")
                   THEN "presentation_definition_uri" ELSE "presentation_definition"
      idToken == IF Has(claims, "id_token") THEN {"id_token"} ELSE {}
  IN  IF ~AsksFor(claims) THEN Undef
      ELSE Object([k \in idToken \cup {"vp_token"} |->
             IF k = "id_token" THEN claims.at[k] ELSE Object([j \in {way} |-> vpToken.at[j]])])

\* A definition that is only referred to may be refused or not.
DefinitionsMayPass(claims) ==
  ~AsksFor(claims) \/ LET d == At(At(claims, "vp_token"), "presentation_definition")
                      IN  d = Undef \/ PexAccepts(d)
DefinitionsMayFail(claims) ==
  AsksFor(claims) /\ ~PexAccepts(At(At(claims, "vp_token"), "presentation_definition"))

\* Without a client_id it is the metadata, if they are in the request.
ClientId(o, p) ==
  OrElse(p, "client_id",
         IF PassedBy(ClientMetadataOf(o), "VALUE")
           THEN createRPRegistrationMetadataPayload(ClientMetadataOf(o))
           ELSE RequestObjectOf(o).at.signatureType.at.did)

\* State and nonce are texts here: which ones is RequestPayloads' matter.
createRequestObjectPayload(o) ==
  LET p == At(RequestObjectOf(o), "payload")
      fields == [response_type |-> String("id_token"), scope |-> String("openid"),
                 client_id |-> ClientId(o, p), redirect_uri |-> At(p, "redirect_uri"),
                 response_mode |-> OrElse(p, "response_mode", String("post")),
                 id_token_hint |-> At(p, "id_token_hint"),
                 registration_uri |-> At(ClientMetadataOf(o), "referenceUri"),
                 nonce |-> String("n"), state |-> String("s"),
                 claims |-> ClaimsProperties(At(p, "claims"))]
  IN  IF p = Undef THEN Undef
      ELSE Spread(Defined(fields), createRequestRegistrationPayload(o))

\* The claims are those of the request object's options, if these have any.
createAuthorizationRequestPayload(o) ==
  LET p      == At(o, "payload")
      claims == At(Spread(p, At(RequestObjectOf(o), "payload")), "claims")
      given  == Defined([nonce |-> At(p, "nonce"), state |-> At(p, "state"), claims |-> claims])
  IN  IF p = Undef THEN Undef
      ELSE Spread(Spread(Without(p, {"nonce", "state", "claims"}), given), createRequestRegistrationPayload(o))

CreateRequest ==
  /\ stage = "built"
  /\ assertValidAuthorizationRequestOpts(rp)
  /\ DefinitionsMayPass(At(At(RequestObjectOf(rp), "payload"), "claims"))
  /\ object' = createRequestObjectPayload(rp)
  /\ outer' = createAuthorizationRequestPayload(rp)
  /\ Reach("created")
  /\ UNCHANGED <<received, verified, subject, checks>>

RefuseToCreate ==
  /\ stage = "built"
  /\ \/ ~assertValidAuthorizationRequestOpts(rp) /\ Refuse("request options")
     \/ /\ assertValidAuthorizationRequestOpts(rp)
        /\ DefinitionsMayFail(At(At(RequestObjectOf(rp), "payload"), "claims"))
        /\ Refuse("definition")

----------------------------------------------------------------------------
(* Signing.                                                                *)

isInternalSignature(sig) == {"hexPrivateKey", "did"} \subseteq Keys(sig)
isExternalSignature(sig) == {"signatureUri", "did"} \subseteq Keys(sig)
isSuppliedSignature(sig) == Has(sig, "signature")

\* What JSON.parse(JSON.stringify(...)) leaves of options: no functions.
JsonCopy(v) == Object([k \in {j \in Keys(v) : v.at[j] # Function} |-> v.at[k]])

\* determineSigner finds one.
HasSigner(sig) == Has(sig, "customJwtSigner") \/ (Truthy(sig, "hexPrivateKey") /\ TextAt(sig, "alg") # "RS256")

\* A request object has no iss, which signing by a service takes for granted.
SignsRequests(sig) ==
  \/ isInternalSignature(sig) /\ HasSigner(sig)
  \/ ~isInternalSignature(sig) /\ ~isExternalSignature(sig) /\ isSuppliedSignature(sig)

SignatureOfRequest == JsonCopy(RequestObjectOf(rp).at.signatureType)

\* Metadata by reference replace those in the request object.
Signed(payload, did) ==
  Spread(IF Truthy(payload, "registration_uri") THEN Without(payload, {"registration"}) ELSE payload,
         Object([iss |-> did, iat |-> Number(1), exp |-> Number(2)]))

SignRequest ==
  /\ stage = "created"
  /\ object # Undef => SignsRequests(SignatureOfRequest)
  /\ object' = IF object = Undef THEN Undef ELSE Signed(object, SignatureOfRequest.at.did)
  /\ Reach("signed")
  /\ UNCHANGED <<outer, received, verified, subject, checks>>

RefuseToSign ==
  /\ stage = "created" /\ object # Undef /\ ~SignsRequests(SignatureOfRequest)
  /\ Refuse("signature")

----------------------------------------------------------------------------
(* Definitions and metadata, wherever they are in a payload.               *)

\* A place has a definition, a reference to one that serves d, or neither.
Exclusive(place) == ~({"presentation_definition", "presentation_definition_uri"} \subseteq Keys(place))
DefinitionsAt(place, d) ==
  IF Has(place, "presentation_definition") THEN <<place.at.presentation_definition>>
  ELSE IF Has(place, "presentation_definition_uri") THEN <<d>> ELSE <<>>

VpTokenOf(m) == At(At(m, "claims"), "vp_token")

\* Faulty variant: the top level is left to draft 11.
DefinitionsByVersion(m, version, d) ==
  IF version < 110 THEN DefinitionsAt(VpTokenOf(m), d) ELSE DefinitionsAt(m, d)

\* Before draft 11 those in the claims, and in any version those at the top.
findPresentationDefinitions(m, version, d) ==
  (IF version < 110 THEN DefinitionsAt(VpTokenOf(m), d) ELSE <<>>) \o DefinitionsAt(m, d)

DefinitionsValid(m, version, d) ==
  /\ version < 110 => Exclusive(VpTokenOf(m))
  /\ Exclusive(m)
  /\ LET ds == findPresentationDefinitions(m, version, d) IN \A i \in DOMAIN ds : PexAccepts(ds[i])

assertValidRPRegistrationMetadataPayload(m) ==
  /\ RPRegistrationMetadataPayload(m)
  /\ At(m, "subject_syntax_types_supported") # Array(<<>>)

\* By reference it is what is served, by value what is there, if anything.
fetchByReferenceOrUseByValue(reference, value, served) == IF IsTrue(reference) THEN served ELSE value
MetadataValid(reference, m) ==
  IF m = Undef THEN ~IsTrue(reference) ELSE assertValidRPRegistrationMetadataPayload(m)

----------------------------------------------------------------------------
(* The URI.                                                                *)

\* URI.fromAuthorizationRequest looks for definitions in what it has signed.
UriPossible(d) ==
  object # Undef =>
    /\ DefinitionsValid(object, 0, d)
    /\ Has(object, "registration") => assertValidRPRegistrationMetadataPayload(object.at.registration)

\* The request travels as a JWT, or is served where its reference points.
Query(o) ==
  LET payload == IF outer = Undef THEN EmptyObject ELSE outer
      request == IF PassedBy(RequestObjectOf(o), "REFERENCE")
                   THEN Object([request_uri |-> RequestObjectOf(o).at.referenceUri])
                   ELSE IF object = Undef THEN EmptyObject ELSE Object([request |-> String("ey...")])
  IN  encodeJsonAsURI(Spread(Without(payload, {"request", "request_uri"}), request))

SendRequest(d) ==
  /\ stage = "signed" /\ UriPossible(d)
  /\ outer' = Query(rp)
  /\ Reach("sent")
  /\ UNCHANGED <<object, received, verified, subject, checks>>

RefuseToSend(d) ==
  /\ stage = "signed" /\ ~UriPossible(d)
  /\ Refuse(IF DefinitionsValid(object, 0, d) THEN "metadata" ELSE "definition")

\* URI.parseAndResolve: the parameters of draft 11 come first.
MetadataReference(p) ==
  IF Has(p, "client_metadata_uri") THEN p.at.client_metadata_uri ELSE At(p, "registration_uri")
MetadataValue(p) ==
  IF Has(p, "client_metadata") THEN p.at.client_metadata ELSE At(p, "registration")

ReadRequest(served) ==
  LET p == decodeUriAsJson(outer)
      m == fetchByReferenceOrUseByValue(MetadataReference(p), MetadataValue(p), served)
  IN  /\ stage = "sent" /\ Decodable(outer)
      /\ MetadataValid(MetadataReference(p), m)
      /\ received' = p
      /\ Reach("read")
      /\ UNCHANGED <<created, verified, subject, checks>>

\* The request cannot be decoded or fetched, or its metadata cannot be used.
RefuseToRead(served) ==
  /\ stage = "sent"
  /\ IF ~Decodable(outer) THEN Refuse("unreadable")
     ELSE LET p == decodeUriAsJson(outer)
              m == fetchByReferenceOrUseByValue(MetadataReference(p), MetadataValue(p), served)
          IN  \/ Truthy(p, "request_uri") /\ Refuse("unreachable")
              \/ ~MetadataValid(MetadataReference(p), m) /\ Refuse("metadata")

----------------------------------------------------------------------------
(* Verification by the OP, which is done again before the answer.          *)

\* What is signed takes precedence.
Merged == Spread(received, object)

DiscoveryKey(m) == IF Truthy(m, "registration") \/ Truthy(m, "registration_uri")
                     THEN "registration" ELSE "client_metadata"

\* Faulty variant: metadata of draft 1 do not rule out the later versions.
AnyMetadata(m) == TRUE

\* Neither metadata of draft 1 nor a definition in the claims.
WithoutDraft1(m) ==
  /\ ~Truthy(m, "registration_uri") /\ ~Truthy(m, "registration")
  /\ ~Truthy(At(m, "claims"), "vp_token")
WithoutDraft11(m) ==
  \A k \in {"client_metadata_uri", "client_metadata", "presentation_definition",
            "presentation_definition_uri"} : ~Truthy(m, k)

\* claims["vp_token"] of no claims is a TypeError.
LooksIntoNoClaims(m) ==
  /\ AuthorizationRequestPayloadVD11(m) \/ AuthorizationRequestPayloadVID1(m)
  /\ ~Truthy(m, "registration_uri") /\ ~Truthy(m, "registration")
  /\ ~Has(m, "claims")

authorizationRequestVersionDiscovery(m) ==
  (IF AuthorizationRequestPayloadVD11(m) /\ WithoutDraft1(m) THEN <<110>> ELSE <<>>)
  \o (IF AuthorizationRequestPayloadVID1(m) /\ WithoutDraft1(m) THEN <<71>> ELSE <<>>)
  \o (IF AuthorizationRequestPayloadVID1(m) /\ WithoutDraft11(m) THEN <<70>> ELSE <<>>)

MetadataAt(m, served) ==
  fetchByReferenceOrUseByValue(At(m, ReferenceKey[DiscoveryKey(m)]), At(m, DiscoveryKey(m)), served)

\* Only a client_id that is a DID has its domains checked.
DomainAsked(m) == TextAt(m, "client_id") \in Dids /\ Asked(setting.modes.op)

\* What a verification fails on, in the order of AuthorizationRequest.verify.
VerifyObstacle(served, d, result) ==
  LET m  == Merged
      vs == authorizationRequestVersionDiscovery(m)
  IN  IF object = Undef THEN "request object"
      ELSE IF ~MetadataValid(At(m, ReferenceKey[DiscoveryKey(m)]), MetadataAt(m, served)) THEN "metadata"
      ELSE IF ~IsString(At(m, "client_id")) THEN "client_id"
      ELSE IF TextAt(m, "client_id") \in Dids /\ ~DomainAccepted(setting.modes.op, result) THEN "domain"
      ELSE IF LooksIntoNoClaims(m) THEN "claims"
      ELSE IF vs = <<>> THEN "version"
      ELSE IF ~DefinitionsValid(m, vs[1], d) THEN "definition"
      ELSE "none"

isInAnswer == stage = "verified"

\* AuthorizationResponse.fromAuthorizationRequest verifies what is verified.
assertValidResponseOpts(o) ==
  LET sig == o.at.signatureType
  IN  Truthy(o, "did") /\ (isInternalSignature(sig) \/ isExternalSignature(sig) \/ isSuppliedSignature(sig))

VerifyRequest(served, d, result) ==
  /\ stage \in {"read", "verified"}
  /\ isInAnswer => assertValidResponseOpts(op)
  /\ VerifyObstacle(served, d, result) = "none"
  /\ metadata' = MetadataAt(Merged, served)
  /\ LET recognised == authorizationRequestVersionDiscovery(Merged)
     IN  /\ versions' = recognised
         /\ found' = findPresentationDefinitions(Merged, recognised[1], d)
  /\ checks' = IF DomainAsked(Merged) THEN Append(checks, [mode |-> setting.modes.op, result |-> result])
                                      ELSE checks
  /\ Reach(IF isInAnswer THEN "answering" ELSE "verified")
  /\ UNCHANGED <<created, received, subject>>

RefuseToVerify(served, d, result) ==
  /\ stage \in {"read", "verified"}
  /\ isInAnswer => assertValidResponseOpts(op)
  /\ VerifyObstacle(served, d, result) # "none"
  /\ Refuse(VerifyObstacle(served, d, result))

----------------------------------------------------------------------------
(* The answer.                                                             *)

\* The metadata of draft 1 that are in the request itself, and no others.
SupportedSyntaxTypes(m) == At(At(m, "registration"), "subject_syntax_types_supported")

\* A service may be out of reach; a supplied function signs.
SignsAnswers(sig, reachable) ==
  IF isInternalSignature(sig) THEN HasSigner(sig)
  ELSE IF isExternalSignature(sig) THEN reachable ELSE isSuppliedSignature(sig)

VpsOf(o) == At(At(o, "presentationExchange"), "vps")
VpsAt(o, location) ==
  IF VpsOf(o) = Undef THEN {}
  ELSE {i \in DOMAIN VpsOf(o).of : VpsOf(o).of[i].at.location = String(location)}

\* The presentations of the answer: that for the vp_token, or those for the
\* ID token, and the submission that the options hold besides.
Presented(o) ==
  Cardinality(IF VpsAt(o, "vp_token") = {} THEN VpsAt(o, "id_token") ELSE VpsAt(o, "vp_token"))
    + IF Has(At(o, "presentationExchange"), "_vp_token") THEN 1 ELSE 0

\* Faulty variant: without a definition, presentations are not counted.
FitsIfAsked(o, matching) == found = <<>> \/ (Len(found) = 1 /\ Presented(o) = 1 /\ matching)

PresentationsFit(o, matching) ==
  \/ found = <<>> /\ Presented(o) = 0
  \/ Len(found) = 1 /\ Presented(o) = 1 /\ matching

\* A request object that was referred to is fetched once more.
AnswerObstacle(reachable, matching) ==
  IF Has(received, "request_uri") /\ ~reachable THEN "unreachable"
  ELSE IF SupportedSyntaxTypes(Merged) = Undef THEN "syntax types"
  ELSE IF Cardinality(VpsAt(op, "vp_token")) > 1 THEN "presentations"
  ELSE IF ~SignsAnswers(op.at.signatureType, reachable) THEN "answer signature"
  ELSE IF ~PresentationsFit(op, matching) THEN "presentations"
  ELSE "none"

Answer(reachable, matching) ==
  /\ stage = "answering" /\ AnswerObstacle(reachable, matching) = "none"
  /\ subject' = TextAt(op, "did")
  /\ Reach("answered")
  /\ UNCHANGED <<created, received, verified, checks>>

RefuseToAnswer(reachable, matching) ==
  \/ stage = "verified" /\ ~assertValidResponseOpts(op) /\ Refuse("answer signature")
  \/ /\ stage = "answering" /\ AnswerObstacle(reachable, matching) # "none"
     /\ Refuse(AnswerObstacle(reachable, matching))

\* getSubDidFromPayload, and the check of the domains of that DID.
CheckSubject(result) ==
  /\ stage = "answered"
  /\ subject \in Dids /\ DomainAccepted(setting.modes.rp, result)
  /\ checks' = IF Asked(setting.modes.rp) THEN Append(checks, [mode |-> setting.modes.rp, result |-> result])
                                          ELSE checks
  /\ Reach("accepted")
  /\ UNCHANGED <<created, received, verified, subject>>

RefuseSubject(result) ==
  /\ stage = "answered"
  /\ \/ subject \notin Dids /\ Refuse("subject")
     \/ subject \in Dids /\ ~DomainAccepted(setting.modes.rp, result) /\ Refuse("domain")

----------------------------------------------------------------------------
Next ==
  \/ BuildParties \/ RefuseOptions
  \/ CreateRequest \/ RefuseToCreate
  \/ SignRequest \/ RefuseToSign
  \/ \E d \in ServedDefs : SendRequest(d) \/ RefuseToSend(d)
  \/ \E served \in Served : ReadRequest(served) \/ RefuseToRead(served)
  \/ \E served \in Served, d \in ServedDefs, result \in DomainChecks :
       VerifyRequest(served, d, result) \/ RefuseToVerify(served, d, result)
  \/ \E reachable, matching \in BOOLEAN :
       Answer(reachable, matching) \/ RefuseToAnswer(reachable, matching)
  \/ \E result \in DomainChecks : CheckSubject(result) \/ RefuseSubject(result)

Spec == Init /\ [][Next]_vars

----------------------------------------------------------------------------
Stages   == {"given", "built", "created", "signed", "sent", "read", "verified", "answering", "answered",
             "accepted", "refused"}
Obstacle == {"options", "request options", "definition", "signature", "metadata", "unreadable", "unreachable",
             "request object", "client_id", "domain", "claims", "version", "syntax types", "presentations",
             "answer signature", "subject"}

\* What an OP has read holds texts and objects only: the URI turns all other
\* values into texts.
TypeOK ==
  /\ stage \in Stages
  /\ IF stage = "refused" THEN reason \in Obstacle ELSE reason = "none"
  /\ IsObject(object) \/ object = Undef
  /\ IsObject(outer) \/ outer = Undef
  /\ \A k \in Keys(received) : IsString(received.at[k]) \/ IsObject(received.at[k])
  /\ versions \in Seq({70, 71, 110})
  /\ subject \in {"none", TextAt(op, "did")}
  /\ checks \in Seq([mode: Modes, result: DomainChecks])

Understood == stage \in {"verified", "answering", "answered", "accepted"}

RequestPayloadOf(o) == At(RequestObjectOf(o), "payload")
EitherClaims(o)     == At(Spread(At(o, "payload"), RequestPayloadOf(o)), "claims")
Wanted(o)           == At(EitherClaims(o), "vp_token")
MetadataInside(o)   == PassedBy(ClientMetadataOf(o), "VALUE")
Referred(o)         == Truthy(ClientMetadataOf(o), "referenceUri")

(***************************************************************************)
(* The drafts do not mix: a request of draft 1 is recognised as that and   *)
(* nothing else, one of draft 11 never as draft 1, and first of all as     *)
(* draft 11 if it makes no claims and the schema knows its definition.     *)
(* The OP and the RP decide this from different things, the schemas and    *)
(* the options.                                                            *)
(***************************************************************************)
KnownDefinition(place) ==
  Has(place, "presentation_definition") =>
    \/ PresentationDefinitionV1(place.at.presentation_definition)
    \/ PresentationDefinitionV2(place.at.presentation_definition)

RecognisedAsIssued ==
  Understood =>
    /\ VersionOf(rp) = 70 => versions = <<70>>
    /\ IsDraft11(rp) => \A i \in DOMAIN versions : versions[i] # 70
    /\ IsDraft11(rp) /\ EitherClaims(rp) = EmptyObject /\ KnownDefinition(At(rp, "payload")) =>
         versions[1] = 110

\* Keys in the options sign, with any algorithm but RS256.
OwnKey(sig) == isInternalSignature(sig) /\ TextAt(sig, "alg") # "RS256" /\ TextAt(sig, "hexPrivateKey") # ""

DefinitionsIn(o) ==
  {p \in {Wanted(o), At(o, "payload"), RequestPayloadOf(o)} : p # Undef}
GoodDefinition(p) ==
  /\ Exclusive(p) /\ ~Has(p, "presentation_definition_uri")
  /\ Has(p, "presentation_definition") => PexAccepts(p.at.presentation_definition)

DefinitionPlaces == {"presentation_definition", "presentation_definition_uri"}

\* Somewhere the options of an RP ask for a presentation, those of an OP
\* hold something to present.
AskedAnywhere(o) == \E p \in DefinitionsIn(o), k \in DefinitionPlaces : Has(p, k)
Presents(o)      == \/ VpsAt(o, "vp_token") # {} \/ VpsAt(o, "id_token") # {}
                    \/ Has(At(o, "presentationExchange"), "_vp_token")

KnownClaims(claims) ==
  /\ Closed(claims, {"id_token", "vp_token"}) /\ Properties(claims, {"id_token"}, IsObject)
  /\ LET vpToken == At(claims, "vp_token")
     IN  Has(claims, "vp_token") =>
           /\ Closed(vpToken, DefinitionPlaces) /\ KnownDefinition(vpToken)
           /\ Properties(vpToken, {"presentation_definition_uri"}, IsString)

\* The places where each version has definitions, and the claims it knows.
VersionFits(o) ==
  /\ IF IsDraft11(o) THEN ~Truthy(EitherClaims(o), "vp_token") /\ ~Referred(o)
                     ELSE \A k \in DefinitionPlaces : ~Has(At(o, "payload"), k)
  /\ EitherClaims(o) # Undef => KnownClaims(EitherClaims(o))

\* Without an unsigned payload there is nothing else that claims are in.
NoClaims(o)     == EitherClaims(o) = Undef \/ ~Has(o, "payload")
EmptyList(v)    == v.is = "array" /\ DOMAIN v.of = {}
Unreadable(t)   == t \in {BadPercent, EscapedQuote, BracedText}

(***************************************************************************)
(* Every request that the RP's schema lets pass and that is refused later  *)
(* on is refused for something in the options: the code has no other way   *)
(* to fail, whatever the parties and the versions.                         *)
(***************************************************************************)
DeliveryExplained ==
  /\ reason = "signature"    => ~OwnKey(RequestObjectOf(rp).at.signatureType)
  /\ reason = "definition"   => \E p \in DefinitionsIn(rp) : ~GoodDefinition(p)
  /\ reason = "metadata"     => Referred(rp) \/ EmptyList(At(ClientMetadataOf(rp), "subjectSyntaxTypesSupported"))
  /\ reason = "unreadable"   => \E k \in Keys(outer) : \E t \in TextsOf(outer.at[k]) : Unreadable(t)
  /\ reason = "unreachable"  => PassedBy(RequestObjectOf(rp), "REFERENCE")
  /\ reason = "request object" => ~Has(RequestObjectOf(rp), "payload")
  /\ reason = "client_id"    => ~Truthy(RequestPayloadOf(rp), "client_id") /\ MetadataInside(rp)

AcceptanceExplained ==
  /\ reason = "claims"       => IsDraft11(rp) /\ NoClaims(rp)
  /\ reason = "version"      => ~VersionFits(rp)
  /\ reason = "syntax types" => IsDraft11(rp) \/ ~MetadataInside(rp) \/ ~Has(rp, "payload")
  /\ reason = "answer signature" => ~Truthy(op, "did") \/ ~OwnKey(op.at.signatureType)
  /\ reason = "presentations" => AskedAnywhere(rp) \/ Presents(op)
  /\ reason = "domain"       => setting.modes # [op |-> "never", rp |-> "never"]
  /\ reason = "subject"      => TextAt(op, "did") \notin Dids

\* Both, from the options of the RP to the last check of the answer.
RefusalsExplained == DeliveryExplained /\ AcceptanceExplained

(***************************************************************************)
(* What the OP finds in a request it accepts is what the RP was given: the *)
(* metadata that were passed by value, and the definition in the claims of *)
(* the request object or at the top level of the payload.  Signed, it is   *)
(* the same to the last text; what only travels in the query is read once  *)
(* more.  Of a definition at the top level of the request object nothing   *)
(* is said, and what was asked for nowhere is not found.                   *)
(***************************************************************************)
RequestArrives ==
  Understood =>
    /\ MetadataInside(rp) /\ ~Referred(rp) =>
         metadata = createRPRegistrationMetadataPayload(ClientMetadataOf(rp))
    /\ Has(At(At(RequestPayloadOf(rp), "claims"), "vp_token"), "presentation_definition") =>
         Has(Wanted(rp), "presentation_definition_uri") \/ found = <<Wanted(rp).at.presentation_definition>>
    /\ LET d == At(At(rp, "payload"), "presentation_definition")
       IN  d # Undef /\ EscapedLetter \notin TextsOf(d) => found = <<d>>
    /\ ~AskedAnywhere(rp) => found = <<>>

(***************************************************************************)
(* An answer presents something if and only if the RP asked for it,        *)
(* wherever its options said so and however those of the OP hold their     *)
(* presentations: options, definitions and presentations meet only after   *)
(* the signature, the URI and the discovery of a version.                  *)
(***************************************************************************)
PresentedAsAsked ==
  stage \in {"answered", "accepted"} =>
    /\ ~AskedAnywhere(rp) => Presented(op) = 0
    /\ \/ AsksFor(EitherClaims(rp))
       \/ \E k \in DefinitionPlaces : Truthy(At(rp, "payload"), k)
       => Presented(op) = 1

(***************************************************************************)
(* Nobody goes on whose domains were to be checked and did not pass: with  *)
(* "always" the DID is linked to a domain, with "if_present", which is the *)
(* default of both sides, it is or all there is to be said is that nothing *)
(* is linked.  The errors of the check do not get lost in its own catch.   *)
(***************************************************************************)
SaysNothingIsLinked(result) ==
  IF result.is = "thrown" THEN result.message = "absent"
  ELSE LET said == {result.message} \cup UNION {{e.message} \cup {e.resources[j] : j \in DOMAIN e.resources} :
                                                  e \in {result.endpoints[i] : i \in DOMAIN result.endpoints}}
       IN  "absent" \in said /\ "bad" \notin said

DomainAsDemanded ==
  /\ \A i \in DOMAIN checks :
       \/ checks[i].result = Valid
       \/ /\ checks[i].mode # "always" /\ checks[i].result.is \in {"thrown", "invalid"}
          /\ SaysNothingIsLinked(checks[i].result)
  /\ stage = "accepted" =>
       Len(checks) = (IF DomainAsked(Merged) THEN 2 ELSE 0) + (IF setting.modes.rp = "never" THEN 0 ELSE 1)

(***************************************************************************)
(* The metadata that the parties publish satisfy the schemas of what is    *)
(* published whenever their options satisfied those of options, and names  *)
(* in other languages keep their languages.                                *)
(***************************************************************************)
LanguagesKept(options, payload) ==
  \A k \in Keys(options) \cap NamesInLanguages :
    TagOf[k] \in ValidTags => At(payload, TaggedName(k)) = options.at[k]

PublishedAsSpecified ==
  stage = "built" =>
    /\ LET payload == createDiscoveryMetadataPayload(op.at.registration)
       IN  DiscoveryMetadataPayload(payload) /\ LanguagesKept(op.at.registration, payload)
    /\ Has(rp, "clientMetadata") =>
         LET payload == createRPRegistrationMetadataPayload(ClientMetadataOf(rp))
         IN  RPRegistrationMetadataPayload(payload) /\ LanguagesKept(ClientMetadataOf(rp), payload)

----------------------------------------------------------------------------
(***************************************************************************)
(* A promise of the documentation, which the code does not keep: values    *)
(* "can be either passed by value [...] or passed by reference", and all   *)
(* drafts are supported.  The OP does not fail for want of syntax types if *)
(* they are in the metadata that it found when it verified the request.    *)
(***************************************************************************)
FoundMetadataSuffice == reason = "syntax types" => ~Has(metadata, "subject_syntax_types_supported")

----------------------------------------------------------------------------
(***************************************************************************)
(* What the theorems on the arrival of a request suppose of the options,   *)
(* where the schemas, which know no other limit, let more pass: a payload  *)
(* brings no metadata of its own beside those of the options, and of the   *)
(* fields that requests have and options do not, texts at most, and no     *)
(* times, which the URI makes texts of; what asks for a definition is not  *)
(* empty, for empty values are left out of a URI; and definitions and      *)
(* claims are JSON values, nested at most Depth deep.                      *)
(***************************************************************************)
RegistrationKeys == {"registration", "registration_uri", "client_metadata", "client_metadata_uri"}

NoMetadataBesides ==
  \A s \in Settings : \A k \in RegistrationKeys : ~Has(At(s.rp, "payload"), k)

FieldsOfOptions ==
  \A s \in Settings :
    /\ \A k \in {"nbf", "rexp"} : ~Has(At(s.rp, "payload"), k)
    /\ Properties(At(s.rp, "payload"), {"sub", "type", "jti", "aud", "id_token_type",
                                        "presentation_definition_uri"}, IsString)

NoEmptyDefinition ==
  \A s \in Settings : \A k \in DefinitionPlaces : Has(Wanted(s.rp), k) => Truthy(Wanted(s.rp), k)

DefinitionsAreValues ==
  \A s \in Settings : LET d == At(At(s.rp, "payload"), "presentation_definition")
                      IN  Has(At(s.rp, "payload"), "presentation_definition") => IsTrue(d) /\ JsonValue(d)

ClaimsAreValues ==
  \A s \in Settings : LET claims == EitherClaims(s.rp) IN claims # Undef => JsonValue(claims)

=============================================================================
