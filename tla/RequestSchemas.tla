-------------------------- MODULE RequestSchemas --------------------------
(***************************************************************************)
(* The JSON schemas that a request is held against: the payload of each    *)
(* version of the specification, the metadata of a relying party and the   *)
(* presentation definitions.  Each definition of a schema is the predicate *)
(* of the values it accepts.  The definitions that the three files of      *)
(* schemas share are the same text in each, and are written once.          *)
(*                                                                         *)
(* Bound: submission requirements nest at most two levels deep.            *)
(***************************************************************************)
EXTENDS JsonValues

SigningAlgo(v)  == OneOf(v, {"EdDSA", "RS256", "ES256", "ES256K"})
ResponseType(v) == OneOf(v, {"id_token", "vp_token"})
Scope(v)        == OneOf(v, {"openid", "openid did_authn", "profile", "email", "address", "phone"})
SubjectType(v)  == OneOf(v, {"public", "pairwise"})
ResponseMode(v) == OneOf(v, {"fragment", "form_post", "post", "query"})
Rules(v)        == OneOf(v, {"all", "pick"})
Optionality(v)  == OneOf(v, {"required", "preferred"})
Directives(v)   == OneOf(v, {"required", "allowed", "disallowed"})

----------------------------------------------------------------------------
(* The metadata of a relying party.                                        *)

JwtObject(v) == Closed(v, {"alg"}) /\ Requires(v, {"alg"}) /\ Strings(v.at.alg)
LdpObject(v) == Closed(v, {"proof_type"}) /\ Requires(v, {"proof_type"}) /\ Strings(v.at.proof_type)

JwtFormats == {"jwt", "jwt_vc", "jwt_vp"}
LdpFormats == {"ldp", "ldp_vc", "ldp_vp"}

Format(v) ==
  /\ Closed(v, JwtFormats \cup LdpFormats)
  /\ Properties(v, JwtFormats, JwtObject)
  /\ Properties(v, LdpFormats, LdpObject)

SigningAlgos(v)  == SomeOf(v, SigningAlgo)
ResponseTypes(v) == SomeOf(v, ResponseType)
Scopes(v)        == SomeOf(v, Scope)
SubjectTypes(v)  == SomeOf(v, SubjectType)

\* Other fields may have any value, vp_formats and client_name included: the
\* schema has an empty alternative for each of them.
RPRegistrationMetadataPayload(v) ==
  /\ IsObject(v)
  /\ Properties(v, {"id_token_signing_alg_values_supported",
                    "request_object_signing_alg_values_supported"}, SigningAlgos)
  /\ Properties(v, {"response_types_supported"}, ResponseTypes)
  /\ Properties(v, {"scopes_supported"}, Scopes)
  /\ Properties(v, {"subject_types_supported"}, SubjectTypes)
  /\ Properties(v, {"subject_syntax_types_supported"}, Strings)

----------------------------------------------------------------------------
(* Presentation definitions.                                               *)

Named == {"id", "name", "purpose"}

NoSubmissionRequirement(v) == FALSE

FlatRequirement(v) ==
  /\ Closed(v, {"name", "purpose", "rule", "count", "min", "max", "from", "from_nested"})
  /\ Requires(v, {"rule"}) /\ Rules(v.at.rule)
  /\ Properties(v, {"name", "purpose", "from"}, IsString)
  /\ Properties(v, {"count", "min", "max"}, IsNumber)

NestedRequirement(v) ==
  LET leaves(w) == ArrayOf(w, NoSubmissionRequirement)
  IN  FlatRequirement(v) /\ Properties(v, {"from_nested"}, leaves)

SubmissionRequirement(v) ==
  LET nested(w) == ArrayOf(w, NestedRequirement)
  IN  FlatRequirement(v) /\ Properties(v, {"from_nested"}, nested)

Schema(v) ==
  /\ Closed(v, {"uri", "required"}) /\ Requires(v, {"uri"})
  /\ Properties(v, {"uri"}, IsString) /\ Properties(v, {"required"}, IsBoolean)

PdStatus(v) == Closed(v, {"directive"}) /\ Properties(v, {"directive"}, Directives)
Statuses(v) ==
  LET states == {"active", "suspended", "revoked"}
  IN  Closed(v, states) /\ Properties(v, states, PdStatus)

HolderSubject(v) ==
  /\ Closed(v, {"field_id", "directive"}) /\ Requires(v, {"field_id", "directive"})
  /\ Strings(v.at.field_id) /\ Optionality(v.at.directive)

\* A filter is closed, and knows `_const` and `_enum`, not the `const` and
\* `enum` of JSON schemas.
Bounds         == {"exclusiveMinimum", "exclusiveMaximum", "minimum", "maximum"}
FormatBounds   == {"formatMaximum", "formatMinimum", "formatExclusiveMaximum", "formatExclusiveMinimum"}
Constant(v)    == v.is \in {"number", "string", "null"}
EnumElement(v) == v.is \in {"number", "string"}
Enumeration(v) == ArrayOf(v, EnumElement)

FilterWith(v, texts) ==
  /\ Closed(v, Bounds \cup texts \cup {"_const", "_enum", "minLength", "maxLength", "not"})
  /\ Requires(v, {"type"})
  /\ Properties(v, Bounds \cup {"_const"}, Constant)
  /\ Properties(v, {"_enum"}, Enumeration)
  /\ Properties(v, {"minLength", "maxLength"}, IsNumber)
  /\ Properties(v, {"not"}, IsObject)
  /\ Properties(v, texts, IsString)

FilterV1(v) == FilterWith(v, {"format", "pattern", "type"})
FilterV2(v) == FilterWith(v, {"format", "pattern", "type"} \cup FormatBounds)

FieldBesidesFilter(v) ==
  /\ Closed(v, {"id", "path", "purpose", "filter", "predicate"})
  /\ Properties(v, {"id", "purpose"}, IsString)
  /\ Properties(v, {"path"}, Strings)
  /\ Properties(v, {"predicate"}, Optionality)

FieldV1(v) == FieldBesidesFilter(v) /\ Properties(v, {"filter"}, FilterV1)
FieldV2(v) == FieldBesidesFilter(v) /\ Properties(v, {"filter"}, FilterV2)

HolderSubjects(v) == ArrayOf(v, HolderSubject)

ConstraintsBesidesFields(v) ==
  /\ Closed(v, {"limit_disclosure", "statuses", "fields", "subject_is_issuer", "is_holder", "same_subject"})
  /\ Properties(v, {"limit_disclosure", "subject_is_issuer"}, Optionality)
  /\ Properties(v, {"statuses"}, Statuses)
  /\ Properties(v, {"is_holder", "same_subject"}, HolderSubjects)

FieldsV1(v)      == ArrayOf(v, FieldV1)
FieldsV2(v)      == ArrayOf(v, FieldV2)
ConstraintsV1(v) == ConstraintsBesidesFields(v) /\ Properties(v, {"fields"}, FieldsV1)
ConstraintsV2(v) == ConstraintsBesidesFields(v) /\ Properties(v, {"fields"}, FieldsV2)

Schemas(v) == ArrayOf(v, Schema)

\* The first version of presentation exchange demands a schema of each
\* descriptor, the second one knows no schema.
InputDescriptorV1(v) ==
  /\ Closed(v, Named \cup {"group", "schema", "constraints"}) /\ Requires(v, {"id", "schema"})
  /\ Properties(v, Named, IsString) /\ Properties(v, {"group"}, Strings)
  /\ Properties(v, {"schema"}, Schemas)
  /\ Properties(v, {"constraints"}, ConstraintsV1)

InputDescriptorV2(v) ==
  /\ Closed(v, Named \cup {"group", "constraints"}) /\ Requires(v, {"id"})
  /\ Properties(v, Named, IsString) /\ Properties(v, {"group"}, Strings)
  /\ Properties(v, {"constraints"}, ConstraintsV2)

SubmissionRequirements(v) == ArrayOf(v, SubmissionRequirement)
InputDescriptorsV1(v)     == ArrayOf(v, InputDescriptorV1)
InputDescriptorsV2(v)     == ArrayOf(v, InputDescriptorV2)

DefinitionBesidesDescriptors(v, ks) ==
  /\ Closed(v, ks) /\ Requires(v, {"id", "input_descriptors"})
  /\ Properties(v, Named, IsString)
  /\ Properties(v, {"format"}, Format)
  /\ Properties(v, {"submission_requirements"}, SubmissionRequirements)

DefinitionKeys == Named \cup {"format", "submission_requirements", "input_descriptors"}

PresentationDefinitionV1(v) ==
  /\ DefinitionBesidesDescriptors(v, DefinitionKeys)
  /\ Properties(v, {"input_descriptors"}, InputDescriptorsV1)

PresentationDefinitionV2(v) ==
  /\ DefinitionBesidesDescriptors(v, DefinitionKeys \cup {"frame"})
  /\ Properties(v, {"input_descriptors"}, InputDescriptorsV2)
  /\ Properties(v, {"frame"}, IsObject)

\* Faulty variant: only definitions of the second version.
LatestPresentationDefinition(v) == PresentationDefinitionV2(v)

PresentationDefinition(v) == PresentationDefinitionV1(v) \/ PresentationDefinitionV2(v)

----------------------------------------------------------------------------
(* The payload of a request.  Fields that the schemas do not name are      *)
(* accepted, whatever they hold.                                           *)

TextFields == {"iss", "sub", "type", "jti", "scope", "response_type", "client_id", "redirect_uri",
          "id_token_hint", "nonce", "state", "request", "request_uri"}
TimeFields == {"iat", "nbf", "exp", "rexp"}

Audience(v) == SomeOf(v, IsString)

PayloadBesidesClaims(v) ==
  /\ IsObject(v)
  /\ Properties(v, TextFields, IsString)
  /\ Properties(v, TimeFields, IsNumber)
  /\ Properties(v, {"aud"}, Audience)
  /\ Properties(v, {"response_mode"}, ResponseMode)

VpTokenClaimPayload(v) ==
  /\ Closed(v, {"presentation_definition", "presentation_definition_uri"})
  /\ Properties(v, {"presentation_definition"}, PresentationDefinition)
  /\ Properties(v, {"presentation_definition_uri"}, IsString)

IdTokenClaimPayload(v) == IsObject(v)

ClaimPayloadVID1(v) ==
  /\ Closed(v, {"id_token", "vp_token"})
  /\ Properties(v, {"id_token"}, IdTokenClaimPayload)
  /\ Properties(v, {"vp_token"}, VpTokenClaimPayload)

\* Draft 11 leaves no claim in `claims`.
ClaimPayloadCommon(v) == Closed(v, {})

AuthorizationRequestPayloadVID1(v) ==
  /\ PayloadBesidesClaims(v) /\ Properties(v, {"claims"}, ClaimPayloadVID1)
  /\ Properties(v, {"registration"}, RPRegistrationMetadataPayload)
  /\ Properties(v, {"registration_uri"}, IsString)

\* An array holds definitions of one version.
TopLevelDefinition(v) ==
  \/ PresentationDefinition(v)
  \/ ArrayOf(v, PresentationDefinitionV1)
  \/ ArrayOf(v, PresentationDefinitionV2)

AuthorizationRequestPayloadVD11(v) ==
  /\ PayloadBesidesClaims(v) /\ Properties(v, {"claims"}, ClaimPayloadCommon)
  /\ Properties(v, {"client_metadata"}, RPRegistrationMetadataPayload)
  /\ Properties(v, {"client_metadata_uri", "id_token_type", "presentation_definition_uri"}, IsString)
  /\ Properties(v, {"presentation_definition"}, TopLevelDefinition)

=============================================================================
