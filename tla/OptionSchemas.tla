--------------------------- MODULE OptionSchemas ---------------------------
(***************************************************************************)
(* The JSON schema that the options of an RP are held against when it is   *)
(* built, AuthorizationRequestOpts.schema.ts.  The definitions it shares   *)
(* with the schemas of requests have the same text there.                  *)
(***************************************************************************)
EXTENDS RequestSchemas

PassBy(v) == OneOf(v, {"NONE", "REFERENCE", "VALUE"})

----------------------------------------------------------------------------
(* Signatures.  A schema cannot tell functions, and lets anything pass for *)
(* one that does not say that it is none.                                  *)

Signer(v) == Has(v, "isFunction") => v.at.isFunction = Boolean(TRUE)

SignatureOf(v, ks, required) ==
  /\ Closed(v, ks) /\ Requires(v, required)
  /\ Properties(v, ks \ {"alg", "customJwtSigner", "signature"}, IsString)
  /\ Properties(v, {"alg"}, SigningAlgo)
  /\ Properties(v, {"customJwtSigner", "signature"}, Signer)

InternalSignature(v) ==
  SignatureOf(v, {"hexPrivateKey", "did", "alg", "kid", "customJwtSigner"}, {"hexPrivateKey", "did", "alg"})
ExternalSignature(v) ==
  SignatureOf(v, {"signatureUri", "did", "authZToken", "hexPublicKey", "alg", "kid"},
              {"signatureUri", "did", "alg"})
SuppliedSignature(v) ==
  SignatureOf(v, {"signature", "alg", "did", "kid"}, {"signature", "alg", "did", "kid"})
NoSignature(v) ==
  SignatureOf(v, {"hexPublicKey", "did", "kid"}, {"hexPublicKey", "did"})

SignatureType(v) ==
  InternalSignature(v) \/ ExternalSignature(v) \/ SuppliedSignature(v) \/ NoSignature(v)

----------------------------------------------------------------------------
(* The options of an RP.                                                   *)

SupportedVersion(v) == v.is = "number" /\ v.value \in {70, 71, 110}

\* The names and the formats may be anything: the schema has an empty
\* alternative for each of them.
ClientMetadataOpts(v) ==
  /\ IsObject(v) /\ Requires(v, {"passBy"}) /\ PassBy(v.at.passBy)
  /\ Properties(v, {"referenceUri", "id_token_encrypted_response_alg",
                    "id_token_encrypted_response_enc"}, IsString)
  /\ Properties(v, {"idTokenSigningAlgValuesSupported", "requestObjectSigningAlgValuesSupported"}, SigningAlgos)
  /\ Properties(v, {"responseTypesSupported"}, ResponseTypes)
  /\ Properties(v, {"scopesSupported"}, Scopes)
  /\ Properties(v, {"subjectTypesSupported"}, SubjectTypes)
  /\ Properties(v, {"subjectSyntaxTypesSupported"}, Strings)

IPresentationDefinition(v) == PresentationDefinition(v)

PresentationDefinitionPayloadOpts(v) ==
  /\ Closed(v, {"presentation_definition", "presentation_definition_uri"})
  /\ Properties(v, {"presentation_definition"}, IPresentationDefinition)
  /\ Properties(v, {"presentation_definition_uri"}, IsString)

ClaimPayloadOptsVID1(v) ==
  /\ IsObject(v)
  /\ Properties(v, {"id_token"}, IsObject)
  /\ Properties(v, {"vp_token"}, PresentationDefinitionPayloadOpts)

\* The claims of draft 11, whatever they are.
ClaimPayloadCommonOpts(v) == IsObject(v)

PayloadOptsBesidesClaims(v) ==
  /\ IsObject(v)
  /\ Properties(v, {"scope", "response_type", "client_id", "redirect_uri", "id_token_hint", "nonce",
                    "state", "authorization_endpoint"}, IsString)
  /\ Properties(v, {"response_mode"}, ResponseMode)
  /\ Properties(v, {"response_types_supported"}, ResponseTypes)
  /\ Properties(v, {"scopes_supported"}, Scopes)
  /\ Properties(v, {"subject_types_supported"}, SubjectTypes)
  /\ Properties(v, {"request_object_signing_alg_values_supported"}, SigningAlgos)

AuthorizationRequestPayloadOptsVID1(v) ==
  /\ PayloadOptsBesidesClaims(v) /\ Properties(v, {"claims"}, ClaimPayloadOptsVID1)
  /\ Properties(v, {"request_uri"}, IsString)
AuthorizationRequestPayloadOptsCommon(v) ==
  /\ PayloadOptsBesidesClaims(v) /\ Properties(v, {"claims"}, ClaimPayloadCommonOpts)
  /\ Properties(v, {"request_uri"}, IsString)

RequiredOfRequestObject == {"scope", "response_type", "client_id", "redirect_uri"}

RequestObjectPayloadOptsVID1(v) ==
  /\ PayloadOptsBesidesClaims(v) /\ Properties(v, {"claims"}, ClaimPayloadOptsVID1)
  /\ Requires(v, RequiredOfRequestObject)
RequestObjectPayloadOptsCommon(v) ==
  /\ PayloadOptsBesidesClaims(v) /\ Properties(v, {"claims"}, ClaimPayloadCommonOpts)
  /\ Requires(v, RequiredOfRequestObject)

RequestObjectOptsBesidesPayload(v) ==
  /\ Closed(v, {"passBy", "referenceUri", "payload", "signatureType"})
  /\ Requires(v, {"passBy", "signatureType"})
  /\ PassBy(v.at.passBy) /\ SignatureType(v.at.signatureType)
  /\ Properties(v, {"referenceUri"}, IsString)

RequestObjectOptsVID1(v) ==
  RequestObjectOptsBesidesPayload(v) /\ Properties(v, {"payload"}, RequestObjectPayloadOptsVID1)
RequestObjectOptsCommon(v) ==
  RequestObjectOptsBesidesPayload(v) /\ Properties(v, {"payload"}, RequestObjectPayloadOptsCommon)

RequestOptsKeys == {"version", "clientMetadata", "payload", "requestObject", "uriScheme"}

AuthorizationRequestOptsVID1(v) ==
  /\ Closed(v, RequestOptsKeys) /\ Requires(v, {"version", "requestObject"})
  /\ SupportedVersion(v.at.version) /\ RequestObjectOptsVID1(v.at.requestObject)
  /\ Properties(v, {"clientMetadata"}, ClientMetadataOpts)
  /\ Properties(v, {"payload"}, AuthorizationRequestPayloadOptsVID1)
  /\ Properties(v, {"uriScheme"}, IsString)

AuthorizationRequestOptsVD11(v) ==
  /\ Closed(v, RequestOptsKeys \cup {"idTokenType"}) /\ Requires(v, {"version", "requestObject"})
  /\ SupportedVersion(v.at.version) /\ RequestObjectOptsCommon(v.at.requestObject)
  /\ Properties(v, {"clientMetadata"}, ClientMetadataOpts)
  /\ Properties(v, {"payload"}, AuthorizationRequestPayloadOptsCommon)
  /\ Properties(v, {"uriScheme", "idTokenType"}, IsString)

\* Either alternative takes every version, so what the one demands of claims
\* the other lets pass.
CreateAuthorizationRequestOpts(v) == AuthorizationRequestOptsVID1(v) \/ AuthorizationRequestOptsVD11(v)

=============================================================================
