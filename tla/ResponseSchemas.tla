-------------------------- MODULE ResponseSchemas --------------------------
(***************************************************************************)
(* The JSON schemas on the side of the OP: the options it is built from,   *)
(* AuthorizationResponseOpts.schema.ts, with the presentations they may    *)
(* hold, and the metadata it publishes, DiscoveryMetadataPayload.schema.ts.*)
(* The two metadata schemas are tables from fields to the kind of value a  *)
(* field has; a field that is in no table may have any value.              *)
(*                                                                         *)
(* Bound: descriptors of a submission nest at most two levels deep.        *)
(***************************************************************************)
EXTENDS OptionSchemas

ResponseIss(v) == OneOf(v, {"https://self-issued.me", "https://self-issued.me/v2"})
GrantType(v)   == OneOf(v, {"authorization_code", "implicit"})
ClaimType(v)   == OneOf(v, {"normal", "aggregated", "distributed"})
IdTokenType(v) == OneOf(v, {"subject_signed", "attester_signed"})
AuthenticationContextReferences(v) == OneOf(v, {"phr", "phrh"})
TokenEndpointAuthMethod(v) ==
  OneOf(v, {"client_secret_post", "client_secret_basic", "client_secret_jwt", "private_key_jwt"})

\* "some X": an X or an array of them.
Fits(v, kind) ==
  CASE kind = "string"            -> IsString(v)
    [] kind = "boolean"           -> IsBoolean(v)
    [] kind = "format"            -> Format(v)
    [] kind = "issuer"            -> ResponseIss(v)
    [] kind = "strings"           -> Strings(v)
    [] kind = "some string"       -> SomeOf(v, IsString)
    [] kind = "some algorithm"    -> SigningAlgos(v)
    [] kind = "some response"     -> ResponseTypes(v)
    [] kind = "some scope"        -> Scopes(v)
    [] kind = "some subject"      -> SubjectTypes(v)
    [] kind = "some mode"         -> SomeOf(v, ResponseMode)
    [] kind = "some grant"        -> SomeOf(v, GrantType)
    [] kind = "some context"      -> SomeOf(v, AuthenticationContextReferences)
    [] kind = "some method"       -> SomeOf(v, TokenEndpointAuthMethod)
    [] kind = "some claim type"   -> SomeOf(v, ClaimType)
    [] kind = "some token type"   -> SomeOf(v, IdTokenType)

Conforms(v, table) == \A k \in Keys(v) \cap DOMAIN table : Fits(v.at[k], table[k])

----------------------------------------------------------------------------
(* The metadata in the options of an OP.                                   *)

ClientMetadataProperties(v) ==
  /\ Closed(v, {"passBy", "referenceUri", "id_token_encrypted_response_alg", "id_token_encrypted_response_enc"})
  /\ Requires(v, {"passBy"}) /\ PassBy(v.at.passBy)
  /\ Properties(v, Keys(v), IsString)

\* The fields of every alternative, in the order of the schema.
IdentityOptions ==
  [authorizationEndpoint |-> "string", issuer |-> "string",
   responseTypesSupported |-> "some response", scopesSupported |-> "some scope",
   subjectTypesSupported |-> "some subject", idTokenSigningAlgValuesSupported |-> "some algorithm",
   requestObjectSigningAlgValuesSupported |-> "some algorithm", subjectSyntaxTypesSupported |-> "strings"]
EndpointOptions ==
  [tokenEndpoint |-> "string", userinfoEndpoint |-> "string", jwksUri |-> "string",
   registrationEndpoint |-> "string", responseModesSupported |-> "some mode",
   grantTypesSupported |-> "some grant", acrValuesSupported |-> "some context"]
AlgorithmOptions ==
  [idTokenEncryptionAlgValuesSupported |-> "some algorithm", idTokenEncryptionEncValuesSupported |-> "some string",
   userinfoSigningAlgValuesSupported |-> "some algorithm",
   userinfoEncryptionAlgValuesSupported |-> "some algorithm",
   userinfoEncryptionEncValuesSupported |-> "some string",
   requestObjectEncryptionAlgValuesSupported |-> "some algorithm",
   requestObjectEncryptionEncValuesSupported |-> "some string",
   tokenEndpointAuthMethodsSupported |-> "some method",
   tokenEndpointAuthSigningAlgValuesSupported |-> "some algorithm"]
ClaimOptions ==
  [displayValuesSupported |-> "some string", claimTypesSupported |-> "some claim type",
   claimsSupported |-> "some string", serviceDocumentation |-> "string",
   claimsLocalesSupported |-> "some string", uiLocalesSupported |-> "some string",
   claimsParameterSupported |-> "boolean", requestParameterSupported |-> "boolean",
   requestUriParameterSupported |-> "boolean", requireRequestUriRegistration |-> "boolean",
   opPolicyUri |-> "string", opTosUri |-> "string"]

\* The fields of an OP that is a client as well, which draft 11 does not have.
ClientOptions ==
  [clientId |-> "string", redirectUris |-> "some string", clientName |-> "string",
   tokenEndpointAuthMethod |-> "string", applicationType |-> "string", responseTypes |-> "string",
   grantTypes |-> "string", vpFormats |-> "format"]
ProfileOptions == [logoUri |-> "string", clientPurpose |-> "string"]

CommonOptions(v) ==
  /\ IsObject(v) /\ Requires(v, {"registrationBy"})
  /\ Properties(v, {"registrationBy"}, ClientMetadataProperties)
  /\ Conforms(v, IdentityOptions) /\ Conforms(v, EndpointOptions)
  /\ Conforms(v, AlgorithmOptions) /\ Conforms(v, ClaimOptions)

JWT_VCDiscoveryMetadataOpts(v) ==
  CommonOptions(v) /\ Conforms(v, ClientOptions) /\ Conforms(v, ProfileOptions)
DiscoveryMetadataOptsVID1(v) ==
  CommonOptions(v) /\ Conforms(v, ClientOptions)
DiscoveryMetadataOptsVD11(v) ==
  CommonOptions(v)
    /\ Conforms(v, [idTokenTypesSupported |-> "some token type", vpFormatsSupported |-> "format"])

ResponseRegistrationOpts(v) ==
  \/ JWT_VCDiscoveryMetadataOpts(v) \/ DiscoveryMetadataOptsVID1(v) \/ DiscoveryMetadataOptsVD11(v)

----------------------------------------------------------------------------
(* Presentations that the options hold.                                    *)

ICredentialContextType(v) ==
  \/ IsString(v)
  \/ IsObject(v) /\ Properties(v, {"name", "did"}, IsString)

\* The type and the purpose of a proof are one of a list, or any string.
IProof(v) ==
  /\ IsObject(v) /\ Requires(v, {"type", "created", "proofPurpose", "verificationMethod"})
  /\ Properties(v, {"type", "created", "proofPurpose", "verificationMethod", "challenge", "domain",
                    "proofValue", "jws", "nonce"}, IsString)
  /\ Properties(v, {"requiredRevealStatements"}, Strings)

Contexts(v) == SomeOf(v, ICredentialContextType)
Proofs(v)   == SomeOf(v, IProof)

ICredentialSchemaType(v) ==
  \/ IsString(v)
  \/ Closed(v, {"id", "type"}) /\ Requires(v, {"id"}) /\ Properties(v, {"id", "type"}, IsString)

WithTextId(v) == IsObject(v) /\ Properties(v, {"id"}, IsString)
IIssuer(v)    == IsString(v) \/ (WithTextId(v) /\ Requires(v, {"id"}))

ICredentialStatus(v) ==
  Closed(v, {"id", "type"}) /\ Requires(v, {"id", "type"}) /\ Properties(v, {"id", "type"}, IsString)

CredentialSchemas(v) == SomeOf(v, ICredentialSchemaType)
Subjects(v)          == SomeOf(v, WithTextId)

IVerifiableCredential(v) ==
  /\ IsObject(v)
  /\ Requires(v, {"@context", "credentialSubject", "issuanceDate", "issuer", "proof", "type"})
  /\ Properties(v, {"issuanceDate", "expirationDate", "id", "description", "name"}, IsString)
  /\ Properties(v, {"type"}, Strings)
  /\ Properties(v, {"proof"}, Proofs)
  /\ Properties(v, {"@context"}, Contexts)
  /\ Properties(v, {"issuer"}, IIssuer)
  /\ Properties(v, {"credentialSchema"}, CredentialSchemas)
  /\ Properties(v, {"credentialSubject"}, Subjects)
  /\ Properties(v, {"credentialStatus"}, ICredentialStatus)

\* A compact JWT is any string.
W3CVerifiableCredential(v) == IsString(v) \/ IVerifiableCredential(v)

NoDescriptor(v) == FALSE

FlatDescriptor(v) ==
  /\ Closed(v, {"id", "path", "format", "path_nested"}) /\ Requires(v, {"id", "path", "format"})
  /\ Properties(v, {"id", "path", "format"}, IsString)

NestedDescriptor(v) == FlatDescriptor(v) /\ Properties(v, {"path_nested"}, NoDescriptor)
Descriptor(v)       == FlatDescriptor(v) /\ Properties(v, {"path_nested"}, NestedDescriptor)

PresentationSubmission(v) ==
  /\ Closed(v, {"id", "definition_id", "descriptor_map"})
  /\ Requires(v, {"id", "definition_id", "descriptor_map"})
  /\ Properties(v, {"id", "definition_id"}, IsString)
  /\ ArrayOf(v.at.descriptor_map, Descriptor)

Credentials(v) == ArrayOf(v, W3CVerifiableCredential)

\* A presentation is an object: one that is a compact JWT is refused.
IVerifiablePresentation(v) ==
  /\ IsObject(v) /\ Requires(v, {"@context", "proof", "type", "verifiableCredential"})
  /\ Properties(v, {"id", "holder"}, IsString)
  /\ Properties(v, {"type"}, Strings)
  /\ Properties(v, {"proof"}, Proofs)
  /\ Properties(v, {"@context"}, Contexts)
  /\ Properties(v, {"verifiableCredential"}, Credentials)
  /\ Properties(v, {"presentation_submission"}, PresentationSubmission)

PresentationLocation(v) == OneOf(v, {"vp_token", "id_token"})

VerifiablePresentationWithLocation(v) ==
  /\ Closed(v, {"format", "presentation", "location"}) /\ Requires(v, {"format", "location", "presentation"})
  /\ OneOf(v.at.format, {"jwt_vp", "ldp_vp"})
  /\ PresentationLocation(v.at.location)
  /\ IVerifiablePresentation(v.at.presentation)

Presentations(v) == ArrayOf(v, VerifiablePresentationWithLocation)
SubmissionOnly(v) ==
  /\ Closed(v, {"presentation_submission"}) /\ Requires(v, {"presentation_submission"})
  /\ PresentationSubmission(v.at.presentation_submission)

PresentationExchangeOpts(v) ==
  /\ Closed(v, {"presentationVerificationCallback", "presentationSignCallback", "vps", "_vp_token"})
  /\ Properties(v, {"presentationVerificationCallback", "presentationSignCallback"}, Signer)
  /\ Properties(v, {"vps"}, Presentations)
  /\ Properties(v, {"_vp_token"}, SubmissionOnly)

----------------------------------------------------------------------------
(* The options of an OP.                                                   *)

CheckLinkedDomain(v) == OneOf(v, {"never", "if_present", "always"})

AuthorizationResponseOpts(v) ==
  LET texts == {"redirectUri", "nonce", "state", "did", "accessToken", "tokenType", "refreshToken"}
  IN  /\ Closed(v, texts \cup {"registration", "checkLinkedDomain", "signatureType", "responseMode",
                               "expiresIn", "presentationExchange"})
      /\ Requires(v, {"registration", "signatureType", "did"})
      /\ ResponseRegistrationOpts(v.at.registration) /\ SignatureType(v.at.signatureType)
      /\ Properties(v, texts, IsString)
      /\ Properties(v, {"expiresIn"}, IsNumber)
      /\ Properties(v, {"responseMode"}, ResponseMode)
      /\ Properties(v, {"checkLinkedDomain"}, CheckLinkedDomain)
      /\ Properties(v, {"presentationExchange"}, PresentationExchangeOpts)

----------------------------------------------------------------------------
(* The metadata an OP publishes.  No code of the library holds it against  *)
(* its schema.                                                             *)

IdentityMetadata ==
  [authorization_endpoint |-> "string", issuer |-> "issuer",
   response_types_supported |-> "some response", scopes_supported |-> "some scope",
   subject_types_supported |-> "some subject", id_token_signing_alg_values_supported |-> "some algorithm",
   request_object_signing_alg_values_supported |-> "some algorithm",
   subject_syntax_types_supported |-> "strings"]
EndpointMetadata ==
  [token_endpoint |-> "string", userinfo_endpoint |-> "string", jwks_uri |-> "string",
   registration_endpoint |-> "string", response_modes_supported |-> "some mode",
   grant_types_supported |-> "some grant", acr_values_supported |-> "some context"]
AlgorithmMetadata ==
  [id_token_encryption_alg_values_supported |-> "some algorithm",
   id_token_encryption_enc_values_supported |-> "some string",
   userinfo_signing_alg_values_supported |-> "some algorithm",
   userinfo_encryption_alg_values_supported |-> "some algorithm",
   userinfo_encryption_enc_values_supported |-> "some string",
   request_object_encryption_alg_values_supported |-> "some algorithm",
   request_object_encryption_enc_values_supported |-> "some string",
   token_endpoint_auth_methods_supported |-> "some method",
   token_endpoint_auth_signing_alg_values_supported |-> "some algorithm"]
ClaimMetadata ==
  [claim_types_supported |-> "some claim type", claims_supported |-> "some string",
   service_documentation |-> "string", claims_locales_supported |-> "some string",
   ui_locales_supported |-> "some string", claims_parameter_supported |-> "boolean",
   request_parameter_supported |-> "boolean", request_uri_parameter_supported |-> "boolean",
   require_request_uri_registration |-> "boolean", op_policy_uri |-> "string", op_tos_uri |-> "string"]
ClientMetadata ==
  [client_id |-> "string", redirectUris |-> "strings", client_name |-> "string",
   token_endpoint_auth_method |-> "string", application_type |-> "string", response_types |-> "string",
   grant_types |-> "string", vp_formats |-> "format"]

CommonMetadata(v) ==
  /\ IsObject(v)
  /\ Conforms(v, IdentityMetadata) /\ Conforms(v, EndpointMetadata)
  /\ Conforms(v, AlgorithmMetadata) /\ Conforms(v, ClaimMetadata)

DiscoveryMetadataPayloadVID1(v)   == CommonMetadata(v) /\ Conforms(v, ClientMetadata)
JWT_VCDiscoveryMetadataPayload(v) ==
  DiscoveryMetadataPayloadVID1(v) /\ Conforms(v, [logo_uri |-> "string", client_purpose |-> "string"])
DiscoveryMetadataPayloadVD11(v)   ==
  CommonMetadata(v)
    /\ Conforms(v, [id_token_types_supported |-> "some token type", vp_formats_supported |-> "format"])

DiscoveryMetadataPayload(v) ==
  \/ DiscoveryMetadataPayloadVID1(v) \/ JWT_VCDiscoveryMetadataPayload(v) \/ DiscoveryMetadataPayloadVD11(v)

=============================================================================
