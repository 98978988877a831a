------------------------- MODULE MetadataPayloads -------------------------
(***************************************************************************)
(* The metadata both parties announce, as they are built from the options: *)
(* renamed fields, defaults, and the names in other languages, which are   *)
(* fields like clientName#nl (helpers/LanguageTagUtils.ts).                *)
(***************************************************************************)
EXTENDS JsonValues
LOCAL INSTANCE SequencesExt

CONSTANTS
  TaggedKeys,  \* the fields with a separator that options may have
  FieldOf,     \* what is before the separator
  TagOf,       \* what is after it
  ValidTags    \* what the package language-tags takes for a tag

ASSUME TagsAssumption == FieldOf \in [TaggedKeys -> STRING] /\ TagOf \in [TaggedKeys -> STRING]

Separator == "#"

\* Faulty variant: the separator is lost.
GluedFieldName(mapping, k) == mapping[FieldOf[k]] \o TagOf[k]

getMappedFieldName(mapping, k) == mapping[FieldOf[k]] \o Separator \o TagOf[k]

\* A field that begins with the separator has no name before it.
isFieldLanguageTagged(k) == FieldOf[k] # ""
hasLanguageTag(k)        == isFieldLanguageTagged(k) /\ TagOf[k] \in ValidTags

\* The fields of the source that have a mapped name and a valid tag, renamed.
getLanguageTaggedPropertiesMapped(source, mapping) ==
  LET found == {k \in Keys(source) \cap TaggedKeys : hasLanguageTag(k) /\ FieldOf[k] \in DOMAIN mapping}
      name(k) == getMappedFieldName(mapping, k)
  IN  Object([n \in {name(k) : k \in found} |-> source.at[CHOOSE k \in found : name(k) = n]])

languageTagEnabledFieldsNamesMapping == [clientName |-> "client_name", clientPurpose |-> "client_purpose"]

\* The fields of v that the table renames, under their new names.
Renamed(v, table) ==
  Defined([n \in DOMAIN table |-> At(v, table[n])])

\* What v has for k, or w where that is missing or empty.
OrElse(v, k, w) == IF Has(v, k) /\ v.at[k] # String("") THEN v.at[k] ELSE w

TextList(s) == Array([i \in DOMAIN s |-> String(s[i])])

RPMetadataNames ==
  [id_token_signing_alg_values_supported |-> "idTokenSigningAlgValuesSupported",
   request_object_signing_alg_values_supported |-> "requestObjectSigningAlgValuesSupported",
   response_types_supported |-> "responseTypesSupported",
   scopes_supported |-> "scopesSupported",
   subject_types_supported |-> "subjectTypesSupported",
   vp_formats |-> "vpFormatsSupported",
   client_name |-> "clientName",
   logo_uri |-> "logoUri",
   client_purpose |-> "clientPurpose",
   client_id |-> "clientId"]

\* The metadata of an RP, from its clientMetadata.
createRPRegistrationMetadataPayload(opts) ==
  LET fields == With(Renamed(opts, RPMetadataNames), "subject_syntax_types_supported",
                     OrElse(opts, "subjectSyntaxTypesSupported", TextList(<<"did:web:", "did:ion:">>)))
  IN  Spread(fields, getLanguageTaggedPropertiesMapped(opts, languageTagEnabledFieldsNamesMapping))

\* Of the OP's metadata: what is only renamed, and what has a default.
DiscoveryNames ==
  [subject_syntax_types_supported |-> "subjectSyntaxTypesSupported",
   client_id |-> "clientId", redirect_uris |-> "redirectUris", client_name |-> "clientName",
   token_endpoint_auth_method |-> "tokenEndpointAuthMethod", application_type |-> "applicationType",
   response_types |-> "responseTypes", grant_types |-> "grantTypes", vp_formats |-> "vpFormats",
   token_endpoint |-> "tokenEndpoint", userinfo_endpoint |-> "userinfoEndpoint",
   jwks_uri |-> "jwksUri", registration_endpoint |-> "registrationEndpoint",
   response_modes_supported |-> "responseModesSupported", grant_types_supported |-> "grantTypesSupported",
   acr_values_supported |-> "acrValuesSupported",
   id_token_encryption_alg_values_supported |-> "idTokenEncryptionAlgValuesSupported",
   id_token_encryption_enc_values_supported |-> "idTokenEncryptionEncValuesSupported",
   userinfo_signing_alg_values_supported |-> "userinfoSigningAlgValuesSupported",
   userinfo_encryption_alg_values_supported |-> "userinfoEncryptionAlgValuesSupported",
   userinfo_encryption_enc_values_supported |-> "userinfoEncryptionEncValuesSupported",
   request_object_encryption_alg_values_supported |-> "requestObjectEncryptionAlgValuesSupported",
   request_object_encryption_enc_values_supported |-> "requestObjectEncryptionEncValuesSupported",
   token_endpoint_auth_methods_supported |-> "tokenEndpointAuthMethodsSupported",
   token_endpoint_auth_signing_alg_values_supported |-> "tokenEndpointAuthSigningAlgValuesSupported",
   display_values_supported |-> "displayValuesSupported", claim_types_supported |-> "claimTypesSupported",
   claims_supported |-> "claimsSupported", service_documentation |-> "serviceDocumentation",
   claims_locales_supported |-> "claimsLocalesSupported", ui_locales_supported |-> "uiLocalesSupported",
   claims_parameter_supported |-> "claimsParameterSupported",
   request_parameter_supported |-> "requestParameterSupported",
   request_uri_parameter_supported |-> "requestUriParameterSupported",
   require_request_uri_registration |-> "requireRequestUriRegistration",
   op_policy_uri |-> "opPolicyUri", op_tos_uri |-> "opTosUri", logo_uri |-> "logoUri",
   client_purpose |-> "clientPurpose", id_token_types_supported |-> "idTokenTypesSupported"]

DiscoveryDefaults(opts) ==
  Object([authorization_endpoint |-> OrElse(opts, "authorizationEndpoint", String("openid:")),
          issuer |-> String("https://self-issued.me/v2"),
          response_types_supported |-> String("id_token"),
          scopes_supported |-> OrElse(opts, "scopesSupported", TextList(<<"openid">>)),
          subject_types_supported |-> OrElse(opts, "subjectTypesSupported", TextList(<<"pairwise">>)),
          id_token_signing_alg_values_supported |->
            OrElse(opts, "idTokenSigningAlgValuesSupported", TextList(<<"ES256K", "EdDSA">>)),
          request_object_signing_alg_values_supported |->
            OrElse(opts, "requestObjectSigningAlgValuesSupported", TextList(<<"ES256K", "EdDSA">>))])

createDiscoveryMetadataPayload(opts) ==
  Spread(Spread(DiscoveryDefaults(opts), Renamed(opts, DiscoveryNames)),
         getLanguageTaggedPropertiesMapped(opts, languageTagEnabledFieldsNamesMapping))

----------------------------------------------------------------------------
(* What there is to know of names with a separator: other fields and other *)
(* languages have other names, and no field of metadata has such a name.   *)

MetadataFields ==
  DOMAIN RPMetadataNames \cup DOMAIN DiscoveryNames
    \cup {"authorization_endpoint", "issuer", "response_types_supported", "scopes_supported",
          "subject_types_supported", "id_token_signing_alg_values_supported",
          "request_object_signing_alg_values_supported", "redirectUris", "vp_formats_supported"}

TaggedName(k) == languageTagEnabledFieldsNamesMapping[FieldOf[k]] \o Separator \o TagOf[k]
NamesInLanguages ==
  {k \in TaggedKeys : FieldOf[k] \in DOMAIN languageTagEnabledFieldsNamesMapping}

ASSUME NamesAssumption ==
  /\ \A j, k \in NamesInLanguages : TaggedName(j) = TaggedName(k) => j = k
  /\ \A k \in NamesInLanguages : TaggedName(k) \notin MetadataFields

=============================================================================
