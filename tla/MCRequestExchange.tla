------------------------- MODULE MCRequestExchange -------------------------
(***************************************************************************)
(* RequestExchange with options that differ from a usual pair of parties   *)
(* in what the code tells apart: version, metadata and request object by   *)
(* value or by reference, claims, definitions, texts, signatures, and what *)
(* the OP answers with.                                                    *)
(***************************************************************************)
EXTENDS RequestExchange

Tagged      == {"clientName#nl", "clientPurpose#de", "clientName#!", "#nl", "logoUri#nl"}
TaggedField == [k \in Tagged |->
  CASE k \in {"clientName#nl", "clientName#!"} -> "clientName"
    [] k = "clientPurpose#de" -> "clientPurpose" [] k = "logoUri#nl" -> "logoUri" [] k = "#nl" -> ""]
TaggedTag   == [k \in Tagged |-> CASE k \in {"clientName#nl", "#nl", "logoUri#nl"} -> "nl"
                                   [] k = "clientPurpose#de" -> "de" [] k = "clientName#!" -> "!"]
Languages   == {"nl", "de"}

Text(s)  == String(s)
None     == EmptyObject
DidTexts == {"did:rp", "did:op"}

----------------------------------------------------------------------------
(* Definitions and claims.                                                 *)

DescriptorV2 == Object([id |-> Text("d"), constraints |-> Object([fields |-> Array(<<
                  Object([path |-> TextList(<<"$.type">>),
                          filter |-> Object([type |-> Text("string"), pattern |-> Text("p")])])>>)])])
DescriptorV1 == Object([id |-> Text("d"), schema |-> Array(<<Object([uri |-> Text("s")])>>)])
Definition(id, descriptor) == Object([id |-> Text(id), input_descriptors |-> Array(<<descriptor>>)])

DefV1    == Definition("one", DescriptorV1)
DefV2    == Definition("two", DescriptorV2)
\* PEX knows JSON schemas with a const, the schema of requests does not.
DefConst == Definition("const", Object([id |-> Text("d"), constraints |-> Object([fields |-> Array(<<
              Object([filter |-> Object([type |-> Text("string"), const |-> Text("x")])])>>)])]))
DefRich  == Object([id |-> Text("rich"), input_descriptors |-> Array(<<>>),
                    format |-> Object([jwt_vp |-> Object([alg |-> TextList(<<"ES256K">>)])]),
                    submission_requirements |-> Array(<<Object([rule |-> Text("pick"), count |-> Number(1),
                      from_nested |-> Array(<<Object([rule |-> Text("all"), from |-> Text("A")])>>)])>>)])
NoDef    == Object([id |-> Text("none")])

Claim(vp)        == Object([vp_token |-> vp])
ByValue(d)       == Object([presentation_definition |-> d])
ByUri            == Object([presentation_definition_uri |-> Text("https://d")])
Both(d)          == Spread(ByValue(d), ByUri)
ClaimsOf(claims) == Object([claims |-> claims])

IdTokenClaim == Object([id_token |-> Object([email |-> NullValue])])

----------------------------------------------------------------------------
(* Options of relying parties.                                             *)

Internal(alg) == Object([hexPrivateKey |-> Text("key"), did |-> Text("did:rp"), alg |-> Text(alg)])
External      == Object([signatureUri |-> Text("https://s"), did |-> Text("did:rp"), alg |-> Text("ES256K")])
Supplied      == Object([signature |-> Function, did |-> Text("did:rp"), alg |-> Text("ES256K"), kid |-> Text("k")])
Unsigned      == Object([hexPublicKey |-> Text("key"), did |-> Text("did:rp")])
OwnSigner     == With(Internal("RS256"), "customJwtSigner", Function)
NoKey         == With(Internal("ES256"), "hexPrivateKey", Text(""))

Meta(by)     == Object([passBy |-> Text(by), subjectSyntaxTypesSupported |-> TextList(<<"did:ethr:">>)])
MetaRef(by)  == With(Meta(by), "referenceUri", Text("https://m"))
MetaBare     == Object([passBy |-> Text("VALUE")])
MetaEmpty    == With(Meta("VALUE"), "subjectSyntaxTypesSupported", Array(<<>>))
MetaWrong    == With(Meta("VALUE"), "scopesSupported", Text("none"))
MetaTagged   == With(With(Meta("VALUE"), "clientName#nl", Text("naam")), "clientPurpose#de", Text("Zweck"))
MetaOdd      == With(With(MetaTagged, "clientName#!", Text("x")), "#nl", Text("y"))

Core         == Object([scope |-> Text("openid"), response_type |-> Text("id_token"),
                        client_id |-> Text("did:rp"), redirect_uri |-> Text("https://rp")])
WebClient    == With(Core, "client_id", Text("https://rp"))
NoClient     == With(Core, "client_id", Text(""))

\* Request objects by reference have somewhere to be served.
RequestObject(by, payload, sig) ==
  Spread(Object([passBy |-> Text(by), payload |-> payload, signatureType |-> sig]),
         IF by = "REFERENCE" THEN Object([referenceUri |-> Text("https://r")]) ELSE None)
RpWith(version, meta, outerPayload, requestObject) ==
  Object([version |-> Number(version), clientMetadata |-> meta, payload |-> outerPayload,
          requestObject |-> requestObject])

Version == {70, 71, 110}

\* Every version, with metadata by any means, and any claims.
ByMetadata ==
  {RpWith(v, m, None, RequestObject(by, Spread(core, claims), Internal("ES256K"))) :
     v \in Version, by \in {"VALUE", "REFERENCE"}, core \in {Core, WebClient, NoClient},
     m \in {Meta("VALUE"), Meta("NONE"), MetaRef("VALUE"), MetaRef("REFERENCE"), MetaEmpty},
     claims \in {None, ClaimsOf(None), ClaimsOf(IdTokenClaim), ClaimsOf(Claim(ByValue(DefV2)))}}

\* Definitions at every place.
Definitions == {DefV1, DefV2, DefConst, DefRich, NoDef}
Places      == {Claim(ByValue(d)) : d \in Definitions} \cup {Claim(ByUri), Claim(Both(DefV1))}
Tops        == {ByValue(d) : d \in Definitions} \cup {ByUri, Both(DefV2), ByValue(Array(<<DefV1>>))}
ByDefinition ==
  {RpWith(v, Meta("VALUE"), ClaimsOf(None), RequestObject("VALUE", Spread(Core, ClaimsOf(c)), Internal("ES256K"))) :
     v \in Version, c \in Places}
  \cup {RpWith(v, Meta("VALUE"), Spread(ClaimsOf(None), t),
               RequestObject("VALUE", Core, Internal("ES256K"))) : v \in Version, t \in Tops}
  \cup {RpWith(v, Meta("VALUE"), ClaimsOf(None),
               RequestObject("VALUE", Spread(Core, t), Internal("ES256K"))) : v \in {70, 110}, t \in Tops}
  \cup {RpWith(v, Meta("VALUE"), ClaimsOf(c), RequestObject("VALUE", Core, Internal("ES256K"))) :
          v \in {70, 110}, c \in Places}

\* Texts that look encoded, in the payload, the metadata or a definition.
Odd == {BadPercent, EscapedLetter, EscapedQuote, BracedText}
ByText ==
  {RpWith(70, Meta("VALUE"), Object([id_token_hint |-> Text(t)]),
          RequestObject("VALUE", Core, Internal("ES256K"))) : t \in Odd}
  \cup {RpWith(v, With(Meta("VALUE"), "clientName", Text(t)), ClaimsOf(None),
               RequestObject("VALUE", Core, Internal("ES256K"))) : v \in {70, 110}, t \in Odd}
  \cup {RpWith(70, Meta("VALUE"), None,
               RequestObject("VALUE", Spread(Core, ClaimsOf(Claim(ByValue(Definition(t, DescriptorV2))))),
                             Internal("ES256K"))) : t \in Odd}
  \cup {RpWith(70, Meta("VALUE"), ClaimsOf(Claim(ByValue(Definition(t, DescriptorV2)))),
               RequestObject("VALUE", Core, Internal("ES256K"))) : t \in Odd}
  \cup {RpWith(110, Meta("VALUE"), Spread(ClaimsOf(None), ByValue(Definition(t, DescriptorV2))),
               RequestObject("VALUE", Core, Internal("ES256K"))) : t \in Odd}

BySignature ==
  {RpWith(70, Meta("VALUE"), None, RequestObject(by, Core, sig)) :
     by \in {"VALUE", "REFERENCE", "NONE"},
     sig \in {Internal("EdDSA"), Internal("RS256"), Internal("none"), External, Supplied, Unsigned,
              OwnSigner, NoKey}}

\* Without one of the payloads, a reference with nothing to serve, other
\* metadata, and values that are not texts.
Missing(o, k) == Without(o, {k})
Plain         == RpWith(70, Meta("VALUE"), None, RequestObject("VALUE", Core, Internal("ES256K")))
ByLack ==
  {Missing(Plain, "payload"), Missing(Plain, "clientMetadata"), Missing(Plain, "requestObject"),
   Missing(With(Plain, "clientMetadata", MetaRef("VALUE")), "payload"),
   Missing(RpWith(110, Meta("VALUE"), None, RequestObject("VALUE", Core, Internal("ES256K"))), "payload"),
   Missing(RpWith(110, Meta("VALUE"), None, RequestObject("VALUE", Spread(Core, ClaimsOf(None)),
                                                          Internal("ES256K"))), "payload"),
   RpWith(110, Meta("VALUE"), ClaimsOf(Claim(None)), RequestObject("VALUE", Core, Internal("ES256K")))}
  \cup {With(Plain, "requestObject", Missing(RequestObject(by, Core, Internal("ES256K")), k)) :
          by \in {"VALUE", "REFERENCE"}, k \in {"payload", "referenceUri"}}
  \cup {With(Plain, "clientMetadata", m) : m \in {MetaBare, MetaWrong, MetaTagged, MetaOdd, Meta("REFERENCE")}}
  \cup {With(Plain, "payload", Object([max_age |-> Number(n), secure |-> Boolean(b),
                                       list |-> TextList(<<"a">>)])) : n \in {0, 1}, b \in BOOLEAN}
  \cup {With(Plain, "payload", Object([sub |-> Text("s"), aud |-> Text("a"), type |-> Text("t")]))}

----------------------------------------------------------------------------
(* Options of OPs.                                                         *)

Provider == Object([registrationBy |-> Object([passBy |-> Text("VALUE")]),
                    subjectSyntaxTypesSupported |-> TextList(<<"did:ethr:">>)])
OpWith(registration, sig) ==
  Object([registration |-> registration, signatureType |-> With(sig, "did", Text("did:op")),
          did |-> Text("did:op")])
PlainOp == OpWith(Provider, Internal("ES256K"))

Proof        == Object([type |-> Text("JcsEd25519Signature2020"), created |-> Text("now"),
                        proofPurpose |-> Text("authentication"), verificationMethod |-> Text("did:op#1")])
Credential   == Object([issuer |-> Object([id |-> Text("did:rp")]), proof |-> Proof, type |-> TextList(<<"C">>),
                        issuanceDate |-> Text("now"), credentialSubject |-> None,
                        credentialStatus |-> Object([id |-> Text("1"), type |-> Text("R")])])
Presentation == Object([proof |-> Array(<<Proof>>), type |-> TextList(<<"VP">>),
                        verifiableCredential |-> Array(<<Text("ey..."), With(Credential, "@context", Text("c"))>>)])
FullPresentation == With(Presentation, "@context", TextList(<<"c">>))
Submission   == Object([id |-> Text("s"), definition_id |-> Text("two"), descriptor_map |-> Array(<<
                  Object([id |-> Text("d"), path |-> Text("$"), format |-> Text("ldp_vp")])>>)])
Located(p, location) == Object([format |-> Text("ldp_vp"), presentation |-> p, location |-> Text(location)])
Presenting(ps) == With(PlainOp, "presentationExchange", Object([vps |-> Array(ps)]))

Vp      == Located(FullPresentation, "vp_token")
Vid     == Located(With(FullPresentation, "presentation_submission", Submission), "id_token")
ByVps ==
  {Presenting(ps) : ps \in {<<>>, <<Vp>>, <<Vp, Vp>>, <<Vid>>, <<Vid, Vp>>, <<Vid, Vid>>,
                            <<Located(Presentation, "vp_token")>>, <<Located(Text("ey..."), "vp_token")>>}}
  \cup {With(PlainOp, "presentationExchange",
             Object([_vp_token |-> Object([presentation_submission |-> Submission])]))}

ByAnswer ==
  {OpWith(Provider, sig) : sig \in {Internal("RS256"), External, Supplied, Unsigned, OwnSigner}}
  \cup {With(PlainOp, "did", Text(d)) : d \in {"", "https://op"}}
  \cup {Missing(PlainOp, "did"), With(PlainOp, "audience", Text("a"))}

\* Metadata of OPs of each version, of which some are refused.
Fields ==
  {<<k, Text("t")>> : k \in {"issuer", "clientName", "vpFormats", "idTokenTypesSupported", "logoUri",
                             "clientName#nl", "clientName#!", "#nl", "logoUri#nl"}}
  \cup {<<k, TextList(<<"openid">>)>> : k \in {"scopesSupported", "claimsSupported", "redirectUris", "clientId"}}
  \cup {<<k, Text("")>> : k \in {"authorizationEndpoint", "scopesSupported", "clientPurpose#de"}}
  \cup {<<k, Text("pairwise")>> : k \in {"subjectTypesSupported", "responseTypesSupported"}}
  \cup {<<k, TextList(<<"RS256">>)>> : k \in {"idTokenSigningAlgValuesSupported", "userinfoEncryptionEncValuesSupported",
                                             "requestObjectSigningAlgValuesSupported"}}
  \cup {<<"responseTypesSupported", TextList(<<"id_token", "vp_token">>)>>, <<"claimsParameterSupported", Boolean(TRUE)>>,
        <<"requestParameterSupported", Text("true")>>, <<"grantTypesSupported", TextList(<<"implicit">>)>>,
        <<"acrValuesSupported", Text("phr")>>, <<"displayValuesSupported", Number(1)>>,
        <<"tokenEndpointAuthMethodsSupported", TextList(<<"private_key_jwt">>)>>,
        <<"vpFormats", Object([ldp_vp |-> Object([proof_type |-> TextList(<<"p">>)])])>>,
        <<"vpFormatsSupported", Object([jwt |-> Object([alg |-> TextList(<<"ES256">>)])])>>,
        <<"idTokenTypesSupported", TextList(<<"subject_signed">>)>>}
ByProvider == {OpWith(With(With(Provider, f[1], f[2]), g[1], g[2]), Internal("ES256K")) :
                 f \in Fields, g \in Fields}

----------------------------------------------------------------------------
Modes2(o, r)  == [op |-> o, rp |-> r]
Unchecked     == Modes2("never", "never")
Setting(r, o, m) == [rp |-> r, op |-> o, modes |-> m]
Asking        == RpWith(70, Meta("VALUE"), None,
                        RequestObject("VALUE", Spread(Core, ClaimsOf(Claim(ByValue(DefV2)))), Internal("ES256K")))

FewSettings ==
  {Setting(r, PlainOp, Unchecked) : r \in ByMetadata \cup ByDefinition \cup ByText \cup BySignature \cup ByLack}
  \cup {Setting(r, o, Unchecked) : r \in {Plain, Asking}, o \in ByVps \cup ByAnswer}
  \cup {Setting(Plain, o, Unchecked) : o \in ByProvider}
  \cup {Setting(Plain, PlainOp, Modes2(o, r)) : o, r \in Modes}

ServedMetadata    == {Undef, createRPRegistrationMetadataPayload(Meta("VALUE")),
                      createRPRegistrationMetadataPayload(MetaEmpty)}
ServedDefinitions == {Undef, DefV2}
Results == {Unresolved, Valid, Thrown("absent"), Thrown("bad"), Invalid("none", <<>>), Invalid("absent", <<>>),
            Invalid("absent", <<[message |-> "none", resources |-> <<"absent", "bad">>]>>),
            Invalid("none", <<[message |-> "absent", resources |-> <<"absent">>]>>)}

\* These options are such that the theorems on the arrival of a request apply.
ASSUME MetadataAssumption    == NoMetadataBesides
ASSUME EmptinessAssumption   == NoEmptyDefinition
ASSUME DefinitionsAssumption == DefinitionsAreValues
ASSUME FieldsAssumption      == FieldsOfOptions
ASSUME ClaimsAssumption      == ClaimsAreValues

=============================================================================
