# Verification of SIOP-OpenID4VP

Formal models of the Self-Issued OpenID Provider v2 / OpenID for Verifiable
Presentations library in `src/main`: TLA+ modules, the TLC configurations that
check them on small instances, and TLAPS proofs of what holds for every
instance. Paths below are relative to the repository's `src/main`, unless they
name the repository's `README.md`.

## 1. The system

A *relying party* (RP) issues authorization requests, a *self-issued OpenID
provider* (OP, a wallet) verifies them and answers, and the RP verifies the
answer. The library is the code of both parties; transport, storage and user
interaction belong to the application, which reaches the library's objects at
any time. The library is single-threaded and asynchronous: two operations never
run at the same time, but they interleave at every `await`, and every `await`
may fail.

### 1.1 How the parts interact

    RP application                                        OP application
      | RP.builder() ... build()         OP.builder() ... build() |
      v                                                           v
     RP ---- createAuthorizationRequestURI ----> link --> OP.verifyAuthorizationRequest
      |        AuthorizationRequest, RequestObject            |   AuthorizationRequest.verify
      |        (JWT by value or at a reference URI)           |   (version, definitions, linked domain)
      |                                                       v
      |                                          OP.createAuthorizationResponse
      |                                            verify again, IDToken, presentations
      v                                                       |
     RP.verifyAuthorizationResponse <--- post ---- OP.submitAuthorizationResponse
       IDToken.verify, presentations, revocation

Calls go down this picture. Messages are the link and the posted response, and
the request object when it is fetched by reference. Callbacks go back to the
application: signers, verifiers of presentations, the status of credentials,
linked domains. Shared state are the options object of an RP, which all its
calls read and write; the metadata object that an RP shares with its builder and
with the application; and the caches of a request and its request object.

### 1.2 Inventory

| Component | State it keeps | Operations | What is hard | What makes it correct |
|---|---|---|---|---|
| Builders and options (`rp/Builder.ts`, `op/Builder.ts`, `*/Opts.ts`) | the settings collected, lists of resolvers, a metadata object | `with…`, `add…`, `build` | any order, any number of times; an RP goes on sharing its metadata object, into which every build writes | keys fit the version; a party resolves only what it announces; what was announced stays announced; a second build works |
| RP request creation (`rp/RP.ts`, `rp/Opts.ts`, `authorization-request/Payload.ts`) | the options object, shared by all calls | `createAuthorizationRequest`, `createAuthorizationRequestURI` | calls interleave at awaits and write the shared options; values stay behind; a call fails half-way | a request has the values its call was given; a value of another call is never older; serial calls are atomic |
| Request object (`request-object/`) | payload and JWT, both filled lazily | `fromOpts`, `fromJwt`, `toJwt`, `getPayload` | the order of calls changes the payload; calls of `toJwt` overlap and sign twice | all JWTs say the same; what was signed is readable |
| Authorization request and its URI (`AuthorizationRequest.ts`, `URI.ts`) | payload, request object, cached URI | `fromUriOrJwt`, `verify`, `uri`, `parseAndResolve` | signed and unsigned properties are merged; a request object by reference is fetched again and again | every URI carries the same JWT; what is answered was verified |
| OP (`op/OP.ts`) | response and verification options | `verifyAuthorizationRequest`, `createAuthorizationResponse`, `submitAuthorizationResponse` | what was verified need not be what is answered; time passes while the user decides | an expired request is not answered; the response answers the verified request |
| ID token (`id-token/`) | JWT, payload, header | `fromAuthorizationRequestPayload`, `fromIDToken`, `payload`, `jwt`, `verify` | time, audience, nonce and issuer in an order, with a skew in one check and none in another | no expired token is accepted, nor one for another RP |
| Authorization response (`AuthorizationResponse.ts`, `Payload.ts`) | payload, ID token | `fromAuthorizationRequest`, `fromPayload`, `verify` | state and nonce travel through four payloads | the RP accepts answers to its own requests only |
| Presentation exchange (`OpenID4VP.ts`, `PresentationExchange.ts`) | none | find definitions, match presentations, call the verifier | callbacks that nobody awaits; locations of presentations | all that was demanded is answered; both sides judge alike |
| Revocation (`helpers/Revocation.ts`) | none | `verifyRevocation` | modes, missing callbacks | nothing is accepted without the status that was demanded |
| Version discovery (`helpers/SIOPSpecVersion.ts`) | none | the versions of a request | schemas that overlap | a request is recognised as what it was issued as; no definition is overlooked because of the version |
| Metadata payloads (`RequestRegistration.ts`, `ResponseRegistration.ts`, `helpers/LanguageTagUtils.ts`) | none | rename, add defaults, names in other languages | dozens of fields, three schemas for one object | what is published satisfies its schema, and keeps its languages |
| DID methods and metadata (`did/DIDResolution.ts`, `helpers/Metadata.ts`) | none | choose a resolver, agree on types and formats | fallbacks; `did` stands for all methods | the agreement is shared and complete |
| Linked domains (`did/LinkedDomainValidations.ts`) | none | validate a domain | errors caught and judged again | the mode decides, and nothing else |
| JWTs (`did/DidJWT.ts`) | none | sign, verify, find the subject | three signature types, two kinds of issuer | see request object and ID token |
| State and nonce (`helpers/State.ts`) | none | `getState`, `getNonce` | the nonce is derived from the state | see request creation |
| Encodings, HTTP, keys (`helpers/`) | none | conversions, `fetch` | values that do not survive a URI; no timeout | what is decoded is what was encoded |
| Schemas (`schemas/`, generated) | none | validation of options, payloads, metadata | alternatives that overlap; six files, thousands of lines | what the schema of the options lets pass is not refused later without a reason in the options |

Behaviours this code does *not* have, and which no model pretends it has:
nothing is persisted, so there is no crash recovery; there are no threads, no
locks, no queues, no retries, and no registry of used nonces
(`rp/NonceReplayRegistry.ts` is empty).

## 2. The modules

| Module | Models | State | Actions |
|---|---|---|---|
| `RequestPayloads` | what the RP keeps, what a call writes into it, and the two payloads made from it (`RP.ts:56-145`, `request-object/Payload.ts`, `authorization-request/Payload.ts`, `State.ts`) | – (operators) | – |
| `RequestCreation` | calls of one RP that interleave | `options` is `_createRequestOptions`; `pc`, `object`, `outer` are a call's position and its two payloads; `input`, `stamp`, `arrivals` are history | one per stretch between two awaits: `Begin`, `BeginFails` (up to `RequestObject.fromOpts`), `RejectDefinition`, `ReadOptions`, `BuildPayload`, `Sign` |
| `RequestIssuance` | abstract: each request is decided in one step | `memory`, `content`, `status` | `Decide`, `Refuse`, `Issue`, `Fail` |
| `RequestObjects` | one request of an RP, its request object and its URI, and overlapping calls on both | `keys` are the metadata in the mutable payload, `jwt` and `uri` the caches, `signed` (history) every JWT that was made | `Create…`, `Jwt…`, `GetPayload`, `Uri…`, `SigningFails` |
| `AuthorizationFlow` | a request on its way through the OP and the response back to the RP | `phase`, `bound`, `wish`, `answer` for each link the OP handles; `stage`, `subject`, `terms` for each verification at an RP; `published` is what the reference URI of an RP gives; `now` | one per stretch between two awaits of OP and RP, with a refusal of its own wherever the code throws (`Refuse`, `Decline`, `CreateIDTokenFails`, `Reject`); `Fail`, `Hang` and `Break` are what is awaited failing or never answering; `Tick`, `Issue`, `Publish`, `Open`, `AskForAnswer`, `Submit`, `Receive` are the environment's |
| `RequestAnswering` | abstract: an OP answers what it verified, an RP accepts answers to its own requests | `verified`, `answered`, `accepted` | `Verify`, `Answer`, `Accept` |
| `PresentationVerification` | definitions in a request, presentations in its response, callbacks and status | `request`, `definitions`, `response`, `demand`, `checked`; `calls` are the promises of the callbacks nobody awaits, `stopped` the sides whose process a rejection that nobody handles has ended | `FindDefinitions`, `FindFails` (no version, two places filled, a definition that cannot be fetched or that PEX does not validate), `Respond`, `Receive`, `Match`, `AskStatus`, `LearnStatus` (which refuses the status `invalid` and a callback that fails, and nothing else), `Settle`, … |
| `SubjectSyntax` | pure algorithms of `DIDResolution.ts` and `Metadata.ts` | – (operators with the source's names) | – |
| `PartyBuilders` | both builders, their builds, and the negotiation of metadata by the parties built | `rpBuilder`, `opBuilder`, the host's metadata `objects`, the parties built | one per builder method that matters to versions, targets, resolvers and metadata |
| `JsonValues` | JSON values and the vocabulary of JSON schemas | – (operators) | – |
| `RequestSchemas`, `OptionSchemas`, `ResponseSchemas` | the six files of `schemas/`: each definition of a schema is the predicate of the values it accepts, under its name; definitions that files repeat are written once | – | – |
| `UriEncoding` | `encodeJsonAsURI`, `decodeUriAsJson` on kinds of values and four texts that look encoded | – | – |
| `LinkedDomains` | `validateLinkedDomainWithDid` with its modes and messages | – | – |
| `MetadataPayloads` | the metadata payloads of both parties and `LanguageTagUtils` | – | – |
| `RequestExchange` | composes these seven: one request from the options of an RP to the subject of the ID token that answers it | `setting` is the options of both parties; `object` and `outer` the two payloads, and then the query; `received` what the OP reads; `metadata`, `found`, `versions` what it understands; `subject`; `stage`, `reason`; `checks` (history) the domain checks that were passed | one for each function of the library that may refuse, and one that refuses: `BuildParties`, `CreateRequest`, `SignRequest`, `SendRequest`, `ReadRequest`, `VerifyRequest` (twice, before and in the answer), `Answer`, `CheckSubject`, `Refuse…` |
| `MC…` | inputs of the checks | | |
| `Selections` | JavaScript's `filter` with a membership test | – | – |
| `RequestCreation_proofs`, `RequestObjects_proofs`, `AuthorizationFlow_proofs`, `PresentationVerification_proofs`, `PartyBuilders_proofs`, `RequestExchange_proofs` | theorems about the specification of the name | | |
| `Selections_proofs`, `Payloads_proofs` | lemmas about operators: filters; payloads as values, schemas and what a query does to both | | |

`RequestCreation`, `RequestIssuance` extend `RequestPayloads`; `PartyBuilders`
extends `SubjectSyntax`; `SubjectSyntax`, `PresentationVerification` and
`LinkedDomains` extend `Selections`; `RequestCreation` and `AuthorizationFlow` instantiate
their abstract specifications with a refinement mapping. A state or a nonce is its
origin in `RequestCreation`, the request it belongs to in `AuthorizationFlow`, and
left out of `PresentationVerification` and `RequestExchange`: a request passes
through the modules one after the other. `RequestExchange` is about what one
request contains and why it is refused, the others about what happens when calls
overlap, time passes or what is fetched changes.

Operators and actions whose comment begins with "Faulty variant" are never part
of a specification. Each shows that a property notices a plausible mistake: with
the variant in place of the definition below it, TLC finds the property violated.

What is abstracted everywhere: wording, logging and formats; properties of
payloads that are copied without a decision; JWTs are what was signed, and
signatures are sound; DIDs are their methods.

## 3. The runs

Distinct states are those of the complete state graph. All runs check their
graph exhaustively.

| Run | Question | Bounds | States |
|---|---|---|---|
| `creation` | What do requests contain whose creation overlaps? | three calls, arguments given or not, for both payloads or one; symmetry in the calls | 1 008 122 |
| `flow` | What is answered and accepted, with delay, republication and failure? | two requests of one RP and another RP, one session, one verification, all channels, both drafts, a life of 1 s, a skew of 2 s, 4 instants | 1 207 620 |
| `presentations` | Which responses are accepted, and do both sides agree? | up to two presentations (with a `_vp_token`, three), three kinds of format, every request, every demand, every answer of the callbacks | 80 000 |
| `objects` | What do overlapping calls on one request give? | three calls, every signature type, every option | 27 686 |
| `builders` | Which parties come out of the builders? | five calls of setters, two builds, two methods, two metadata objects | 603 180 |
| `exchange` | What becomes of the options of both parties in payloads, URI, metadata and the OP's reading of them? | 503 options of an RP, 1 046 settings with options of an OP (492 differ in two metadata fields of it), three answers of a metadata reference, two of a definition reference, eight results of a domain check | 9 057 |

Why these bounds are enough to meet the interesting cases: the promises about
overlapping calls relate one call to a second that overwrites it and a third
that does so again; two JWTs disagree if two calls sign; a republication needs
two requests; expiry needs an instant on either side of it and one beyond the
skew, which must exceed the life of a token for `ExpiredTokenNotAccepted` to be
about the check that has no skew; the matching counts presentations, and two are
one too many; a metadata object is shared by the second build. With five calls a
builder reaches a build after the four that every build needs with one left that
disturbs it, and setters are also called between and after builds. The options of
`exchange` differ from a usual pair of parties in one respect or two that the code
decides by; the comments of `MCRequestExchange` name each, and every reason of a
refusal occurs. Its bound on nesting (two levels of requirements and of
descriptors) is the depth at which a schema refers to itself once; `Depth` of
`UriEncoding`, to which values of a query are searched, exceeds the nesting of
every value the run makes. What goes
beyond is proved (section 4) or left to TLC at these bounds.

What the passing runs show:

- `creation`: the request object of a call always has the state and nonce the
  call was given (`RequestObjectIsOwn`), because the options are copied before the
  first await. The unsigned payload is read after it and may have values of a
  *later* call, never of an earlier one (`OuterPayloadNotOlder`). A nonce that was
  not given is the one of the latest call that had one (`InheritedNonceIsLatest`).
  A call that fails for want of a nonce leaves its state behind, and nothing else
  (`FailedCallWritesStateOnly`); no call is refused for the definition of another
  (`OwnDefinitionNotRejected`). Every step of overlapping calls is one of
  `RequestIssuance`, in which a request is decided at once, but for those that
  change what another call has yet to read (`UndisturbedCallsAreAtomic`).
- `flow`: a response has the nonce of the request that was verified unless the
  RP has republished (`AnswersVerifiedRequest`); an RP accepts only what answers
  requests of its own (`AcceptedWhereAsked`); a request that has expired while the
  user hesitated is not answered, since it is verified again
  (`ExpiredRequestNotAnswered`); did-jwt's skew does not let expired tokens in,
  since `IDToken.verify` checks again without it (`ExpiredTokenNotAccepted`).
  Where no request is passed by reference, all of it implements
  `RequestAnswering` (`AnswersAsPromised`). If what is awaited answers, an
  answer that was asked for is made unless the request has expired, and a response
  to a request of the RP's own is accepted unless its token has expired: no other
  check of the two verifications gets in the way (`InTimeGoesThrough`).
- `presentations`: there is never more than one definition, which is all that
  the matching can cope with (`OneDefinitionAtMost`), and none is overlooked
  (`NoDefinitionOverlooked`); both sides judge a response alike (`SidesAgree`); an
  accepted response answers all that was demanded and nothing else
  (`AcceptedAnswersDemand`), after a positive status of each JSON-LD presentation
  if status is always checked (`AcceptedWithValidStatus`); a callback that never
  settles does not hold up the RP, nor does one that fails, unless the process
  ends with the rejection that nobody handles (`VerificationEnds`).
- `objects`: however calls overlap, all JWTs of a request say the same
  (`JwtsAgree`), a signed request object can be read (`SignedIsReadable`), and
  by value, if the request object is signed when it is created, every URI carries
  the JWT that `requestObjectJwt` gives (`UriCarriesJwt`).
- `builders`: metadata and definitions are under the keys of the version of the
  requests (`KeysMatchVersion`); without a custom resolver a party resolves only
  methods it announces (`OnlyAnnouncedIsResolved`), verifies with types it
  announces (`ListedIsAnnounced`), and never stops announcing them, although
  every build writes into the shared metadata (`AnnouncementsOnlyGrow`); a second
  build succeeds if the metadata list types (`RebuildSucceeds`). The agreement on
  metadata is shared and overlooks nothing (`AgreementIsShared`,
  `NothingSharedIsOverlooked`).
- `exchange`: a request of draft 1 is recognised as that and as nothing else, one
  of draft 11 never as draft 1, and first of all as draft 11 if it makes no
  claims and its definition is one that the schema knows (`RecognisedAsIssued`,
  which says nothing of the third version, see 3.1); every refusal has a reason in
  the options (`RefusalsExplained`: among others a signer lost in a copy, a
  definition of another version's place, claims the schemas of requests do not
  know although those of options do, texts that look encoded, claims that a
  request of draft 11 has in its object only, presentations that nobody asked
  for). An accepted request has the metadata and the definition the RP was
  given (`RequestArrives`), except what is documented there and a definition at
  the top level of the request object, of which it says nothing. An answer
  presents something exactly if the RP asked for it, in the claims or at the top
  level of the payload (`PresentedAsAsked`). The catch of the domain check
  loses no refusal (`DomainAsDemanded`). Metadata made from options that pass
  their schema pass the schema of what is published, and names keep their
  languages (`PublishedAsSpecified`). What has been read from a URI holds texts and
  objects only (part of `TypeOK`).

Deadlock is not checked in any run: a host may stop calling, and every instance
comes to an end once its calls are made.

### 3.1 Where documentation and code disagree

Six runs check one promise each and end in a counterexample:

| Run | Promise | What the code does |
|---|---|---|
| `creation_nonce` | a nonce "will be generated if not provided" (`authorization-request/types.ts:37`) | a nonce stays in the shared options and the next call without one has it too |
| `flow_nonce` | the nonce of the ID token is the one of the request | a request object by reference is fetched anew for the ID token (`id-token/Payload.ts`), after it was verified, and its nonce is the one that is there now |
| `presentations_callback` | the presentation callback is enforced at the RP | it is called by an asynchronous predicate of `filter`, so its result is not awaited |
| `presentations_status` | the status of credentials is always checked | `verifyRevocation` looks for credentials in the envelope of a presentation, where there are none |
| `exchange_metadata` | draft 11 is supported, and metadata "can be either passed by value [...] or passed by reference" (repository `README.md:63,401-402`) | verification reads and checks the metadata of both drafts and fetches them, but the answer takes the syntax types from `registration` alone (`id-token/Payload.ts:28,45`, with a "fixme"): for a verified request of draft 11, or one with its metadata by reference, it is a TypeError |
| `builders_resolver` | a custom resolver of a method is used, otherwise the universal one (`did/DIDResolution.ts:36-39`) | resolvers are looked up under a key nobody stores, and only the first reaches the constructor |

The findings in `PROJECT.json` quote each promise with its line. Further
disagreements were met and are recorded here without a run:

- without `targets` the claims of a request are routed by the targets of the
  *nonce* (`RP.ts:137-143` against `types.ts:84`);
- a nonce supplied to the verification of a response is compared with nothing
  (`RP.ts:159-160` against repository `README.md:997`, "To verify the response
  against the supplied nonce");
- `createAuthorizationRequest()` without arguments is a TypeError
  (`RP.ts:68,85`);
- a request without `claims` and without `registration` is a TypeError in the
  version discovery (`SIOPSpecVersion.ts:17`);
- a nonce wished for the response never overrides (repository `README.md:848`
  against `id-token/Payload.ts:31`);
- the time of issue of an ID token is 60 000 seconds before now
  (`id-token/Payload.ts:37`);
- the function of a supplied signature is lost in a copy by way of JSON
  (`RequestObject.ts:119`), which `RequestObjects` has as `CanSign` and
  `RequestExchange` as `JsonCopy`, although `withSuppliedSignature`
  (`rp/Builder.ts:189`) offers it: `RefusalsExplained` counts a supplied signature
  as a reason;
- a request of the JWT VC presentation profile is never recognised as one, since
  the RP puts its metadata where draft 1 has them (`RequestRegistration.ts:36`,
  `SIOPSpecVersion.ts:26`, against repository `README.md:63`): it is discovered as
  draft 1 alone, while a request of draft 11 is discovered as one of the profile
  too, even as nothing else if its definition has a filter with `const`.
  `RecognisedAsIssued` excepts the profile;
- a definition of draft 11 that is targeted at the request object alone does not
  reach it (`request-object/Payload.ts` has no such property, against
  `types.ts:86-93`), so the request asks for nothing; `RequestArrives` and
  `PresentedAsAsked` do not speak of that place;
- several definitions in an array are accepted by the schema and refused by the
  evaluation (`PresentationExchange.ts:163` finds the array first);
- the options schema of the OP refuses presentations that are compact JWTs;
- a `client_id` that is missing is replaced by the metadata object
  (`request-object/Payload.ts:22-25`), on which the OP's check of domains
  throws;
- the branch for JWK thumbprints cannot be reached
  (`id-token/Payload.ts:21,45`);
- values of a URI are decoded twice (`Encodings.ts:22,28`);
- an RP built without syntax types loses its default ones with the first build
  if it has resolvers (`DIDResolution.ts:84`), the case that `RebuildSucceeds`
  and `AnnouncementsOnlyGrow` except.

### 3.2 Fairness

Safety is checked without fairness. `FairSpec` of `AuthorizationFlow` is weakly
fair in the steps by which an OP that was asked for an answer goes on
(`Answering`), for each session, and in those of the RP that lead to a verdict
(`Checking`), for each verification. What justifies it is the event loop: a
continuation whose promise is settled is run. That a promise is settled is *not*
assumed: a fetch (the code sets no timeout, `HttpUtils.ts:104`), a signer or a
resolver may fail (`Fail`, `Break`) or never answer (`Hang`, `Break`) in any
state that awaits it, and the operation then rests in "failed" or "waiting",
which `InTimeGoesThrough` excepts by name. No refusal of the code's own is among
these steps, so a check that refuses what is in time violates the property.
`FairSpec` of `PresentationVerification` is weakly fair in the steps of the RP,
which assumes of the callback of the status that it answers or fails; the callback
that verifies presentations is detached, and `Settle` has no fairness. Nor have
the user, the clock, the network that carries links and responses, and the
application, all of which may stop for ever.

## 4. The proofs

TLAPS proves what follows for every value of the constants: any number of
calls, sessions, parties and builds, any arguments, lifetimes and lists, and
none of the bounds of section 3. The assumptions are those that the modules
name, which TLC evaluates in each run: what kind of thing each constant is
(`InputsAssumption`, `BuildersAssumption` and the like), that lives and skews are
natural numbers (`TimeAssumption`), that options have one of the modes of the domain check
(`SettingsAssumption`), that the checker of domains answers in one of the
ways its interface allows (`DomainChecksAssumption`), and that names in different
languages differ and none is that of another field (`NamesAssumption`: a matter of
the separator `#`, which is assumed because the prover cannot look into a text).
Three theorems on `RequestExchange` state further hypotheses, named below. Each
invariant was checked by TLC before it was proved.

Every proof of an invariant has the same three parts: `Init` establishes an
inductive invariant, each action preserves it, and it implies the property.
What follows says why the properties are not inductive themselves.

`RequestCreation_proofs`:

- `TypeCorrect`, from lemmas on what `OptionsAfter`, `RequestObjectPayload` and
  `OuterPayload` return.
- `RequestObjectOwned`: `RequestObjectIsOwn` is inductive relative to `TypeOK`;
  the only step that disturbs it is `Begin`, where `ObjectOfBegin` says what a
  request object contains.
- `OuterPayloadNeverOlder`: the property says nothing of a call that has not
  read the options yet. `OuterInv` adds that what such a call wrote into the
  options is there or has been overwritten by calls with a higher stamp
  (`OptionsNotOlder`), and that stamps are bounded by the number of arrivals
  (`StampsBounded`).
- `InheritedNonceLatest`: the invariant says of the nonce *in the options* what
  the property says of a request object.
- `FailedCallAltersStateOnly`: an action property that follows from what a failing
  step writes.
- `OwnDefinitionNeverRejected`: `DefinitionIsOwn` says that the object of a call
  which gave a definition for it has that definition until it is checked. Only
  `RejectDefinition` fails a call that has its object and nothing else yet.
- `OnlyDisturbedCallsDiffer`: what a call will read is decided by `Begin`, which is
  the abstract `Decide`, unless it is changed before the call has read it;
  `ReadOptions` and `BuildPayload` stutter. That holds of every step whatever the
  other calls do, from the types alone.
- `SerialCallsDecidedAtOnce`: `SerialSpec` implements `RequestIssuance`. The
  invariant `OneInFlight` says that at most one call is between its first and its
  last step, so no step disturbs another call (`SerialStepIsUndisturbed`), and the
  theorem before applies.

`RequestObjects_proofs`, from `SignaturesAssumption` only:

- `TypeCorrect`: the JWT in the cache, in the URI and in every answer is one that
  has been signed. `SignedType` states what a new JWT does to the sequence,
  `AnswerGrows` that the answers there are stay answers.
- `JwtsAgreeAlways`, `SignedIsReadableAlways`: a call that is about to sign has
  copied the payload before the await, when another call may have changed it.
  `PayloadInv` says that all copies and all JWTs are `Stripped`, and that the
  payload is too once one has been taken.
- `UriCarriesJwtAlways`, by value and for requests that are signed when they are
  created: `ValueInv` adds to the property that no call is
  signing, and that the one JWT is there from the creation on.

`AuthorizationFlow_proofs`. `TypeInv` adds to the types that what is published
at an RP's reference was issued by that RP. Then the parties one after the other:

- `VerifiedRequestIsAnswered`, `AnsweredInTime`: `OpInv` says, phase by phase, that
  a session is bound to a request of the RP that its link names, in an edition no
  later than the present (`BoundToLink`); that the answer is addressed to that RP
  (`AnswersLink`); and that the request was alive at the time that is remembered
  when the answer is asked for (`AskedInTime`), which the second verification
  must not lose.
- `AcceptedWhereAskedAlways`, `ExpiredTokenRefused`: `RpInv` says which checks a
  verification at a given stage has passed. It speaks of a session and of a
  verification at once, and holds because a session that has submitted its
  answer takes no step any more (`SubmittedIsFinal`).
- `PromiseKept`: the flow implements `RequestAnswering`. The mapping hides sessions
  whose request is passed by reference, for which `flow_nonce` shows that what is
  answered need not be what was verified. A step that does not accept leaves all three abstract
  variables alone or is `Verify` or `Answer` of one session; that is shown once
  for the steps that do not touch what the mapping reads, and then action by action.

`PresentationVerification_proofs`:

- `OneDefinitionFoundAtMost`, `EveryDefinitionFound`: `OpInv` says that a party that
  goes on found the definitions of a request that has a version and does not
  have both places filled (`OneDefinitionFound` is the argument about the payload).
- `SidesAlwaysAgree`, `AcceptedMeetsDemand`: `MatchInv` keeps what each side's
  matching has judged; `MatchMeaning` says that the code's loops, which count
  and compare, mean what the property says, since there is one definition at most.
- `AcceptedWithStatus`: `StatusInv` counts. Among the presentations checked so far
  those in JSON-LD are as many as the valid answers; `CountedTogether` is the step
  that makes both sets grow by one.

`PartyBuilders_proofs`, with lemmas on `SubjectSyntax` about merging lists of
types, choosing resolvers and intersecting metadata:

- `KeysOfTheVersion`: `KeysFit` says of the *builder* what the property says of the
  parties it has built: the setters look at the first version that was added,
  which stays the first, and refuse before there is one.
- `ListedTypesAreAnnounced`, `OnlyAnnouncedMethods`: `ListedInv` says that each
  party resolves what it lists and that its list is in the metadata object it
  shares with others, which other builds only add to (`MergedFacts`).
- `NothingIsWithdrawn`, `BuildsAgain`: action properties. `RebuildInv` says what a
  builder that has just built still has.
- `AgreementsAreShared`, `SharedTypesAreFound`: `AgreementInv` keeps that the
  agreement is the result of the two offers. The rest is about
  `assertValidMetadata`, for lists of any length.

`RequestExchange_proofs`:

- `TypeCorrect`, which includes that a query that is read back has texts and
  objects only (`QueryAsRead`) and that both payloads are objects whatever the
  options are.
- `CheckedAsDemanded`: `DomainInv` says that every check made so far passed its mode
  and that there are as many as the stage requires. `MessagesGathered` says what
  is in the list of messages for any number of endpoints and resources, so that
  the judgement of the code on the list is one on what the checker reported.
- All other theorems on this module compare the options of the RP with what the
  OP knows after signing, the URI and the reading of the URI, and none of their
  properties is inductive. They rest on one invariant: `DeliveryInv` says
  where everything came from. The request object is the one made from the options
  (`ObjectAsMade`), the query encloses the payload made from them and adds
  nothing but the request object (`OuterAsMade`), what the OP knows it knows from
  the two together (`KnownFromRequest`), an answer was given for the reasons the
  code demands (`AnsweredWithReason`), and the options are those that were
  asserted (`OptionsHeld`). What each side has under a key then follows from lemmas
  on the operators: `ObjectMetadata`, `ReceivedFields`, `MergedFields`, `TopLevelFields`,
  `MergedClaims`. A value keeps its kind and its keys when the query is read
  (`RereadKeepsShape`), and is the same if it has no text that looks encoded
  (`ReadAsItIs`), both for values nested down to `Depth`.
- `NeverTheOtherDraft`, without a hypothesis: the keys that mark a draft cannot be
  kept out of a request.
- `PresentedExactlyIfAsked`, without a hypothesis: a definition in the claims or
  at the top level reaches the place where the version that was discovered has it
  looked for (`SomethingArrives`), and what no option mentions is at none of them
  (`NothingArrives`); the answer was checked against what was found.
- `WhatWasGivenArrives` follows from `DeliveryInv` alone.
- `MetadataPublishedAsSpecified`, without a hypothesis: `OptionsHeld` gives that the
  options satisfy the schemas of options, and `DiscoveryPublished` and
  `RPPublished` that the payloads made from such options satisfy the schemas of
  payloads, field by field. `LanguagesPublished` says that no renamed field and no
  default hides a name in another language.
- `NothingElseRefuses`. `RefusalsExplained` is inductive relative to `DeliveryInv`
  and `TypeOK`, with one step for each function that may refuse. The argument is
  that each test the code makes is passed if the options have no fault of the
  kind: a key of one's own signs, the request (`SigningExplained`) and the answer
  (`OwnKeySigns`); who presents nothing and is asked for nothing fits
  (`NothingToPresent`); places with good
  definitions are found good in the object, and in the object merged with the
  query (`GoodObject`, `GoodMerged`); the metadata in the object, in the query and in
  both are those made from the options, hence published as specified
  (`SendingExplained`, `ReadingExplained`, `MergedMetadata`); and the merged payload
  satisfies the schema of one version at least (`FitsAVersion`). The last is the
  longest: `ObjectFits` is about what is signed, `ReceivedFits` about what is read
  from the query, and `ClaimsMerged` about the claims, which come from either.
- `IssuedIsRecognised` needs `NeverTheOtherDraft` and, for draft 11,
  `FitsDraft11`: the merged payload has no claims exactly if the options have
  none (`NoClaimsLeft`), and the schema knows the definition that was read
  exactly if it knows the one that was given (`DefinitionKnownAsRead`).

The hypotheses are on the options of the RP and are what no schema of the code
enforces, because the code does something else without them:

| Hypothesis | What it excludes | Needed for |
|---|---|---|
| `NoMetadataBesides` | a payload with metadata of its own: a schema lets any additional property pass, and one with the name of a claim that the library sets is another request | all three |
| `NoEmptyDefinition` | empty definitions and references in claims: the URI leaves empty values out | `WhatWasGivenArrives` |
| `FieldsOfOptions` | in the fields that a schema of requests types and that of options does not mention, anything but texts, and times altogether: in the query a number becomes a text, and the request would be refused as of no version | `NothingElseRefuses`, `IssuedIsRecognised` |
| `ClaimsAreValues` | claims that are not JSON values or are nested deeper than `Depth` | the same two |
| `DefinitionsAreValues` | the same of the definition at the top of a payload, and empty ones | `WhatWasGivenArrives`, `IssuedIsRecognised` |

`MCRequestExchange` assumes the five by name, so TLC evaluates them on all
settings of `exchange`, and they hold.

`Payloads_proofs` has what those proofs need to know of payloads: objects put
together, encoded and read key by key; the metadata payloads; and
`SchemasReadTheSame`, that the schemas of requests say the same of a value and of
what is read of it. Its proof does not follow the recursion of the decoder
through the schemas: `Simulates` is a relation between values that keeps kinds, keys
and members, `ReadingSimulates` says that reading a JSON value is such a relation
(this is where the recursion is unfolded, `Depth` times at most), and one
lemma per definition of a schema that it does not tell apart what is related.

`Selections_proofs` has the lemma `KeptElements`, which the lists of types, of
presentations and of messages all rest on. Induction over data works here with
a trick: the library's induction theorem takes an operator, which the prover
cannot instantiate, but the axiom for a *set* of natural numbers (`SetInduction`)
needs none, so a fact about a recursive function is stated as membership in the
set of the numbers it holds for. No module of the project declares a recursive
operator.

Only model-checked are `InTimeGoesThrough` and `VerificationEnds`, which need
fairness and `ENABLED` and are out of the prover's reach. Every other property of a
passing run is stated by a theorem. The promises of section 3.1 that the code
breaks have no theorems.

## 5. What is not modelled

- **Keys and cryptography** (`helpers/Keys.ts`, did-jwt, elliptic): conversions
  and arithmetic without decisions that bear on the state; the branch of
  `createIDTokenPayload` that uses them cannot be reached.
- **Evaluating a presentation definition** (`@sphereon/pex`), **resolving a DID**
  (`did-resolver`, the universal resolver), **verifying a domain linkage**:
  libraries; the models have their possible results.
- **Nesting in schemas** beyond two levels, and the distinction of strings by a
  schema that also accepts any string.
- **Texts** other than the four kinds of `UriEncoding`; keys of a query, which no
  payload of the library has encoded characters in.
- **`checkSIOPSpecVersionSupported`**, **`getAllLanguageTaggedProperties`**, external
  verification modes and the accessors of a request: called by the application,
  without state.
- **Setters that only store a value** (verification modes, callbacks, expiry,
  response mode).
- **Replays**: no nonce is remembered (`rp/NonceReplayRegistry.ts` is empty), so a
  response that is delivered twice is verified twice; nothing in the repository
  promises otherwise.
- **The generator and the exports**: no behaviour.

## 6. Plan

Order of work, the most important behaviour first. Done: (1) request creation
and its abstract specification, (2) the flow between the parties and its
abstract specification, (3) presentations, (4) request objects, (5) builders and
negotiation, (6) the schemas, metadata payloads, encodings and domain checks,
composed in `RequestExchange`, (7) theorems for every safety property, action
property and refinement that a passing run checks. What may follow:

1. The external verification modes and the accessors of a request, should they
   come to keep state.
2. `RequestExchange` with definitions nested deeper than two levels, if the
   generated schemas are ever written by hand: the lemmas of `Payloads_proofs` then
   need an induction over values.
3. A registry of nonces, once `rp/NonceReplayRegistry.ts` has one.
