------------------------- MODULE AuthorizationFlow -------------------------
(***************************************************************************)
(* The way of an authorization request from the RP through the OP and of   *)
(* the response back to the RP.                                            *)
(*                                                                         *)
(* The OP resolves a link to a request, verifies it, and answers it when   *)
(* the user agrees; the RP verifies what it is sent.  Every step between   *)
(* two awaits is an action.  A request object passed by reference is       *)
(* fetched once to be verified and twice more to be answered, while the RP *)
(* publishes its request objects, one after the other, at its one          *)
(* reference URI.  Responses are delivered late, repeatedly, or never, and *)
(* time passes.                                                            *)
(***************************************************************************)
EXTENDS Integers, FiniteSets

CONSTANTS
  Requests, Sessions, Parties, Owner, NoRequest,
  Checks,       \* the verifications of responses, of all the RPs
  NoSession,
  Links,        \* the links an OP is sent, a subset of Link
  Kinds,        \* the payloads of requests, a subset of Kind
  Demands,      \* what RPs verify responses with, a subset of Demand
  RequestLife,  \* seconds until the JWT of a request expires
  TokenLife,    \* seconds until an ID token expires
  Skew,         \* seconds did-jwt tolerates
  MaxTime,      \* bound: how far the clock runs
  MaxEditions   \* bound: how often an RP publishes a request object

ASSUME OwnerAssumption   == Owner \in [Requests -> Parties]
ASSUME NoneAssumption    == NoRequest \notin Requests /\ NoSession \notin Sessions
ASSUME TimeAssumption    ==
  {RequestLife, TokenLife, Skew, MaxTime, MaxEditions} \subseteq Nat

Link   == [request: Requests, nonce: Requests \cup {NoRequest},
           channel: {"jwt", "value", "reference"}]
Kind   == [state: BOOLEAN,         \* is the state in the unsigned payload?
           registration: BOOLEAN]  \* is there a `registration` by value?
Demand == [party: Parties, audience: BOOLEAN, callback: BOOLEAN,
           nonce: Requests \cup {NoRequest}]

ASSUME InputsAssumption ==
  Links \subseteq Link /\ Kinds \subseteq Kind /\ Demands \subseteq Demand

VARIABLES
  now,        \* the clock
  request,    \* the requests the RPs have issued
  published,  \* the request object at the reference URI of each RP
  edition,    \* history: how often each RP has published one
  phase,      \* how far the OP is with each link
  link,       \* the link of each session
  bound,      \* the request object AuthorizationRequest holds, and its edition
  wish,       \* the options createAuthorizationResponse is called with
  answer,     \* the response of each session
  stage,      \* how far each verification of a response is
  subject,    \* the session whose response it verifies
  terms       \* the options verifyAuthorizationResponse is called with

opVars == <<phase, link, bound, wish, answer>>
rpVars == <<stage, subject, terms>>
ioVars == <<request, published, edition>>
vars   == <<now, opVars, rpVars, ioVars>>

NotIssued == [state |-> FALSE, registration |-> FALSE, made |-> -1]
Issued    == {r \in Requests : request[r] # NotIssued}

Wish   == [nonce: BOOLEAN, state: BOOLEAN, at: 0..MaxTime]
Answer == [nonce: Requests \cup {"own"},            \* whose nonce it carries
           state: Requests \cup {"own", "random"},  \* whose state it carries
           to: Parties, exp: Nat]
Terms  == [party: Parties, audience: BOOLEAN, callback: BOOLEAN,
           nonce: Requests \cup {NoRequest}, at: 0..MaxTime]

OpBusy == {"resolving", "verifying", "reverifying", "fetching", "merging",
           "signing"}
OpRest == {"idle", "verified", "answered", "submitted", "refused", "declined",
           "unusable", "failed", "waiting"}
RpBusy == {"signature", "claims", "presentations"}
RpRest == {"idle", "accepted", "rejected", "failed", "waiting"}

Init ==
  /\ now = 0
  /\ request = [r \in Requests |-> NotIssued]
  /\ published = [p \in Parties |-> NoRequest]
  /\ edition = [p \in Parties |-> 0]
  /\ phase = [s \in Sessions |-> "idle"]
  /\ link = [s \in Sessions |-> NoRequest]
  /\ bound = [s \in Sessions |-> [request |-> NoRequest, edition |-> 0]]
  /\ wish = [s \in Sessions |-> NoRequest]
  /\ answer = [s \in Sessions |-> NoRequest]
  /\ stage = [v \in Checks |-> "idle"]
  /\ subject = [v \in Checks |-> NoSession]
  /\ terms = [v \in Checks |-> NoRequest]

-----------------------------------------------------------------------------
(***************************************************************************)
(* The clock and the RPs.  The state and the nonce of a request stand for  *)
(* the request; RequestCreation models where they come from.               *)
(***************************************************************************)
Tick == now < MaxTime /\ now' = now + 1 /\ UNCHANGED <<opVars, rpVars, ioVars>>

Issue(r, k) ==
  /\ request[r] = NotIssued
  /\ request' = [request EXCEPT ![r] = [state |-> k.state, made |-> now,
                                        registration |-> k.registration]]
  /\ UNCHANGED <<now, published, edition, opVars, rpVars>>

\* The application puts the request object at the URI of its RP.
Publish(r) ==
  /\ r \in Issued
  /\ published[Owner[r]] # r
  /\ edition[Owner[r]] < MaxEditions
  /\ published' = [published EXCEPT ![Owner[r]] = r]
  /\ edition' = [edition EXCEPT ![Owner[r]] = @ + 1]
  /\ UNCHANGED <<now, request, opVars, rpVars>>

-----------------------------------------------------------------------------
(***************************************************************************)
(* The OP.  fetchByReferenceOrUseByValue gives what is at the URI now, or  *)
(* the request object the payload holds.                                   *)
(***************************************************************************)
ByReference(s)   == link[s].channel = "reference"
RequestObject(s) == IF ByReference(s) THEN published[Owner[link[s].request]]
                                      ELSE link[s].request

\* A link reaches the OP, which may supply the nonce it expects.
Open(s, l) ==
  /\ phase[s] = "idle"
  /\ l.request \in Issued
  /\ phase' = [phase EXCEPT ![s] = "resolving"]
  /\ link' = [link EXCEPT ![s] = l]
  /\ UNCHANGED <<now, bound, wish, answer, rpVars, ioVars>>

\* Faulty variant: a fetch that fails leaves the request object undefined.
ResolveAnyway(s) ==
  /\ phase[s] = "resolving"
  /\ phase' = [phase EXCEPT ![s] = "verifying"]
  /\ bound' = [bound EXCEPT ![s] = [request |-> RequestObject(s),
                                    edition |-> edition[Owner[link[s].request]]]]
  /\ UNCHANGED <<now, link, wish, answer, rpVars, ioVars>>

Resolve(s) ==
  /\ phase[s] = "resolving"
  /\ RequestObject(s) # NoRequest
  /\ phase' = [phase EXCEPT ![s] = "verifying"]
  /\ bound' = [bound EXCEPT ![s] = [request |-> RequestObject(s),
                                    edition |-> edition[Owner[link[s].request]]]]
  /\ UNCHANGED <<now, link, wish, answer, rpVars, ioVars>>

Unexpired(r) == now < request[r].made + RequestLife + Skew

\* The checks of AuthorizationRequest.verify, on the JWT that it has cached.
Verifiable(s) ==
  /\ Unexpired(bound[s].request)
  /\ link[s].nonce \in {NoRequest, bound[s].request}

\* There is nothing at the URI, or the checks refuse the request.
Refuse(s) ==
  /\ \/ phase[s] = "resolving" /\ RequestObject(s) = NoRequest
     \/ phase[s] = "verifying" /\ ~Verifiable(s)
  /\ phase' = [phase EXCEPT ![s] = "refused"]
  /\ UNCHANGED <<now, link, bound, wish, answer, rpVars, ioVars>>

Verify(s) ==
  /\ phase[s] = "verifying"
  /\ Verifiable(s)
  /\ phase' = [phase EXCEPT ![s] = "verified"]
  /\ UNCHANGED <<now, link, bound, wish, answer, rpVars, ioVars>>

\* createAuthorizationResponse, which verifies the request again.
AskForAnswer(s, nonce, state) ==
  /\ phase[s] = "verified"
  /\ phase' = [phase EXCEPT ![s] = "reverifying"]
  /\ wish' = [wish EXCEPT ![s] = [nonce |-> nonce, state |-> state, at |-> now]]
  /\ UNCHANGED <<now, link, bound, answer, rpVars, ioVars>>

\* Faulty variant: the earlier verification is relied on.
ReverifyNothing(s) ==
  /\ phase[s] = "reverifying"
  /\ phase' = [phase EXCEPT ![s] = "fetching"]
  /\ UNCHANGED <<now, link, bound, wish, answer, rpVars, ioVars>>

Reverify(s) ==
  /\ phase[s] = "reverifying"
  /\ Verifiable(s)
  /\ phase' = [phase EXCEPT ![s] = "fetching"]
  /\ UNCHANGED <<now, link, bound, wish, answer, rpVars, ioVars>>

\* The same checks refuse the request they have passed before.
Decline(s) ==
  /\ phase[s] = "reverifying"
  /\ ~Verifiable(s)
  /\ phase' = [phase EXCEPT ![s] = "declined"]
  /\ UNCHANGED <<now, link, bound, wish, answer, rpVars, ioVars>>

\* IDToken fetches the request object, and does nothing more with it.
FetchForIDToken(s) ==
  /\ phase[s] = "fetching"
  /\ RequestObject(s) # NoRequest
  /\ phase' = [phase EXCEPT ![s] = "merging"]
  /\ UNCHANGED <<now, link, bound, wish, answer, rpVars, ioVars>>

\* The signed properties of one request over the unsigned ones of another.
HasRegistration(s) ==
  \E r \in {link[s].request, RequestObject(s)} : request[r].registration

(***************************************************************************)
(* The state of the response: the one that is wished for, or the one of    *)
(* the unsigned payload, or a random one.  A request that is a JWT has all *)
(* its properties in the unsigned payload too.                             *)
(***************************************************************************)
ResponseState(s) ==
  CASE wish[s].state -> "own"
    [] ~wish[s].state /\ (link[s].channel = "jwt" \/ request[link[s].request].state)
         -> link[s].request
    [] OTHER -> "random"

\* Faulty variant: a nonce that is wished for overrides the one of the request.
WishedNonce(s) == IF wish[s].nonce THEN "own" ELSE RequestObject(s)

\* The nonce of the request object, which it always has, comes first.
TokenNonce(s) == RequestObject(s)

\* createIDTokenPayload merges what it fetches once more.
CreateIDToken(s) ==
  /\ phase[s] = "merging"
  /\ RequestObject(s) # NoRequest
  /\ HasRegistration(s)
  /\ phase' = [phase EXCEPT ![s] = "signing"]
  /\ answer' = [answer EXCEPT ![s] =
                  [nonce |-> TokenNonce(s), state |-> ResponseState(s),
                   to |-> Owner[RequestObject(s)], exp |-> now + TokenLife]]
  /\ UNCHANGED <<now, link, bound, wish, rpVars, ioVars>>

\* Without `registration` there are no DID methods, and their use fails.
CreateIDTokenFails(s) ==
  /\ phase[s] = "merging"
  /\ RequestObject(s) # NoRequest
  /\ ~HasRegistration(s)
  /\ phase' = [phase EXCEPT ![s] = "unusable"]
  /\ UNCHANGED <<now, link, bound, wish, answer, rpVars, ioVars>>

Sign(s) ==
  /\ phase[s] = "signing"
  /\ phase' = [phase EXCEPT ![s] = "answered"]
  /\ UNCHANGED <<now, link, bound, wish, answer, rpVars, ioVars>>

\* The response is posted to the audience of the ID token.
Submit(s) ==
  /\ phase[s] = "answered"
  /\ phase' = [phase EXCEPT ![s] = "submitted"]
  /\ UNCHANGED <<now, link, bound, wish, answer, rpVars, ioVars>>

\* A fetch, a resolution or a signer fails.
Fail(s) ==
  /\ phase[s] \in OpBusy
  /\ phase' = [phase EXCEPT ![s] = IF phase[s] \in {"resolving", "verifying"}
                                     THEN "refused" ELSE "failed"]
  /\ UNCHANGED <<now, link, bound, wish, answer, rpVars, ioVars>>

\* It never answers, and no timeout ends what awaits it.
Hang(s) ==
  /\ phase[s] \in OpBusy \ {"resolving", "verifying"}
  /\ phase' = [phase EXCEPT ![s] = "waiting"]
  /\ UNCHANGED <<now, link, bound, wish, answer, rpVars, ioVars>>

-----------------------------------------------------------------------------
(***************************************************************************)
(* An RP verifies a response: IDToken.verify, then the presentations.      *)
(***************************************************************************)
Receive(v, s, d) ==
  /\ stage[v] = "idle"
  /\ phase[s] = "submitted"
  /\ stage' = [stage EXCEPT ![v] = "signature"]
  /\ subject' = [subject EXCEPT ![v] = s]
  /\ terms' = [terms EXCEPT ![v] = [party |-> d.party, audience |-> d.audience,
                 callback |-> d.callback, nonce |-> d.nonce, at |-> now]]
  /\ UNCHANGED <<now, opVars, ioVars>>

\* Faulty variant: without an audience there is nothing to compare.
AudienceIfGiven(v) ==
  terms[v].audience => answer[subject[v]].to = terms[v].party

\* An ID token with an audience is refused when none is supplied.
AudienceMatches(v) ==
  terms[v].audience /\ answer[subject[v]].to = terms[v].party

\* did-jwt compares the audience, and the expiry with a skew.
SignatureHolds(v) ==
  AudienceMatches(v) /\ now < answer[subject[v]].exp + Skew

CheckSignature(v) ==
  /\ stage[v] = "signature"
  /\ SignatureHolds(v)
  /\ stage' = [stage EXCEPT ![v] = "claims"]
  /\ UNCHANGED <<now, subject, terms, opVars, ioVars>>

\* Faulty variant: the expiry is left to the verification of the signature.
AudienceHolds(v) == AudienceMatches(v) /\ terms[v].callback

\* Faulty variant: a token has expired in its last second.
ClaimsHoldBefore(v) ==
  /\ now < answer[subject[v]].exp
  /\ AudienceMatches(v)
  /\ terms[v].callback

\* Nonce and state are in the options, and no one compares them.
ClaimsHold(v) ==
  /\ now <= answer[subject[v]].exp
  /\ AudienceMatches(v)
  /\ terms[v].callback

CheckClaims(v) ==
  /\ stage[v] = "claims"
  /\ ClaimsHold(v)
  /\ stage' = [stage EXCEPT ![v] = "presentations"]
  /\ UNCHANGED <<now, subject, terms, opVars, ioVars>>

Accept(v) ==
  /\ stage[v] = "presentations"
  /\ stage' = [stage EXCEPT ![v] = "accepted"]
  /\ UNCHANGED <<now, subject, terms, opVars, ioVars>>

Reject(v) ==
  /\ \/ stage[v] = "signature" /\ ~SignatureHolds(v)
     \/ stage[v] = "claims" /\ ~ClaimsHold(v)
  /\ stage' = [stage EXCEPT ![v] = "rejected"]
  /\ UNCHANGED <<now, subject, terms, opVars, ioVars>>

\* The resolver, the domain check or a callback fails or never answers, or
\* the presentations do not fit.
Break(v) ==
  /\ stage[v] \in RpBusy
  /\ \E end \in {"failed", "waiting"} : stage' = [stage EXCEPT ![v] = end]
  /\ UNCHANGED <<now, subject, terms, opVars, ioVars>>

-----------------------------------------------------------------------------

\* The steps of createAuthorizationResponse, once it has been called.
Answering(s) ==
  \/ Reverify(s) \/ Decline(s) \/ FetchForIDToken(s)
  \/ CreateIDToken(s) \/ CreateIDTokenFails(s) \/ Sign(s)

OpStep(s) ==
  \/ Resolve(s) \/ Verify(s) \/ Refuse(s) \/ Answering(s)
  \/ Fail(s) \/ Hang(s)

Checking(v) == CheckSignature(v) \/ CheckClaims(v) \/ Accept(v) \/ Reject(v)

RpStep(v) == Checking(v) \/ Break(v)

\* What the applications, their users and the network decide.
Environment ==
  \/ Tick
  \/ \E r \in Requests : Publish(r) \/ \E k \in Kinds : Issue(r, k)
  \/ \E s \in Sessions : \/ \E l \in Links : Open(s, l)
                         \/ \E n, t \in BOOLEAN : AskForAnswer(s, n, t)
                         \/ Submit(s)
  \/ \E v \in Checks, s \in Sessions, d \in Demands : Receive(v, s, d)

Next == \/ Environment
        \/ \E s \in Sessions : OpStep(s)
        \/ \E v \in Checks : RpStep(v)

Spec == Init /\ [][Next]_vars

(***************************************************************************)
(* What is awaited answers, or fails, or never answers, which are steps of *)
(* their own; short of these an operation goes on.                         *)
(***************************************************************************)
FairSpec == /\ Spec
            /\ \A s \in Sessions : WF_vars(Answering(s))
            /\ \A v \in Checks : WF_vars(Checking(v))

-----------------------------------------------------------------------------

Opened   == (OpBusy \cup OpRest) \ {"idle"}
Verified == {"verified", "reverifying", "fetching", "merging", "signing",
             "answered", "submitted", "declined", "unusable", "failed",
             "waiting"}
Asked    == Verified \ {"verified"}
Answered == {"signing", "answered", "submitted"}
Received == (RpBusy \cup RpRest) \ {"idle"}

TypeOK ==
  /\ now \in 0..MaxTime
  /\ request \in [Requests -> [state: BOOLEAN, registration: BOOLEAN,
                               made: -1..MaxTime]]
  /\ published \in [Parties -> Issued \cup {NoRequest}]
  /\ edition \in [Parties -> Nat]
  /\ phase \in [Sessions -> OpBusy \cup OpRest]
  /\ stage \in [Checks -> RpBusy \cup RpRest]
  /\ DOMAIN link = Sessions /\ DOMAIN bound = Sessions
  /\ DOMAIN wish = Sessions /\ DOMAIN answer = Sessions
  /\ DOMAIN subject = Checks /\ DOMAIN terms = Checks
  /\ \A s \in Sessions :
       /\ phase[s] \in Opened => link[s] \in Links /\ link[s].request \in Issued
       /\ phase[s] \in Verified \cup {"verifying"} =>
            bound[s] \in [request: Issued, edition: Nat]
       /\ phase[s] \in Asked => wish[s] \in Wish
       /\ phase[s] \in Answered => answer[s] \in Answer
  /\ \A v \in Checks : stage[v] \in Received =>
       subject[v] \in Sessions /\ terms[v] \in Terms

(***************************************************************************)
(* A response carries the nonce of the very request that was verified,     *)
(* unless the RP has published at its reference URI since.                 *)
(***************************************************************************)
Republished(s) ==
  ByReference(s) /\ edition[Owner[link[s].request]] > bound[s].edition

AnswersVerifiedRequest ==
  \A s \in Sessions : phase[s] \in Answered =>
    answer[s].nonce = bound[s].request \/ Republished(s)

(***************************************************************************)
(* An RP accepts only responses of sessions in which the OP was sent, and  *)
(* verified, a request of this same RP, even if what was answered is not   *)
(* what was verified.                                                      *)
(***************************************************************************)
AcceptedWhereAsked ==
  \A v \in Checks : stage[v] = "accepted" =>
    /\ Owner[link[subject[v]].request] = terms[v].party
    /\ Owner[bound[subject[v]].request] = terms[v].party

(***************************************************************************)
(* However long the user hesitates after the verification of a request:    *)
(* the request was unexpired when its answer was asked for.                *)
(***************************************************************************)
ExpiredRequestNotAnswered ==
  \A s \in Sessions : phase[s] \in Answered =>
    wish[s].at < request[bound[s].request].made + RequestLife + Skew

(***************************************************************************)
(* A response that had expired when the RP received it is not accepted,    *)
(* although did-jwt tolerates a skew.                                      *)
(***************************************************************************)
ExpiredTokenNotAccepted ==
  \A v \in Checks : stage[v] = "accepted" =>
    terms[v].at <= answer[subject[v]].exp

(***************************************************************************)
(* Short of a failure outside, nothing keeps an answer to a request with   *)
(* DID methods from being made but that the request has expired, although  *)
(* it is verified twice; and nothing keeps the RP that is asked for from   *)
(* accepting it but that the ID token has, although two checks at two      *)
(* times tolerate different skews.                                         *)
(***************************************************************************)
Outside == {"failed", "waiting"}

InTimeGoesThrough ==
  /\ \A s \in Sessions :
       /\ phase[s] = "reverifying"
       /\ link[s].channel # "reference"
       /\ request[link[s].request].registration
       ~>
         \/ phase[s] \in {"answered", "submitted"} \cup Outside
         \/ phase[s] = "declined" /\ ~Unexpired(bound[s].request)
  /\ \A v \in Checks :
       /\ stage[v] = "signature"
       /\ terms[v].audience /\ terms[v].callback
       /\ Owner[link[subject[v]].request] = terms[v].party
       ~>
         \/ stage[v] \in {"accepted"} \cup Outside
         \/ stage[v] = "rejected" /\ now > answer[subject[v]].exp

(***************************************************************************)
(* Where requests are not passed by reference, both parties keep the       *)
(* promise of RequestAnswering.                                            *)
(***************************************************************************)
Done(s, phases) == phase[s] \in phases /\ ~ByReference(s)

Promise == INSTANCE RequestAnswering WITH
  verified <- [s \in Sessions |-> IF Done(s, Verified) THEN bound[s].request
                                                        ELSE NoRequest],
  answered <- [s \in Sessions |-> IF Done(s, {"answered", "submitted"})
                                    THEN answer[s].nonce ELSE NoRequest],
  accepted <- {<<terms[v].party, answer[subject[v]].nonce>> :
                 v \in {v \in Checks : stage[v] = "accepted"
                                          /\ ~ByReference(subject[v])}}

AnswersAsPromised == Promise!Spec

-----------------------------------------------------------------------------
(***************************************************************************)
(* A promise of the documentation, which the code does not keep.           *)
(***************************************************************************)

Sent == {s \in Sessions : phase[s] \in {"answered", "submitted"}}

(***************************************************************************)
(* "The nonce which should match the nonce from the request": the response *)
(* carries the nonce of the request that was verified.                     *)
(***************************************************************************)
NonceMatchesRequest == \A s \in Sent : answer[s].nonce = bound[s].request

=============================================================================
