-------------------------- MODULE RequestCreation --------------------------
(***************************************************************************)
(* How one relying party (RP) turns calls of createAuthorizationRequest    *)
(* and createAuthorizationRequestURI into authorization requests.          *)
(*                                                                         *)
(* Every call writes the state, the nonce and the claims it was given into *)
(* the options object of the RP, which all calls share, and then builds    *)
(* two payloads from it: the one of the signed request object and the      *)
(* unsigned one around it.  The calls are asynchronous: what stands        *)
(* between two awaits is one action, and the calls interleave at the       *)
(* awaits.                                                                 *)
(***************************************************************************)
EXTENDS RequestPayloads

CONSTANT PassBy   \* how the RP passes the request object

ASSUME PassByAssumption == PassBy \in {"value", "reference"}

VARIABLES
  options,  \* the payloads in RP._createRequestOptions, one per target
  pc,       \* how far each call is
  input,    \* the arguments of each call
  object,   \* the payload of the request object of each call
  outer,    \* the payload around it
  stamp,    \* history: the position of each call in the order of arrival
  arrivals  \* history: how many calls have been made

vars == <<options, pc, input, object, outer, stamp, arrivals>>

Running == {"object", "payload", "signing"}
Phase   == {"idle", "issued", "failed"} \cup Running

\* Faulty variant: the definition is looked up in the shared options.
SharedDefinitionValid(c) ==
  LET d == options[RoSide].claims["vp_token"].of
  IN  d \in Calls => input[d].valid

\* The builder's own definition is valid.
DefinitionValid(c) ==
  LET d == object[c].claims["vp_token"].of
  IN  d \in Calls => input[d].valid

Init ==
  /\ options \in BuiltOptions
  /\ pc = [c \in Calls |-> "idle"]
  /\ input = [c \in Calls |-> NoInput]
  /\ object = [c \in Calls |-> NoPayload]
  /\ outer = [c \in Calls |-> NoPayload]
  /\ stamp = [c \in Calls |-> 0]
  /\ arrivals = 0

(***************************************************************************)
(* newAuthorizationRequestOpts, the assertions and the deep copy of the    *)
(* options for the request object run before the first await.              *)
(***************************************************************************)
Arrive(c, in) ==
  /\ pc[c] = "idle"
  /\ input' = [input EXCEPT ![c] = in]
  /\ options' = OptionsAfter(options, c, in)
  /\ arrivals' = arrivals + 1
  /\ stamp' = [stamp EXCEPT ![c] = arrivals + 1]
  /\ UNCHANGED outer

Begin(c, in) ==
  /\ ~MissesNonce(in)
  /\ Arrive(c, in)
  /\ pc' = [pc EXCEPT ![c] = "object"]
  /\ object' = [object EXCEPT ![c] =
                  RequestObjectPayload(c, OptionsAfter(options, c, in))]

BeginFails(c, in) ==
  /\ MissesNonce(in)
  /\ Arrive(c, in)
  /\ pc' = [pc EXCEPT ![c] = "failed"]
  /\ UNCHANGED object

\* The presentation definition is examined after the await.
RejectDefinition(c) ==
  /\ pc[c] = "object"
  /\ ~DefinitionValid(c)
  /\ pc' = [pc EXCEPT ![c] = "failed"]
  /\ UNCHANGED <<options, input, object, outer, stamp, arrivals>>

\* Faulty variant: the request object is built from the shared options here.
ReadOptionsTwice(c) ==
  /\ pc[c] = "object"
  /\ DefinitionValid(c)
  /\ pc' = [pc EXCEPT ![c] = "payload"]
  /\ object' = [object EXCEPT ![c] = RequestObjectPayload(c, options)]
  /\ outer' = [outer EXCEPT ![c] = OuterPayload(options)]
  /\ UNCHANGED <<options, input, stamp, arrivals>>

\* createAuthorizationRequestPayload reads the shared options, then awaits.
ReadOptions(c) ==
  /\ pc[c] = "object"
  /\ DefinitionValid(c)
  /\ pc' = [pc EXCEPT ![c] = "payload"]
  /\ outer' = [outer EXCEPT ![c] = OuterPayload(options)]
  /\ UNCHANGED <<options, input, object, stamp, arrivals>>

\* By reference, and short of a URI, nothing signs the request object yet.
NeedsSignature(c) == PassBy = "value" \/ input[c].uri

BuildPayload(c) ==
  /\ pc[c] = "payload"
  /\ pc' = [pc EXCEPT ![c] = IF NeedsSignature(c) THEN "signing" ELSE "issued"]
  /\ UNCHANGED <<options, input, object, outer, stamp, arrivals>>

Sign(c) ==
  /\ pc[c] = "signing"
  /\ \E outcome \in {"issued", "failed"} : pc' = [pc EXCEPT ![c] = outcome]
  /\ UNCHANGED <<options, input, object, outer, stamp, arrivals>>

Advance(c) == RejectDefinition(c) \/ ReadOptions(c) \/ BuildPayload(c) \/ Sign(c)

Call(c) == \E in \in Inputs : Begin(c, in) \/ BeginFails(c, in)

Next == \E c \in Calls : Call(c) \/ Advance(c)

Spec == Init /\ [][Next]_vars

(***************************************************************************)
(* An application that awaits each request before it asks for the next.    *)
(***************************************************************************)
InFlight   == {c \in Calls : pc[c] \in Running}
SerialNext == \E c \in Calls : (InFlight = {} /\ Call(c)) \/ Advance(c)
SerialSpec == Init /\ [][SerialNext]_vars

-----------------------------------------------------------------------------

TypeOK ==
  /\ options \in [Target -> Options]
  /\ pc \in [Calls -> Phase]
  /\ input \in [Calls -> Inputs \cup {NoInput}]
  /\ object \in [Calls -> Payload]
  /\ outer \in [Calls -> Payload]
  /\ stamp \in [Calls -> Nat]
  /\ arrivals \in Nat

Made(c) == pc[c] # "idle"
Signed(c) == pc[c] \in Running \cup {"issued"}

(***************************************************************************)
(* The request object of a call carries the state and the nonce the call   *)
(* was given for it, whatever the other calls write into the shared        *)
(* options meanwhile: RequestObject copies them before its first await.    *)
(***************************************************************************)
RequestObjectIsOwn ==
  \A c \in Calls : Signed(c) =>
    /\ GoesTo(input[c].state, RoSide) => object[c].state = Supplied(c)
    /\ GoesTo(input[c].nonce, RoSide) => object[c].nonce = Supplied(c)

(***************************************************************************)
(* The unsigned payload is read later than it is written, so it may carry  *)
(* the values of another call, but never of one made before: a value the   *)
(* call was given is at worst overwritten by a later call.                 *)
(***************************************************************************)
NotOlder(v, c) == v.src = "supplied" /\ v.of \in Calls /\ stamp[v.of] >= stamp[c]

OuterPayloadNotOlder ==
  \A c \in Calls : pc[c] \in {"payload", "signing", "issued"} =>
    /\ GoesTo(input[c].state, AuthSide) => NotOlder(outer[c].state, c)
    /\ GoesTo(input[c].nonce, AuthSide) => NotOlder(outer[c].nonce, c)

(***************************************************************************)
(* A nonce a request object carries without having been given it is the    *)
(* one of the latest earlier call that had one for the request object.     *)
(***************************************************************************)
InheritedNonceIsLatest ==
  \A c, d \in Calls :
    Signed(c) /\ c # d /\ object[c].nonce = Supplied(d) =>
      /\ stamp[d] < stamp[c]
      /\ \A e \in Calls : stamp[d] < stamp[e] /\ stamp[e] <= stamp[c]
                           => ~GoesTo(input[e].nonce, RoSide)

(***************************************************************************)
(* A call that fails for want of a nonce has written its state into the    *)
(* shared options, and nothing else.                                       *)
(***************************************************************************)
FailedCallWritesStateOnly ==
  [][\A c \in Calls : pc[c] = "idle" /\ pc'[c] = "failed" =>
       \A t \in Target : /\ options'[t].nonce = options[t].nonce
                         /\ options'[t].claims = options[t].claims]_vars

(***************************************************************************)
(* A call that gives its own valid presentation definition for the request *)
(* object is not rejected for the definition of another call.              *)
(***************************************************************************)
OwnDefinition(c) ==
  /\ ClaimsGoTo(input[c], RoSide)
  /\ "vp_token" \in input[c].keys
  /\ input[c].valid

OwnDefinitionNotRejected ==
  [][\A c \in Calls : pc[c] = "object" /\ pc'[c] = "failed"
                        => ~OwnDefinition(c)]_vars

(***************************************************************************)
(* Until the options are read, the outer payload of a call is the one they *)
(* would give now.  What an application sees of the calls is held against  *)
(* RequestIssuance with it.                                                *)
(***************************************************************************)
ContentOf(c) ==
  [object |-> IF Signed(c) THEN object[c] ELSE NoPayload,
   outer  |-> CASE pc[c] = "object"             -> OuterPayload(options)
                [] pc[c] \in {"idle", "failed"} -> NoPayload
                [] OTHER                        -> outer[c]]

StatusOf(c) ==
  CASE pc[c] = "idle"      -> "unused"
    [] pc[c] \in Running   -> "decided"
    [] pc[c] = "issued"    -> "issued"
    [] OTHER               -> "failed"

Issuance == INSTANCE RequestIssuance WITH
  memory  <- options,
  content <- [c \in Calls |-> ContentOf(c)],
  status  <- [c \in Calls |-> StatusOf(c)]

(***************************************************************************)
(* Each request is decided in one step, both payloads from the same        *)
(* contents of the options, and the one way to depart from that is to      *)
(* change what another call has yet to read: any step that does not do so  *)
(* is a step of RequestIssuance, whichever calls are under way.            *)
(***************************************************************************)
Reading     == {c \in Calls : pc[c] = "object"}
Undisturbed == Reading = {} \/ OuterPayload(options') = OuterPayload(options)

UndisturbedCallsAreAtomic ==
  /\ Issuance!Init
  /\ [][Undisturbed => Issuance!Next \/ UNCHANGED Issuance!issuanceVars]_vars

(***************************************************************************)
(* An application that makes one call at a time disturbs none of them.     *)
(***************************************************************************)
SerialCallsAreAtomic == Issuance!Spec

-----------------------------------------------------------------------------
(***************************************************************************)
(* A promise of the documentation, which the code does not keep.           *)
(***************************************************************************)

(***************************************************************************)
(* "An optional nonce, will be generated if not provided": no two requests *)
(* of which one was given no nonce have the same nonce, unless the RP was  *)
(* built with one.                                                         *)
(***************************************************************************)
OmittedNonceIsGenerated ==
  \A c, d \in Calls :
    c # d /\ Signed(c) /\ Signed(d) /\ ~input[d].nonce.given
      /\ object[d].nonce # Supplied(NoCall)
      => object[c].nonce # object[d].nonce

=============================================================================
