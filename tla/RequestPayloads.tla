-------------------------- MODULE RequestPayloads --------------------------
(***************************************************************************)
(* The payloads of an authorization request: what a call of the RP is      *)
(* given, what it leaves in the options of the RP, and which request       *)
(* object and which unsigned payload are built from these options.         *)
(***************************************************************************)
EXTENDS Naturals

CONSTANTS
  Calls,    \* the calls made on the RP, each at most once
  Inputs,   \* the arguments a call may be given, a subset of Input
  NoCall    \* stands for the builder where a call is expected

ASSUME NoCallAssumption == NoCall \notin Calls

AuthSide == "authorization-request"
RoSide   == "request-object"
Target   == {AuthSide, RoSide}
ClaimKey == {"id_token", "vp_token"}

(***************************************************************************)
(* A property of the call: given or not, and scoped to a set of targets or *)
(* not.  The scoped empty set is the empty array, which selects no target. *)
(***************************************************************************)
Property == [given: BOOLEAN, scoped: BOOLEAN, targets: SUBSET Target]
Input ==
  [state: Property, nonce: Property, claims: Property,
   keys: SUBSET ClaimKey,  \* the members of the claims that are given
   valid: BOOLEAN,         \* is the presentation definition in them valid?
   uri: BOOLEAN]           \* createAuthorizationRequestURI was called

Omitted == [given |-> FALSE, scoped |-> FALSE, targets |-> {}]
NoInput == [state |-> Omitted, nonce |-> Omitted, claims |-> Omitted,
            keys |-> {}, valid |-> FALSE, uri |-> FALSE]

ASSUME InputsAssumption == Inputs \subseteq Input

(***************************************************************************)
(* Where a state or a nonce comes from.  Values of different calls differ; *)
(* Digest stands for the SHA-256 of a state.                               *)
(***************************************************************************)
Source      == {"none", "supplied", "random"}
Value       == [src: Source, of: Calls \cup {NoCall}]
Nothing     == [src |-> "none", of |-> NoCall]
Supplied(c) == [src |-> "supplied", of |-> c]
Random(c)   == [src |-> "random", of |-> c]
Digest(s)   == [src |-> "digest", of |-> s]
Nonce       == Value \cup [src: {"digest"}, of: Value]
Claims      == [ClaimKey -> Value]
NoClaims    == [k \in ClaimKey |-> Nothing]
Options     == [state: Value, nonce: Value, claims: Claims]
Payload     == [state: Value, nonce: Nonce, claims: Claims]
NoPayload   == [state |-> Nothing, nonce |-> Nothing, claims |-> NoClaims]

(***************************************************************************)
(* The RP may be built with a state, a nonce and a presentation definition *)
(* of its own, in both payloads.                                           *)
(***************************************************************************)
BuiltOptions ==
  {[t \in Target |->
     [state |-> s, nonce |-> n,
      claims |-> [k \in ClaimKey |-> IF k = "vp_token" THEN d ELSE Nothing]]] :
     s, n, d \in {Nothing, Supplied(NoCall)}}

IsTargetOrNoTargets(t, p) == p.scoped => t \in p.targets
GoesTo(p, t) == p.given /\ IsTargetOrNoTargets(t, p)

(***************************************************************************)
(* Claims are routed by the targets of the nonce, and without a nonce the  *)
(* call fails there, the state being written already.                      *)
(***************************************************************************)
MissesNonce(in)   == in.claims.given /\ ~in.nonce.given

\* Faulty variant: claims follow their own targets, with no nonce needed.
ClaimsGoWithoutNonce(in, t) == in.claims.given /\ GoesTo(in.claims, t)
ClaimsGoTo(in, t) == in.claims.given /\ GoesTo(in.nonce, t)

\* Faulty variant: a value is written only where there is none yet.
OptionsKept(opts, c, in) ==
  [t \in Target |->
    [state  |-> IF GoesTo(in.state, t) /\ opts[t].state = Nothing
                  THEN Supplied(c) ELSE opts[t].state,
     nonce  |-> IF GoesTo(in.nonce, t) /\ opts[t].nonce = Nothing
                  THEN Supplied(c) ELSE opts[t].nonce,
     claims |-> opts[t].claims]]

OptionsAfter(opts, c, in) ==
  [t \in Target |->
    [state  |-> IF GoesTo(in.state, t) THEN Supplied(c) ELSE opts[t].state,
     nonce  |-> IF GoesTo(in.nonce, t) THEN Supplied(c) ELSE opts[t].nonce,
     claims |-> [k \in ClaimKey |->
                   IF ClaimsGoTo(in, t) /\ k \in in.keys
                     THEN Supplied(c) ELSE opts[t].claims[k]]]]

GetState(c, o) == IF o.state = Nothing THEN Random(c) ELSE o.state

\* Faulty variant: the state is hashed twice.
GetNonceTwice(s, o) == IF o.nonce = Nothing THEN Digest(Digest(s)) ELSE o.nonce
GetNonce(s, o) == IF o.nonce = Nothing THEN Digest(s) ELSE o.nonce

\* Claims without a presentation definition are dropped.
DefinitionClaims(claims) ==
  IF claims["vp_token"] = Nothing THEN NoClaims ELSE claims

RequestObjectPayload(c, opts) ==
  LET o == opts[RoSide]
  IN  [state  |-> GetState(c, o),
       nonce  |-> GetNonce(GetState(c, o), o),
       claims |-> DefinitionClaims(o.claims)]

\* The outer payload takes the claims of the request object where it has any.
OuterPayload(opts) ==
  [state  |-> opts[AuthSide].state,
   nonce  |-> opts[AuthSide].nonce,
   claims |-> IF opts[RoSide].claims # NoClaims
                THEN opts[RoSide].claims ELSE opts[AuthSide].claims]

=============================================================================
