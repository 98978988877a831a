----------------------- MODULE RequestCreation_proofs -----------------------
(***************************************************************************)
(* Proofs about RequestCreation, for any set of calls and any arguments.   *)
(***************************************************************************)
EXTENDS RequestCreation, TLAPS

(***************************************************************************)
(* The values a call can bring are values, and no supplied or random value *)
(* is the absent one.                                                      *)
(***************************************************************************)
LEMMA ValueFacts ==
  /\ Nothing \in Value
  /\ Supplied(NoCall) \in Value
  /\ NoClaims \in Claims
  /\ NoPayload \in Payload
  /\ \A c \in Calls : Supplied(c) \in Value /\ Random(c) \in Value
  /\ \A c \in Calls : Supplied(c) # Nothing
  /\ \A s \in Value : Digest(s) \in Nonce
<1>1. Nothing \in Value
  BY DEF Nothing, Value, Source
<1>2. NoClaims \in Claims
  BY <1>1 DEF NoClaims, Claims
<1>3. NoPayload \in Payload
  BY <1>1, <1>2 DEF NoPayload, Payload, Nonce
<1>4. QED
  BY <1>1, <1>2, <1>3
  DEF Nothing, Value, Source, Supplied, Random, Digest, Nonce

(***************************************************************************)
(* Taking in the arguments of a call leaves well-formed options, from      *)
(* which a well-formed request object and outer payload are built.         *)
(***************************************************************************)
LEMMA OptionsAfterType ==
  ASSUME NEW opts \in [Target -> Options], NEW c \in Calls, NEW in
  PROVE  OptionsAfter(opts, c, in) \in [Target -> Options]
<1>1. Supplied(c) \in Value
  BY ValueFacts
<1>2. ASSUME NEW t \in Target
      PROVE  /\ opts[t].state \in Value
             /\ opts[t].nonce \in Value
             /\ \A k \in ClaimKey : opts[t].claims[k] \in Value
  BY DEF Options, Claims
<1>3. QED
  BY <1>1, <1>2 DEF OptionsAfter, Options, Claims

LEMMA PayloadTypes ==
  ASSUME NEW opts \in [Target -> Options], NEW c \in Calls
  PROVE  /\ RequestObjectPayload(c, opts) \in Payload
         /\ OuterPayload(opts) \in Payload
<1>1. RoSide \in Target /\ AuthSide \in Target
  BY DEF Target
<1>2. opts[RoSide] \in Options /\ opts[AuthSide] \in Options
  BY <1>1
<1>3. GetState(c, opts[RoSide]) \in Value
  BY <1>2, ValueFacts DEF GetState, Options
<1>4. GetNonce(GetState(c, opts[RoSide]), opts[RoSide]) \in Nonce
  BY <1>2, <1>3, ValueFacts DEF GetNonce, Options, Nonce
<1>5. DefinitionClaims(opts[RoSide].claims) \in Claims
  BY <1>2, ValueFacts DEF DefinitionClaims, Options
<1>6. RequestObjectPayload(c, opts) \in Payload
  BY <1>3, <1>4, <1>5 DEF RequestObjectPayload, Payload
<1>7. OuterPayload(opts) \in Payload
  BY <1>2 DEF OuterPayload, Payload, Options, Nonce
<1>8. QED
  BY <1>6, <1>7

LEMMA BuiltOptionsType == BuiltOptions \subseteq [Target -> Options]
  BY ValueFacts DEF BuiltOptions, Options, Claims

-----------------------------------------------------------------------------

(***************************************************************************)
(* Type correctness: the options, the calls and the payloads keep the form *)
(* TypeOK states, whatever the calls are given and however they overlap.   *)
(***************************************************************************)
LEMMA TypeInit == Init => TypeOK
  BY ValueFacts, BuiltOptionsType DEF Init, TypeOK, Phase, Running

LEMMA TypeStep == TypeOK /\ [Next]_vars => TypeOK'
<1> SUFFICES ASSUME TypeOK, [Next]_vars PROVE TypeOK'
  OBVIOUS
<1> USE DEF TypeOK, Phase, Running
<1>1. ASSUME NEW c \in Calls, NEW in \in Inputs, Arrive(c, in)
      PROVE  /\ options' \in [Target -> Options]
             /\ input' \in [Calls -> Inputs \cup {NoInput}]
             /\ outer' \in [Calls -> Payload]
             /\ stamp' \in [Calls -> Nat]
             /\ arrivals' \in Nat
             /\ RequestObjectPayload(c, OptionsAfter(options, c, in)) \in Payload
  <2>1. OptionsAfter(options, c, in) \in [Target -> Options]
    BY OptionsAfterType
  <2>2. RequestObjectPayload(c, OptionsAfter(options, c, in)) \in Payload
    BY <2>1, PayloadTypes
  <2>3. QED
    BY <1>1, <2>1, <2>2 DEF Arrive
<1>2. ASSUME NEW c \in Calls, NEW in \in Inputs, Begin(c, in)
      PROVE  TypeOK'
  BY <1>1, <1>2 DEF Begin
<1>3. ASSUME NEW c \in Calls, NEW in \in Inputs, BeginFails(c, in)
      PROVE  TypeOK'
  BY <1>1, <1>3 DEF BeginFails
<1>4. ASSUME NEW c \in Calls, RejectDefinition(c)
      PROVE  TypeOK'
  BY <1>4 DEF RejectDefinition
<1>5. ASSUME NEW c \in Calls, ReadOptions(c)
      PROVE  TypeOK'
  <2>1. OuterPayload(options) \in Payload
    BY PayloadTypes
  <2>2. QED
    BY <1>5, <2>1 DEF ReadOptions
<1>6. ASSUME NEW c \in Calls, BuildPayload(c)
      PROVE  TypeOK'
  BY <1>6 DEF BuildPayload
<1>7. ASSUME NEW c \in Calls, Sign(c)
      PROVE  TypeOK'
  BY <1>7 DEF Sign
<1>8. CASE UNCHANGED vars
  BY <1>8 DEF vars
<1>9. QED
  BY <1>2, <1>3, <1>4, <1>5, <1>6, <1>7, <1>8 DEF Next, Call, Advance

THEOREM TypeCorrect == Spec => []TypeOK
  BY TypeInit, TypeStep, PTL DEF Spec

-----------------------------------------------------------------------------

(***************************************************************************)
(* The request object of a call carries what the call was given for it.    *)
(* The invariant is inductive: the copy is made in the step that writes    *)
(* the options, and no later step of any call reaches it.                  *)
(***************************************************************************)
LEMMA ObjectOfBegin ==
  ASSUME NEW opts, NEW c \in Calls, NEW in
  PROVE  LET o == RequestObjectPayload(c, OptionsAfter(opts, c, in))
         IN  /\ GoesTo(in.state, RoSide) => o.state = Supplied(c)
             /\ GoesTo(in.nonce, RoSide) => o.nonce = Supplied(c)
<1>1. Supplied(c) # Nothing
  BY ValueFacts
<1>2. RoSide \in Target
  BY DEF Target
<1>3. QED
  BY <1>1, <1>2 DEF RequestObjectPayload, OptionsAfter, GetState, GetNonce

LEMMA RequestObjectIsOwnStep ==
  TypeOK /\ RequestObjectIsOwn /\ [Next]_vars => RequestObjectIsOwn'
<1> SUFFICES ASSUME TypeOK, RequestObjectIsOwn, [Next]_vars
             PROVE  RequestObjectIsOwn'
  OBVIOUS
<1> USE DEF TypeOK, RequestObjectIsOwn, Signed, Running
<1>1. ASSUME NEW c \in Calls, NEW in \in Inputs, Begin(c, in)
      PROVE  RequestObjectIsOwn'
  <2>1. /\ pc' = [pc EXCEPT ![c] = "object"]
        /\ input' = [input EXCEPT ![c] = in]
        /\ object' = [object EXCEPT ![c] =
                        RequestObjectPayload(c, OptionsAfter(options, c, in))]
    BY <1>1 DEF Begin, Arrive
  <2>2. /\ GoesTo(in.state, RoSide) => object'[c].state = Supplied(c)
        /\ GoesTo(in.nonce, RoSide) => object'[c].nonce = Supplied(c)
    BY <2>1, ObjectOfBegin
  <2>3. QED
    BY <2>1, <2>2
<1>2. ASSUME NEW c \in Calls, NEW in \in Inputs, BeginFails(c, in)
      PROVE  RequestObjectIsOwn'
  BY <1>2 DEF BeginFails, Arrive
<1>3. ASSUME NEW c \in Calls, RejectDefinition(c)
      PROVE  RequestObjectIsOwn'
  BY <1>3 DEF RejectDefinition
<1>4. ASSUME NEW c \in Calls, ReadOptions(c)
      PROVE  RequestObjectIsOwn'
  BY <1>4 DEF ReadOptions
<1>5. ASSUME NEW c \in Calls, BuildPayload(c)
      PROVE  RequestObjectIsOwn'
  BY <1>5 DEF BuildPayload
<1>6. ASSUME NEW c \in Calls, Sign(c)
      PROVE  RequestObjectIsOwn'
  BY <1>6 DEF Sign
<1>7. CASE UNCHANGED vars
  BY <1>7 DEF vars
<1>8. QED
  BY <1>1, <1>2, <1>3, <1>4, <1>5, <1>6, <1>7 DEF Next, Call, Advance

THEOREM RequestObjectOwned == Spec => []RequestObjectIsOwn
<1>1. Init => RequestObjectIsOwn
  BY DEF Init, RequestObjectIsOwn, Signed, Running
<1>2. QED
  BY <1>1, RequestObjectIsOwnStep, TypeCorrect, PTL DEF Spec

-----------------------------------------------------------------------------

(***************************************************************************)
(* The outer payload of a call never goes back behind the call.  Between   *)
(* the first await and the reading of the options this is a fact about the *)
(* options: what the call wrote there can only be overwritten by calls     *)
(* that arrive later, whose stamp is higher.                               *)
(***************************************************************************)
StampsBounded == \A c \in Calls : stamp[c] <= arrivals

OptionsNotOlder ==
  \A c \in Calls : pc[c] = "object" =>
    /\ GoesTo(input[c].state, AuthSide) => NotOlder(options[AuthSide].state, c)
    /\ GoesTo(input[c].nonce, AuthSide) => NotOlder(options[AuthSide].nonce, c)

OuterInv == StampsBounded /\ OptionsNotOlder /\ OuterPayloadNotOlder

LEMMA OuterInvStep == TypeOK /\ OuterInv /\ [Next]_vars => OuterInv'
<1> SUFFICES ASSUME TypeOK, OuterInv, [Next]_vars PROVE OuterInv'
  OBVIOUS
<1> USE DEF TypeOK, OuterInv, StampsBounded, OptionsNotOlder,
            OuterPayloadNotOlder, NotOlder
<1>1. ASSUME NEW c \in Calls, NEW in \in Inputs, Arrive(c, in),
             pc' = [pc EXCEPT ![c] = "object"] \/ pc' = [pc EXCEPT ![c] = "failed"]
      PROVE  OuterInv'
  <2>1. /\ input' = [input EXCEPT ![c] = in]
        /\ stamp' = [stamp EXCEPT ![c] = arrivals + 1]
        /\ arrivals' = arrivals + 1
        /\ outer' = outer
        /\ options' = OptionsAfter(options, c, in)
    BY <1>1 DEF Arrive
  <2>2. \A d \in Calls : stamp'[d] >= stamp[d] /\ stamp'[d] <= stamp'[c]
    BY <2>1
  <2>3. StampsBounded'
    BY <2>1
  <2>4. \A d \in Calls : \A v : NotOlder(v, d) /\ d # c => NotOlder(v, d)'
    BY <2>1, <2>2
  <2>5. \A d \in Calls : NotOlder(Supplied(c), d)'
    BY <2>2 DEF Supplied
  <2>6. /\ options'[AuthSide].state =
             IF GoesTo(in.state, AuthSide) THEN Supplied(c) ELSE options[AuthSide].state
        /\ options'[AuthSide].nonce =
             IF GoesTo(in.nonce, AuthSide) THEN Supplied(c) ELSE options[AuthSide].nonce
    BY <2>1 DEF OptionsAfter, Target
  <2>7. OptionsNotOlder'
    <3> SUFFICES ASSUME NEW d \in Calls, pc'[d] = "object"
                 PROVE  /\ GoesTo(input'[d].state, AuthSide)
                             => NotOlder(options[AuthSide].state, d)'
                        /\ GoesTo(input'[d].nonce, AuthSide)
                             => NotOlder(options[AuthSide].nonce, d)'
      BY DEF OptionsNotOlder
    <3>1. CASE d = c
      BY <3>1, <2>1, <2>5, <2>6
    <3>2. CASE d # c
      <4>1. pc[d] = "object" /\ input'[d] = input[d]
        BY <3>2, <2>1, <1>1
      <4>2. QED
        BY <3>2, <4>1, <2>4, <2>5, <2>6
    <3>3. QED
      BY <3>1, <3>2
  <2>8. OuterPayloadNotOlder'
    <3> SUFFICES ASSUME NEW d \in Calls, pc'[d] \in {"payload", "signing", "issued"}
                 PROVE  /\ GoesTo(input'[d].state, AuthSide)
                             => NotOlder(outer[d].state, d)'
                        /\ GoesTo(input'[d].nonce, AuthSide)
                             => NotOlder(outer[d].nonce, d)'
      BY DEF OuterPayloadNotOlder
    <3>1. d # c /\ pc'[d] = pc[d] /\ input'[d] = input[d]
      BY <2>1, <1>1
    <3>2. QED
      BY <3>1, <2>1, <2>4
  <2>9. QED
    BY <2>3, <2>7, <2>8
<1>2. ASSUME NEW c \in Calls, NEW in \in Inputs, Begin(c, in)
      PROVE  OuterInv'
  BY <1>1, <1>2 DEF Begin
<1>3. ASSUME NEW c \in Calls, NEW in \in Inputs, BeginFails(c, in)
      PROVE  OuterInv'
  BY <1>1, <1>3 DEF BeginFails
<1>4. ASSUME NEW c \in Calls, RejectDefinition(c)
      PROVE  OuterInv'
  BY <1>4 DEF RejectDefinition
<1>5. ASSUME NEW c \in Calls, ReadOptions(c)
      PROVE  OuterInv'
  <2>1. /\ pc[c] = "object" /\ pc' = [pc EXCEPT ![c] = "payload"]
        /\ outer' = [outer EXCEPT ![c] = OuterPayload(options)]
        /\ UNCHANGED <<options, input, stamp, arrivals>>
    BY <1>5 DEF ReadOptions
  <2>2. /\ OuterPayload(options).state = options[AuthSide].state
        /\ OuterPayload(options).nonce = options[AuthSide].nonce
    BY DEF OuterPayload
  <2>3. QED
    BY <2>1, <2>2
<1>6. ASSUME NEW c \in Calls, BuildPayload(c)
      PROVE  OuterInv'
  BY <1>6 DEF BuildPayload
<1>7. ASSUME NEW c \in Calls, Sign(c)
      PROVE  OuterInv'
  BY <1>7 DEF Sign
<1>8. CASE UNCHANGED vars
  BY <1>8 DEF vars
<1>9. QED
  BY <1>2, <1>3, <1>4, <1>5, <1>6, <1>7, <1>8 DEF Next, Call, Advance

THEOREM OuterPayloadNeverOlder == Spec => []OuterPayloadNotOlder
<1>1. Init => OuterInv
  BY DEF Init, OuterInv, StampsBounded, OptionsNotOlder, OuterPayloadNotOlder
<1>2. OuterInv => OuterPayloadNotOlder
  BY DEF OuterInv
<1>3. QED
  BY <1>1, <1>2, OuterInvStep, TypeCorrect, PTL DEF Spec

-----------------------------------------------------------------------------

(***************************************************************************)
(* A nonce that outlives its call is always the latest one.  The options   *)
(* hold the nonce of the latest call that had one for the request object,  *)
(* and a request object takes it over when its call arrives; the calls     *)
(* that arrive afterwards have higher stamps and do not count.             *)
(***************************************************************************)
StampsOrdered ==
  \A c \in Calls : /\ stamp[c] <= arrivals
                   /\ Made(c) <=> stamp[c] > 0

NoneBetween(d, n) ==
  \A e \in Calls : stamp[d] < stamp[e] /\ stamp[e] <= n
                   => ~GoesTo(input[e].nonce, RoSide)

OptionsNonceIsLatest ==
  \A d \in Calls : options[RoSide].nonce = Supplied(d) =>
    Made(d) /\ NoneBetween(d, arrivals)

InheritedNonceIsMade ==
  \A c, d \in Calls :
    Signed(c) /\ c # d /\ object[c].nonce = Supplied(d) =>
      Made(d) /\ stamp[d] < stamp[c] /\ NoneBetween(d, stamp[c])

NonceInv == StampsOrdered /\ OptionsNonceIsLatest /\ InheritedNonceIsMade

LEMMA NonceOfBegin ==
  ASSUME NEW opts, NEW c \in Calls, NEW in, NEW d \in Calls,
         RequestObjectPayload(c, OptionsAfter(opts, c, in)).nonce = Supplied(d)
  PROVE  OptionsAfter(opts, c, in)[RoSide].nonce = Supplied(d)
  BY DEF RequestObjectPayload, GetNonce, Digest, Supplied

LEMMA NonceInvStep == TypeOK /\ NonceInv /\ [Next]_vars => NonceInv'
<1> SUFFICES ASSUME TypeOK, NonceInv, [Next]_vars PROVE NonceInv'
  OBVIOUS
<1> USE DEF TypeOK, NonceInv, StampsOrdered, OptionsNonceIsLatest,
            InheritedNonceIsMade, NoneBetween, Made, Signed, Running
<1>1. ASSUME NEW c \in Calls, NEW in \in Inputs, Arrive(c, in),
             \/ /\ pc' = [pc EXCEPT ![c] = "object"]
                /\ object' = [object EXCEPT ![c] =
                       RequestObjectPayload(c, OptionsAfter(options, c, in))]
             \/ /\ pc' = [pc EXCEPT ![c] = "failed"]
                /\ object' = object
      PROVE  NonceInv'
  <2>1. /\ pc[c] = "idle"
        /\ input' = [input EXCEPT ![c] = in]
        /\ stamp' = [stamp EXCEPT ![c] = arrivals + 1]
        /\ arrivals' = arrivals + 1
        /\ options' = OptionsAfter(options, c, in)
    BY <1>1 DEF Arrive
  <2>2. \A d \in Calls \ {c} : /\ stamp'[d] = stamp[d]
                              /\ stamp'[d] < stamp'[c]
                              /\ pc'[d] = pc[d]
                              /\ input'[d] = input[d]
                              /\ object'[d] = object[d]
    BY <1>1, <2>1
  <2>3. pc'[c] # "idle" /\ stamp'[c] = arrivals + 1
    BY <1>1, <2>1
  <2>4. StampsOrdered'
    BY <2>1, <2>2, <2>3
  <2>5. options'[RoSide].nonce =
          IF GoesTo(in.nonce, RoSide) THEN Supplied(c) ELSE options[RoSide].nonce
    BY <2>1 DEF OptionsAfter, Target
  <2>6. ASSUME NEW d \in Calls, options'[RoSide].nonce = Supplied(d)
        PROVE  Made(d)' /\ NoneBetween(d, arrivals)'
    <3>1. CASE d = c
      BY <3>1, <2>2, <2>3
    <3>2. CASE d # c
      <4>1. ~GoesTo(in.nonce, RoSide) /\ options[RoSide].nonce = Supplied(d)
        BY <3>2, <2>5, <2>6 DEF Supplied
      <4>2. Made(d) /\ NoneBetween(d, arrivals)
        BY <4>1
      <4>3. QED
        BY <3>2, <4>1, <4>2, <2>1, <2>2, <2>3
    <3>3. QED
      BY <3>1, <3>2
  <2>7. OptionsNonceIsLatest'
    BY <2>6
  <2>8. ASSUME NEW b \in Calls, NEW d \in Calls,
               Signed(b)', b # d, object'[b].nonce = Supplied(d)
        PROVE  Made(d)' /\ stamp'[d] < stamp'[b] /\ NoneBetween(d, stamp[b])'
    <3>1. CASE b = c
      <4>1. object'[c] = RequestObjectPayload(c, OptionsAfter(options, c, in))
        BY <1>1, <2>8, <3>1
      <4>2. options'[RoSide].nonce = Supplied(d)
        BY <4>1, <2>1, <2>8, <3>1, NonceOfBegin
      <4>3. QED
        BY <4>2, <2>1, <2>2, <2>3, <2>6, <2>8, <3>1
    <3>2. CASE b # c
      <4>1. Signed(b) /\ object[b].nonce = Supplied(d)
        BY <2>2, <2>8, <3>2
      <4>2. Made(d) /\ stamp[d] < stamp[b] /\ NoneBetween(d, stamp[b])
        BY <4>1, <2>8
      <4>3. d # c
        BY <4>2, <2>1
      <4>4. QED
        BY <3>2, <4>2, <4>3, <2>1, <2>2, <2>3
    <3>3. QED
      BY <3>1, <3>2
  <2>9. InheritedNonceIsMade'
    BY <2>8
  <2>10. QED
    BY <2>4, <2>7, <2>9
<1>2. ASSUME NEW c \in Calls, NEW in \in Inputs, Begin(c, in)
      PROVE  NonceInv'
  BY <1>1, <1>2 DEF Begin
<1>3. ASSUME NEW c \in Calls, NEW in \in Inputs, BeginFails(c, in)
      PROVE  NonceInv'
  BY <1>1, <1>3 DEF BeginFails
<1>4. ASSUME NEW c \in Calls, RejectDefinition(c)
      PROVE  NonceInv'
  BY <1>4 DEF RejectDefinition
<1>5. ASSUME NEW c \in Calls, ReadOptions(c)
      PROVE  NonceInv'
  BY <1>5 DEF ReadOptions
<1>6. ASSUME NEW c \in Calls, BuildPayload(c)
      PROVE  NonceInv'
  BY <1>6 DEF BuildPayload
<1>7. ASSUME NEW c \in Calls, Sign(c)
      PROVE  NonceInv'
  BY <1>7 DEF Sign
<1>8. CASE UNCHANGED vars
  BY <1>8 DEF vars
<1>9. QED
  BY <1>2, <1>3, <1>4, <1>5, <1>6, <1>7, <1>8 DEF Next, Call, Advance

THEOREM InheritedNonceLatest == Spec => []InheritedNonceIsLatest
<1>1. Init => NonceInv
  <2>1. ASSUME NEW d \in Calls, options \in BuiltOptions
        PROVE  options[RoSide].nonce # Supplied(d)
    BY <2>1, NoCallAssumption DEF BuiltOptions, Nothing, Supplied, Target
  <2>2. QED
    BY <2>1 DEF Init, NonceInv, StampsOrdered, OptionsNonceIsLatest,
                InheritedNonceIsMade, Made, Signed, Running
<1>2. NonceInv => InheritedNonceIsLatest
  BY DEF NonceInv, InheritedNonceIsMade, InheritedNonceIsLatest, NoneBetween
<1>3. QED
  BY <1>1, <1>2, NonceInvStep, TypeCorrect, PTL DEF Spec

-----------------------------------------------------------------------------

(***************************************************************************)
(* A call that fails on arrival has altered the state in the options and   *)
(* nothing else: the claims are reached only with a nonce, and without one *)
(* the call has failed.                                                    *)
(***************************************************************************)
THEOREM FailedCallAltersStateOnly == Spec => FailedCallWritesStateOnly
<1>1. ASSUME TypeOK, [Next]_vars
      PROVE  [\A c \in Calls : pc[c] = "idle" /\ pc'[c] = "failed" =>
                \A t \in Target : /\ options'[t].nonce = options[t].nonce
                                  /\ options'[t].claims = options[t].claims]_vars
  <2> USE <1>1 DEF TypeOK
  <2> SUFFICES ASSUME NEW c \in Calls, pc[c] = "idle", pc'[c] = "failed",
                      NEW t \in Target
               PROVE  /\ options'[t].nonce = options[t].nonce
                      /\ options'[t].claims = options[t].claims
    OBVIOUS
  <2>1. ASSUME NEW d \in Calls, NEW in \in Inputs, Begin(d, in)
        PROVE  FALSE
    BY <2>1 DEF Begin, Arrive
  <2>2. ASSUME NEW d \in Calls, NEW in \in Inputs, BeginFails(d, in)
        PROVE  /\ options'[t].nonce = options[t].nonce
               /\ options'[t].claims = options[t].claims
    <3>1. MissesNonce(in) /\ options' = OptionsAfter(options, d, in)
      BY <2>2 DEF BeginFails, Arrive
    <3>2. ~GoesTo(in.nonce, t) /\ ~ClaimsGoTo(in, t)
      BY <3>1 DEF MissesNonce, GoesTo, ClaimsGoTo
    <3>3. options'[t].nonce = options[t].nonce
      BY <3>1, <3>2 DEF OptionsAfter
    <3>4. options'[t].claims = [k \in ClaimKey |-> options[t].claims[k]]
      BY <3>1, <3>2 DEF OptionsAfter
    <3>5. options[t].claims \in [ClaimKey -> Value]
      BY DEF Options, Claims
    <3>6. QED
      BY <3>3, <3>4, <3>5
  <2>3. ASSUME NEW d \in Calls, Advance(d)
        PROVE  FALSE
    BY <2>3 DEF Advance, RejectDefinition, ReadOptions, BuildPayload, Sign
  <2>4. CASE UNCHANGED vars
    BY <2>4 DEF vars
  <2>5. QED
    BY <2>1, <2>2, <2>3, <2>4 DEF Next, Call
<1>2. QED
  BY <1>1, TypeCorrect, PTL DEF Spec, FailedCallWritesStateOnly

-----------------------------------------------------------------------------

(***************************************************************************)
(* A call is not rejected for the definition of another.  A definition     *)
(* that is given for the request object is the one in it from the copy on, *)
(* so what is examined after the await is the definition of the call.      *)
(***************************************************************************)
DefinitionIsOwn ==
  \A c \in Calls : pc[c] = "object" /\ OwnDefinition(c) =>
    object[c].claims["vp_token"] = Supplied(c)

LEMMA DefinitionOfBegin ==
  ASSUME NEW opts, NEW c \in Calls, NEW in,
         ClaimsGoTo(in, RoSide), "vp_token" \in in.keys
  PROVE  RequestObjectPayload(c, OptionsAfter(opts, c, in)).claims["vp_token"]
           = Supplied(c)
<1>1. Supplied(c) # Nothing
  BY ValueFacts
<1>2. RoSide \in Target /\ "vp_token" \in ClaimKey
  BY DEF Target, ClaimKey
<1>3. OptionsAfter(opts, c, in)[RoSide].claims["vp_token"] = Supplied(c)
  BY <1>2 DEF OptionsAfter
<1>4. QED
  BY <1>1, <1>3 DEF RequestObjectPayload, DefinitionClaims

LEMMA DefinitionIsOwnStep ==
  TypeOK /\ DefinitionIsOwn /\ [Next]_vars => DefinitionIsOwn'
<1> SUFFICES ASSUME TypeOK, DefinitionIsOwn, [Next]_vars,
                    NEW c \in Calls, pc'[c] = "object", OwnDefinition(c)'
             PROVE  object'[c].claims["vp_token"] = Supplied(c)
  BY DEF DefinitionIsOwn
<1> USE DEF TypeOK
<1>1. ASSUME NEW d \in Calls, NEW in \in Inputs, Begin(d, in)
      PROVE  object'[c].claims["vp_token"] = Supplied(c)
  <2>1. /\ pc' = [pc EXCEPT ![d] = "object"]
        /\ input' = [input EXCEPT ![d] = in]
        /\ object' = [object EXCEPT ![d] =
                        RequestObjectPayload(d, OptionsAfter(options, d, in))]
    BY <1>1 DEF Begin, Arrive
  <2>2. CASE d = c
    <3>1. input'[c] = in
      BY <2>1, <2>2
    <3>2. ClaimsGoTo(in, RoSide) /\ "vp_token" \in in.keys
      BY <3>1 DEF OwnDefinition
    <3>3. QED
      BY <2>1, <2>2, <3>2, DefinitionOfBegin
  <2>3. CASE d # c
    <3>1. pc[c] = "object" /\ input'[c] = input[c] /\ object'[c] = object[c]
      BY <2>1, <2>3
    <3>2. OwnDefinition(c)
      BY <3>1 DEF OwnDefinition
    <3>3. QED
      BY <3>1, <3>2 DEF DefinitionIsOwn
  <2>4. QED
    BY <2>2, <2>3
<1>2. ASSUME pc[c] = "object", input'[c] = input[c], object'[c] = object[c]
      PROVE  object'[c].claims["vp_token"] = Supplied(c)
  BY <1>2 DEF OwnDefinition, DefinitionIsOwn
<1>3. ASSUME NEW d \in Calls, NEW in \in Inputs, BeginFails(d, in)
      PROVE  object'[c].claims["vp_token"] = Supplied(c)
  BY <1>2, <1>3 DEF BeginFails, Arrive
<1>4. ASSUME NEW d \in Calls, Advance(d)
      PROVE  object'[c].claims["vp_token"] = Supplied(c)
  BY <1>2, <1>4 DEF Advance, RejectDefinition, ReadOptions, BuildPayload, Sign
<1>5. CASE UNCHANGED vars
  BY <1>2, <1>5 DEF vars
<1>6. QED
  BY <1>1, <1>3, <1>4, <1>5 DEF Next, Call

THEOREM OwnDefinitionNeverRejected == Spec => OwnDefinitionNotRejected
<1>1. Init => DefinitionIsOwn
  BY DEF Init, DefinitionIsOwn
<1>2. ASSUME TypeOK, DefinitionIsOwn, [Next]_vars
      PROVE  [\A c \in Calls : pc[c] = "object" /\ pc'[c] = "failed"
                                 => ~OwnDefinition(c)]_vars
  <2> USE <1>2 DEF TypeOK
  <2> SUFFICES ASSUME NEW c \in Calls, pc[c] = "object", pc'[c] = "failed"
               PROVE  ~OwnDefinition(c)
    OBVIOUS
  \* No other step fails a call that has only its request object.
  <2>1. RejectDefinition(c)
    <3>1. \A d \in Calls, in \in Inputs : ~Begin(d, in) /\ ~BeginFails(d, in)
      BY DEF Begin, BeginFails, Arrive
    <3>2. \A d \in Calls : ~ReadOptions(d) /\ ~BuildPayload(d) /\ ~Sign(d)
      BY DEF ReadOptions, BuildPayload, Sign
    <3>3. vars' # vars
      BY DEF vars
    <3>4. PICK d \in Calls : RejectDefinition(d)
      BY <3>1, <3>2, <3>3 DEF Next, Call, Advance
    <3>5. QED
      BY <3>4 DEF RejectDefinition
  <2>2. ~DefinitionValid(c)
    BY <2>1 DEF RejectDefinition
  <2>3. OwnDefinition(c) => object[c].claims["vp_token"] = Supplied(c)
    BY DEF DefinitionIsOwn
  <2>4. QED
    BY <2>2, <2>3 DEF DefinitionValid, OwnDefinition, Supplied
<1>3. QED
  BY <1>1, <1>2, DefinitionIsOwnStep, TypeCorrect, PTL
  DEF Spec, OwnDefinitionNotRejected

-----------------------------------------------------------------------------

(***************************************************************************)
(* A request is decided in one step, unless what a call has yet to read is *)
(* changed under it: where that does not happen, the payload that          *)
(* ContentOf foretells for it stays what it is until it is read.           *)
(***************************************************************************)
contentBar == [c \in Calls |-> ContentOf(c)]
statusBar  == [c \in Calls |-> StatusOf(c)]

(***************************************************************************)
(* What RequestIssuance says of inputs and payloads is what is said here.  *)
(***************************************************************************)
LEMMA SameOperators ==
  /\ Issuance!Undecided = [object |-> NoPayload, outer |-> NoPayload]
  /\ Issuance!BuiltOptions = BuiltOptions
  /\ \A in : Issuance!MissesNonce(in) <=> MissesNonce(in)
  /\ \A opts, c, in : Issuance!OptionsAfter(opts, c, in) = OptionsAfter(opts, c, in)
  /\ \A c, opts : Issuance!RequestObjectPayload(c, opts) = RequestObjectPayload(c, opts)
  /\ \A opts : Issuance!OuterPayload(opts) = OuterPayload(opts)
<1> USE DEF Issuance!Target, Target, Issuance!RoSide, RoSide,
            Issuance!AuthSide, AuthSide, Issuance!ClaimKey, ClaimKey,
            Issuance!Nothing, Nothing, Issuance!Supplied, Supplied,
            Issuance!NoClaims, NoClaims
<1>1. Issuance!Undecided = [object |-> NoPayload, outer |-> NoPayload]
  BY DEF Issuance!Undecided, Issuance!NoPayload, NoPayload
<1>2. Issuance!BuiltOptions = BuiltOptions
  BY DEF Issuance!BuiltOptions, BuiltOptions
<1>3. \A in : Issuance!MissesNonce(in) <=> MissesNonce(in)
  BY DEF Issuance!MissesNonce, MissesNonce
<1>4. \A p, t : /\ Issuance!GoesTo(p, t) <=> GoesTo(p, t)
                /\ Issuance!ClaimsGoTo(p, t) <=> ClaimsGoTo(p, t)
  BY DEF Issuance!GoesTo, GoesTo, Issuance!ClaimsGoTo, ClaimsGoTo,
         Issuance!IsTargetOrNoTargets, IsTargetOrNoTargets
<1>5. \A opts, c, in : Issuance!OptionsAfter(opts, c, in) = OptionsAfter(opts, c, in)
  BY <1>4 DEF Issuance!OptionsAfter, OptionsAfter
<1>6. \A c, opts : Issuance!RequestObjectPayload(c, opts) = RequestObjectPayload(c, opts)
  BY DEF Issuance!RequestObjectPayload, RequestObjectPayload,
         Issuance!GetState, GetState, Issuance!GetNonce, GetNonce,
         Issuance!Random, Random, Issuance!Digest, Digest,
         Issuance!DefinitionClaims, DefinitionClaims
<1>7. \A opts : Issuance!OuterPayload(opts) = OuterPayload(opts)
  BY DEF Issuance!OuterPayload, OuterPayload
<1>8. QED
  BY <1>1, <1>2, <1>3, <1>5, <1>6, <1>7

(***************************************************************************)
(* What an application sees of a call, by how far the call is.             *)
(***************************************************************************)
Seen(c) ==
  /\ pc[c] = "idle"   => /\ ContentOf(c) = Issuance!Undecided
                         /\ StatusOf(c) = "unused"
  /\ pc[c] = "failed" => /\ ContentOf(c) = Issuance!Undecided
                         /\ StatusOf(c) = "failed"
  /\ pc[c] = "object" =>
       /\ ContentOf(c) = [object |-> object[c], outer |-> OuterPayload(options)]
       /\ StatusOf(c) = "decided"
  /\ pc[c] \in {"payload", "signing"} =>
       /\ ContentOf(c) = [object |-> object[c], outer |-> outer[c]]
       /\ StatusOf(c) = "decided"
  /\ pc[c] = "issued" =>
       /\ ContentOf(c) = [object |-> object[c], outer |-> outer[c]]
       /\ StatusOf(c) = "issued"

LEMMA SeenOfCall == \A c \in Calls : Seen(c)
<1> SUFFICES ASSUME NEW c \in Calls PROVE Seen(c)
  OBVIOUS
<1> USE SameOperators DEF Seen, ContentOf, StatusOf, Signed, Running
<1>1. CASE pc[c] = "idle"
  BY <1>1
<1>2. CASE pc[c] = "failed"
  BY <1>2
<1>3. CASE pc[c] = "object"
  BY <1>3
<1>4. CASE pc[c] = "payload"
  BY <1>4
<1>5. CASE pc[c] = "signing"
  BY <1>5
<1>6. CASE pc[c] = "issued"
  BY <1>6
<1>7. QED
  BY <1>1, <1>2, <1>3, <1>4, <1>5, <1>6

LEMMA SeenOfCallNext == \A c \in Calls : Seen(c)'
<1>1. (\A c \in Calls : Seen(c))'
  BY SeenOfCall, PTL
<1>2. QED
  BY <1>1

LEMMA SeenUnmoved ==
  ASSUME NEW c \in Calls,
         pc'[c] = pc[c], object'[c] = object[c], outer'[c] = outer[c],
         pc[c] # "object" \/ OuterPayload(options') = OuterPayload(options)
  PROVE  ContentOf(c)' = ContentOf(c) /\ StatusOf(c)' = StatusOf(c)
  BY DEF ContentOf, StatusOf, Signed, Running

(***************************************************************************)
(* A step of one call leaves what is seen of the others, and what is seen  *)
(* of it alone is enough to know what is seen of all.                      *)
(***************************************************************************)
LEMMA OthersUnmoved ==
  ASSUME NEW c \in Calls,
         \A d \in Calls \ {c} : ContentOf(d)' = ContentOf(d) /\ StatusOf(d)' = StatusOf(d)
  PROVE  /\ contentBar' = [contentBar EXCEPT ![c] = ContentOf(c)']
         /\ statusBar' = [statusBar EXCEPT ![c] = StatusOf(c)']
  BY DEF contentBar, statusBar

LEMMA IssuanceInit ==
  Init => /\ options \in Issuance!BuiltOptions
          /\ contentBar = [c \in Calls |-> Issuance!Undecided]
          /\ statusBar = [c \in Calls |-> "unused"]
  BY SeenOfCall, SameOperators DEF Init, Seen, contentBar, statusBar

LEMMA IssuanceStep ==
  TypeOK /\ [Next]_vars /\ Undisturbed
    => Issuance!Next \/ UNCHANGED <<options, contentBar, statusBar>>
<1> SUFFICES ASSUME TypeOK, [Next]_vars, Undisturbed
             PROVE  Issuance!Next \/ UNCHANGED <<options, contentBar, statusBar>>
  OBVIOUS
<1> USE DEF TypeOK
<1>1. ASSUME NEW c \in Calls, NEW in \in Inputs,
             Arrive(c, in), \A d \in Calls \ {c} : pc'[d] = pc[d] /\ object'[d] = object[d]
      PROVE  /\ contentBar' = [contentBar EXCEPT ![c] = ContentOf(c)']
             /\ statusBar' = [statusBar EXCEPT ![c] = StatusOf(c)']
             /\ contentBar[c] = Issuance!Undecided
             /\ statusBar[c] = "unused"
             /\ options' = OptionsAfter(options, c, in)
  <2>1. ASSUME NEW d \in Calls \ {c}
        PROVE  ContentOf(d)' = ContentOf(d) /\ StatusOf(d)' = StatusOf(d)
    <3>1. pc[d] # "object" \/ OuterPayload(options') = OuterPayload(options)
      BY DEF Undisturbed, Reading
    <3>2. pc'[d] = pc[d] /\ object'[d] = object[d] /\ outer'[d] = outer[d]
      BY <1>1 DEF Arrive
    <3>3. QED
      BY <3>1, <3>2, SeenUnmoved
  <2>2. pc[c] = "idle" /\ options' = OptionsAfter(options, c, in)
    BY <1>1 DEF Arrive
  <2>3. QED
    BY <2>1, <2>2, OthersUnmoved, SeenOfCall DEF Seen, contentBar, statusBar
<1>2. ASSUME NEW c \in Calls, NEW in \in Inputs, Begin(c, in)
      PROVE  Issuance!Next
  <2>1. /\ pc'[c] = "object"
        /\ object'[c] = RequestObjectPayload(c, OptionsAfter(options, c, in))
        /\ \A d \in Calls \ {c} : pc'[d] = pc[d] /\ object'[d] = object[d]
    BY <1>2 DEF Begin, Arrive
  <2>2. /\ contentBar' = [contentBar EXCEPT ![c] = ContentOf(c)']
        /\ statusBar' = [statusBar EXCEPT ![c] = StatusOf(c)']
        /\ statusBar[c] = "unused"
        /\ options' = OptionsAfter(options, c, in)
    BY <1>1, <1>2, <2>1 DEF Begin
  <2>3. /\ ContentOf(c)' = [object |-> RequestObjectPayload(c, OptionsAfter(options, c, in)),
                            outer  |-> OuterPayload(OptionsAfter(options, c, in))]
        /\ StatusOf(c)' = "decided"
    BY <2>1, <2>2, SeenOfCallNext DEF Seen
  <2>4. Issuance!Decide(c, in)
    BY <1>2, <2>2, <2>3, SameOperators
    DEF Begin, Issuance!Decide, contentBar, statusBar
  <2>5. QED
    BY <2>4 DEF Issuance!Next
<1>3. ASSUME NEW c \in Calls, NEW in \in Inputs, BeginFails(c, in)
      PROVE  Issuance!Next
  <2>1. /\ pc'[c] = "failed"
        /\ \A d \in Calls \ {c} : pc'[d] = pc[d] /\ object'[d] = object[d]
    BY <1>3 DEF BeginFails, Arrive
  <2>2. /\ contentBar' = [contentBar EXCEPT ![c] = ContentOf(c)']
        /\ statusBar' = [statusBar EXCEPT ![c] = StatusOf(c)']
        /\ contentBar[c] = Issuance!Undecided
        /\ statusBar[c] = "unused"
        /\ options' = OptionsAfter(options, c, in)
    BY <1>1, <1>3, <2>1 DEF BeginFails
  <2>3. ContentOf(c)' = Issuance!Undecided' /\ StatusOf(c)' = "failed"
    BY <2>1, SeenOfCallNext DEF Seen
  <2>4. Issuance!Undecided' = Issuance!Undecided
    BY DEF Issuance!Undecided, Issuance!NoPayload, Issuance!Nothing,
           Issuance!NoClaims, Issuance!ClaimKey
  <2>5. contentBar' = contentBar
    BY <2>2, <2>3, <2>4 DEF contentBar
  <2>6. Issuance!Refuse(c, in)
    BY <1>3, <2>2, <2>3, <2>5, SameOperators
    DEF BeginFails, Issuance!Refuse, contentBar, statusBar
  <2>7. QED
    BY <2>6 DEF Issuance!Next
<1>4. ASSUME NEW c \in Calls, Advance(c)
      PROVE  /\ contentBar' = [contentBar EXCEPT ![c] = ContentOf(c)']
             /\ statusBar' = [statusBar EXCEPT ![c] = StatusOf(c)']
             /\ options' = options
  <2>1. /\ options' = options /\ object' = object
        /\ \A d \in Calls \ {c} : pc'[d] = pc[d] /\ outer'[d] = outer[d]
    BY <1>4 DEF Advance, RejectDefinition, ReadOptions, BuildPayload, Sign
  <2>2. QED
    BY <2>1, SeenUnmoved, OthersUnmoved
<1>5. ASSUME NEW c \in Calls, Advance(c), pc[c] \in Running, pc'[c] = "failed"
      PROVE  Issuance!Next
  <2>1. statusBar[c] = "decided"
    BY <1>5, SeenOfCall DEF Seen, statusBar, Running
  <2>2. ContentOf(c)' = Issuance!Undecided /\ StatusOf(c)' = "failed"
    BY <1>5, SeenOfCallNext DEF Seen, Issuance!Undecided, Issuance!NoPayload,
       Issuance!Nothing, Issuance!NoClaims, Issuance!ClaimKey
  <2>3. Issuance!Fail(c)
    BY <1>4, <1>5, <2>1, <2>2 DEF Issuance!Fail, contentBar, statusBar
  <2>4. QED
    BY <2>3 DEF Issuance!Next
<1>6. ASSUME NEW c \in Calls, Advance(c), pc[c] \in {"payload", "signing"},
             pc'[c] = "issued", outer' = outer
      PROVE  Issuance!Next
  <2>1. object' = object
    BY <1>6 DEF Advance, RejectDefinition, ReadOptions, BuildPayload, Sign
  <2>2. statusBar[c] = "decided" /\ contentBar[c] = [object |-> object[c], outer |-> outer[c]]
    BY <1>6, SeenOfCall DEF Seen, statusBar, contentBar
  <2>3. ContentOf(c)' = contentBar[c] /\ StatusOf(c)' = "issued"
    BY <1>6, <2>1, <2>2, SeenOfCallNext DEF Seen
  <2>4. Issuance!Issue(c)
    BY <1>4, <1>6, <2>2, <2>3 DEF Issuance!Issue, contentBar, statusBar
  <2>5. QED
    BY <2>4 DEF Issuance!Next
<1>7. ASSUME NEW c \in Calls, RejectDefinition(c)
      PROVE  Issuance!Next
  BY <1>5, <1>7 DEF RejectDefinition, Advance, Running
<1>8. ASSUME NEW c \in Calls, ReadOptions(c)
      PROVE  UNCHANGED <<options, contentBar, statusBar>>
  <2>1. /\ pc[c] = "object" /\ pc'[c] = "payload" /\ object' = object
        /\ outer'[c] = OuterPayload(options)
    BY <1>8 DEF ReadOptions
  <2>2. ContentOf(c)' = contentBar[c] /\ StatusOf(c)' = statusBar[c]
    BY <2>1, SeenOfCall, SeenOfCallNext DEF Seen, contentBar, statusBar
  <2>3. QED
    BY <1>4, <1>8, <2>2 DEF Advance, contentBar, statusBar
<1>9. ASSUME NEW c \in Calls, BuildPayload(c)
      PROVE  Issuance!Next \/ UNCHANGED <<options, contentBar, statusBar>>
  <2>1. /\ pc[c] = "payload" /\ object' = object /\ outer' = outer
        /\ pc'[c] = "signing" \/ pc'[c] = "issued"
    BY <1>9 DEF BuildPayload
  <2>2. CASE pc'[c] = "issued"
    BY <1>6, <1>9, <2>1, <2>2 DEF Advance
  <2>3. CASE pc'[c] = "signing"
    <3>1. ContentOf(c)' = contentBar[c] /\ StatusOf(c)' = statusBar[c]
      BY <2>1, <2>3, SeenOfCall, SeenOfCallNext DEF Seen, contentBar, statusBar
    <3>2. QED
      BY <1>4, <1>9, <3>1 DEF Advance, contentBar, statusBar
  <2>4. QED
    BY <2>1, <2>2, <2>3
<1>10. ASSUME NEW c \in Calls, Sign(c)
       PROVE  Issuance!Next
  <2>1. pc[c] = "signing" /\ outer' = outer /\ (pc'[c] = "issued" \/ pc'[c] = "failed")
    BY <1>10 DEF Sign
  <2>2. QED
    BY <1>5, <1>6, <1>10, <2>1 DEF Advance, Running
<1>11. CASE UNCHANGED vars
  BY <1>11 DEF vars, contentBar, statusBar, ContentOf, StatusOf, Signed
<1>12. QED
  BY <1>2, <1>3, <1>7, <1>8, <1>9, <1>10, <1>11 DEF Next, Call, Advance

LEMMA ImplementsInit == Init => Issuance!Init
  BY IssuanceInit DEF Issuance!Init, contentBar, statusBar

LEMMA ImplementsStep ==
  TypeOK /\ [Next]_vars /\ Undisturbed
    => Issuance!Next \/ UNCHANGED Issuance!issuanceVars
  BY IssuanceStep DEF Issuance!issuanceVars, contentBar, statusBar

THEOREM OnlyDisturbedCallsDiffer == Spec => UndisturbedCallsAreAtomic
<1>1. TypeOK /\ [Next]_vars
        => [Undisturbed => Issuance!Next \/ UNCHANGED Issuance!issuanceVars]_vars
  BY ImplementsStep
<1>2. QED
  BY <1>1, ImplementsInit, TypeCorrect, PTL DEF Spec, UndisturbedCallsAreAtomic

-----------------------------------------------------------------------------

(***************************************************************************)
(* An application that makes one call at a time sees each request decided  *)
(* in one step.  The invariant of such an application is that no two calls *)
(* are in flight, so that no call can disturb another.                     *)
(***************************************************************************)
OneInFlight == \A c, d \in InFlight : c = d

LEMMA SerialStepIsStep == [SerialNext]_vars => [Next]_vars
  BY DEF SerialNext, Next

LEMMA SerialType == SerialSpec => []TypeOK
  BY TypeInit, TypeStep, SerialStepIsStep, PTL DEF SerialSpec

LEMMA OneInFlightStep ==
  TypeOK /\ OneInFlight /\ [SerialNext]_vars => OneInFlight'
<1> SUFFICES ASSUME TypeOK, OneInFlight, [SerialNext]_vars PROVE OneInFlight'
  OBVIOUS
<1> USE DEF TypeOK, OneInFlight, InFlight, Running
<1>1. ASSUME NEW c \in Calls, InFlight = {}, Call(c)
      PROVE  OneInFlight'
  <2>1. \A d \in Calls : d # c => pc'[d] = pc[d]
    BY <1>1 DEF Call, Begin, BeginFails, Arrive
  <2>2. QED
    BY <1>1, <2>1
<1>2. ASSUME NEW c \in Calls, Advance(c)
      PROVE  OneInFlight'
  <2>1. pc[c] \in Running /\ \A d \in Calls : d # c => pc'[d] = pc[d]
    BY <1>2 DEF Advance, RejectDefinition, ReadOptions, BuildPayload, Sign
  <2>2. QED
    BY <2>1
<1>3. CASE UNCHANGED vars
  BY <1>3 DEF vars
<1>4. QED
  BY <1>1, <1>2, <1>3 DEF SerialNext

LEMMA SerialStepIsUndisturbed ==
  TypeOK /\ OneInFlight /\ SerialNext => Undisturbed
<1> SUFFICES ASSUME TypeOK, OneInFlight, SerialNext PROVE Undisturbed
  OBVIOUS
<1>1. ASSUME InFlight = {} PROVE Undisturbed
  BY <1>1 DEF InFlight, Reading, Undisturbed, Running
<1>2. ASSUME NEW c \in Calls, Advance(c) PROVE Undisturbed
  BY <1>2 DEF Advance, RejectDefinition, ReadOptions, BuildPayload, Sign,
     Undisturbed
<1>3. QED
  BY <1>1, <1>2 DEF SerialNext

THEOREM SerialCallsDecidedAtOnce == SerialSpec => SerialCallsAreAtomic
<1>1. TypeOK /\ OneInFlight /\ [SerialNext]_vars
        => [Issuance!Next]_(Issuance!issuanceVars)
  <2>1. CASE UNCHANGED vars
    BY <2>1 DEF vars, Issuance!issuanceVars, ContentOf, StatusOf, Signed
  <2>2. CASE ~UNCHANGED vars
    BY <2>2, SerialStepIsStep, SerialStepIsUndisturbed, ImplementsStep
  <2>3. QED
    BY <2>1, <2>2
<1>2. Init => OneInFlight
  BY DEF Init, OneInFlight, InFlight, Running
<1>3. QED
  BY <1>1, <1>2, ImplementsInit, OneInFlightStep, SerialType, PTL
  DEF SerialSpec, SerialCallsAreAtomic, Issuance!Spec

=============================================================================
