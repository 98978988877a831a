--------------------------- MODULE RequestObjects ---------------------------
(***************************************************************************)
(* An authorization request that an RP has been asked for, with its        *)
(* request object, and the calls an application makes on both.             *)
(*                                                                         *)
(* The request object is signed when its JWT is first needed and the JWT   *)
(* and the URI are cached, each after an await: calls that overlap sign    *)
(* separately, and the last one fills the cache.                           *)
(***************************************************************************)
EXTENDS Naturals, Sequences, FiniteSets

CONSTANTS
  Calls,       \* the calls of requestObjectJwt, getPayload and uri
  Signatures   \* the types of signature an RP is configured with

ASSUME SignaturesAssumption ==
  Signatures \subseteq {"internal", "external", "supplied"}

Key == {"registration", "registration_uri"}

(***************************************************************************)
(* The options: is there an unsigned payload, is there a payload to sign,  *)
(* and how is it passed?  By reference there must be one.  The metadata    *)
(* are in the payload with the URI where they also are, if that is given.  *)
(***************************************************************************)
Options == {o \in [outer: BOOLEAN, object: BOOLEAN, keys: SUBSET Key,
                   passBy: {"value", "reference"}, signature: Signatures] :
              /\ o.outer \/ o.object
              /\ o.passBy = "reference" => o.object}

VARIABLES
  opts,    \* the options the request is made from
  created, \* has the application got the request?
  keys,    \* the metadata in the payload of the request object
  signed,  \* history: the metadata in the payload of each JWT
  jwt,     \* the JWT in the cache, as its place in `signed`, 0 for none
  uri,     \* the request in the cached URI, "none" for no URI
  pc,      \* how far each call is
  signs,   \* the payload a call has given to the signer
  result   \* what each call has returned

vars == <<opts, created, keys, signed, jwt, uri, pc, signs, result>>

\* What uri() and toJwt() give: a JWT, or 0 if there is none.
Value(n)  == [kind |-> "value", jwt |-> n]
Reference == [kind |-> "reference", jwt |-> 0]
NoUri     == [kind |-> "none", jwt |-> 0]

Init ==
  /\ opts \in Options
  /\ created = "no"
  /\ keys = opts.keys
  /\ signed = <<>> /\ jwt = 0 /\ uri = NoUri
  /\ pc = [c \in Calls |-> "idle"]
  /\ signs = [c \in Calls |-> {}]
  /\ result = [c \in Calls |-> NoUri]

-----------------------------------------------------------------------------
(***************************************************************************)
(* RequestObject.toJwt.                                                    *)
(***************************************************************************)

\* Faulty variant: the metadata stay in the payload.
SignableKept == keys

\* The payload that is signed: the URI of the metadata replaces them.
Signable == IF "registration_uri" \in keys THEN keys \ {"registration"} ELSE keys

ToSign == opts.object /\ jwt = 0

\* Options are copied by way of JSON, which drops the function of a supplied
\* signature, and an external signer is not asked without an `iss`.
CanSign == opts.signature = "internal"

\* Faulty variant: the place is taken after the JWT has been added.
SignedLate(payload) == signed' = Append(signed, payload) /\ jwt' = Len(signed) + 2

Signed(payload) == signed' = Append(signed, payload) /\ jwt' = Len(signed) + 1

-----------------------------------------------------------------------------
(***************************************************************************)
(* AuthorizationRequest.fromOpts: the unsigned payload contains the JWT if *)
(* this is passed by value.                                                *)
(***************************************************************************)
SignsAtCreation == opts.outer /\ opts.passBy = "value" /\ opts.object

\* Faulty variant: the JWT is left to its first use.
CreateUnsigned ==
  /\ created = "no"
  /\ created' = "yes"
  /\ UNCHANGED <<opts, keys, signed, jwt, uri, pc, signs, result>>

Create ==
  /\ created = "no"
  /\ SignsAtCreation => CanSign
  /\ created' = "yes"
  /\ IF SignsAtCreation THEN Signed(Signable) /\ keys' = Signable
                        ELSE UNCHANGED <<signed, jwt, keys>>
  /\ UNCHANGED <<opts, uri, pc, signs, result>>

CreateFails ==
  /\ created = "no"
  /\ SignsAtCreation /\ ~CanSign
  /\ created' = "failed"
  /\ keys' = Signable
  /\ UNCHANGED <<opts, signed, jwt, uri, pc, signs, result>>

-----------------------------------------------------------------------------
(***************************************************************************)
(* The calls, each from one await to the next.                             *)
(***************************************************************************)
Return(c, value) == /\ pc' = [pc EXCEPT ![c] = "done"]
                    /\ result' = [result EXCEPT ![c] = value]

Fails(c) == pc' = [pc EXCEPT ![c] = "failed"] /\ UNCHANGED result

Idle(c) == created = "yes" /\ pc[c] = "idle"

JwtCached(c) ==
  /\ Idle(c) /\ ~ToSign
  /\ Return(c, Value(jwt))
  /\ UNCHANGED <<opts, created, keys, signed, jwt, uri, signs>>

\* Faulty variant: the metadata go only after the signature.
StartSigningAsIs(c, then) ==
  /\ ToSign
  /\ pc' = [pc EXCEPT ![c] = then]
  /\ signs' = [signs EXCEPT ![c] = keys]
  /\ keys' = Signable
  /\ UNCHANGED <<opts, created, signed, jwt, uri, result>>

\* The payload changes, and a copy of it goes to the signer.
StartSigning(c, then) ==
  /\ ToSign
  /\ pc' = [pc EXCEPT ![c] = then]
  /\ keys' = Signable
  /\ signs' = [signs EXCEPT ![c] = Signable]
  /\ UNCHANGED <<opts, created, signed, jwt, uri, result>>

Jwt(c) == Idle(c) /\ StartSigning(c, "signing")

JwtSigned(c) ==
  /\ pc[c] = "signing" /\ CanSign
  /\ Signed(signs[c])
  /\ Return(c, Value(Len(signed) + 1))
  /\ UNCHANGED <<opts, created, keys, uri, signs>>

SigningFails(c) ==
  /\ pc[c] \in {"signing", "signingUri"} /\ ~CanSign
  /\ pc' = [pc EXCEPT ![c] = "unsigned"]
  /\ UNCHANGED <<opts, created, keys, signed, jwt, uri, signs, result>>

(***************************************************************************)
(* getPayload refuses a payload with the metadata and their URI, which it  *)
(* may have until it is signed.                                            *)
(***************************************************************************)
GetPayload(c) ==
  /\ Idle(c)
  /\ IF opts.object /\ keys = Key THEN Fails(c) ELSE Return(c, NoUri)
  /\ UNCHANGED <<opts, created, keys, signed, jwt, uri, signs>>

\* uri() without an unsigned payload needs the one of the request object.
PayloadForUri == opts.outer \/ keys # Key

UriCached(c) ==
  /\ Idle(c) /\ uri # NoUri
  /\ Return(c, uri)
  /\ UNCHANGED <<opts, created, keys, signed, jwt, uri, signs>>

UriRefused(c) ==
  /\ Idle(c) /\ uri = NoUri /\ ~PayloadForUri
  /\ Fails(c)
  /\ UNCHANGED <<opts, created, keys, signed, jwt, uri, signs>>

UriToSign(c) ==
  /\ Idle(c) /\ uri = NoUri /\ PayloadForUri
  /\ StartSigning(c, "signingUri")

\* A URI that is being built keeps its JWT in `result`.
UriJwt(c) ==
  /\ \/ /\ Idle(c) /\ uri = NoUri /\ PayloadForUri /\ ~ToSign
        /\ result' = [result EXCEPT ![c] = Value(jwt)]
        /\ UNCHANGED <<signed, jwt>>
     \/ /\ pc[c] = "signingUri" /\ CanSign
        /\ Signed(signs[c])
        /\ result' = [result EXCEPT ![c] = Value(Len(signed) + 1)]
  /\ pc' = [pc EXCEPT ![c] = "building"]
  /\ UNCHANGED <<opts, created, keys, uri, signs>>

\* By reference the JWT is not in the URI, although it is there.
UriBuilt(c) ==
  /\ pc[c] = "building"
  /\ LET built == IF opts.passBy = "value" THEN result[c] ELSE Reference
     IN  Return(c, built) /\ uri' = built
  /\ UNCHANGED <<opts, created, keys, signed, jwt, signs>>

\* A definition in the payload that is invalid, or cannot be fetched.
UriFails(c) ==
  /\ pc[c] = "building" /\ opts.object
  /\ Fails(c)
  /\ UNCHANGED <<opts, created, keys, signed, jwt, uri, signs>>

-----------------------------------------------------------------------------
Call(c) ==
  \/ JwtCached(c) \/ Jwt(c) \/ JwtSigned(c) \/ SigningFails(c) \/ GetPayload(c)
  \/ UriCached(c) \/ UriRefused(c) \/ UriToSign(c) \/ UriJwt(c) \/ UriBuilt(c)
  \/ UriFails(c)

Next == Create \/ CreateFails \/ \E c \in Calls : Call(c)

Spec == Init /\ [][Next]_vars

-----------------------------------------------------------------------------
Pcs == {"idle", "signing", "signingUri", "building", "done", "failed",
        "unsigned"}

TypeOK ==
  /\ opts \in Options
  /\ created \in {"no", "yes", "failed"}
  /\ keys \subseteq Key
  /\ signed \in Seq(SUBSET Key)
  /\ jwt \in 0..Len(signed)
  /\ pc \in [Calls -> Pcs]
  /\ signs \in [Calls -> SUBSET Key]
  /\ result \in [Calls -> [kind: {"none", "value", "reference"},
                           jwt: 0..Len(signed)]]
  /\ uri \in [kind: {"none", "value", "reference"}, jwt: 0..Len(signed)]

(***************************************************************************)
(* Calls that overlap sign the request object separately, before and after *)
(* its payload has changed: all the JWTs say the same, and none has both   *)
(* the metadata and their URI, which the OP would refuse.                  *)
(***************************************************************************)
JwtsAgree ==
  \A i, j \in DOMAIN signed : signed[i] = signed[j] /\ signed[i] # Key

(***************************************************************************)
(* However calls overlap: when the request object of a request with an     *)
(* unsigned payload is passed by value, the JWT in every URI is the one    *)
(* that requestObjectJwt gives, with the same time of issue.               *)
(***************************************************************************)
Done(kind) == {c \in Calls : pc[c] = "done" /\ result[c].kind = kind}

UriCarriesJwt ==
  SignsAtCreation =>
    \A c, d \in Done("value") : result[c].jwt = result[d].jwt /\ result[c].jwt # 0

(***************************************************************************)
(* A request object that has been signed, in whatever call, has a payload  *)
(* that can be read.                                                       *)
(***************************************************************************)
SignedIsReadable == signed # <<>> => keys # Key
=============================================================================
