------------------------ MODULE RequestObjects_proofs ------------------------
(***************************************************************************)
(* Proofs about RequestObjects, for any number of calls that overlap.      *)
(***************************************************************************)
EXTENDS RequestObjects, SequenceTheorems, TLAPS

(***************************************************************************)
(* What a step adds to the JWTs that have been signed: one, which becomes  *)
(* the JWT in the cache.                                                   *)
(***************************************************************************)
LEMMA SignedType ==
  ASSUME signed \in Seq(SUBSET Key), NEW payload \in SUBSET Key, Signed(payload)
  PROVE  /\ signed' \in Seq(SUBSET Key)
         /\ Len(signed) \in Nat
         /\ Len(signed') = Len(signed) + 1
         /\ jwt' = Len(signed) + 1
         /\ \A i \in 1..Len(signed) : signed'[i] = signed[i]
         /\ signed'[Len(signed) + 1] = payload
  BY AppendProperties, LenProperties DEF Signed

\* What a call or the cache holds: an answer with one of the JWTs.
Answer(n) == [kind: {"none", "value", "reference"}, jwt: 0..n]

LEMMA AnswerGrows ==
  ASSUME NEW m \in Nat, NEW n \in Nat, m <= n
  PROVE  Answer(m) \subseteq Answer(n)
  BY DEF Answer

LEMMA AnswerTypes ==
  ASSUME NEW n \in Nat, NEW m \in 0..n
  PROVE  Value(m) \in Answer(n) /\ Reference \in Answer(n) /\ NoUri \in Answer(n)
  BY DEF Answer, Value, Reference, NoUri

-----------------------------------------------------------------------------
(***************************************************************************)
(* Type correctness: whatever overlaps, the cached JWT, the JWT in the     *)
(* cached URI and the one each call has returned have all been signed.     *)
(***************************************************************************)
LEMMA TypeInit == Init => TypeOK
<1> SUFFICES ASSUME Init PROVE TypeOK
  OBVIOUS
<1>1. signed \in Seq(SUBSET Key) /\ Len(signed) = 0
  BY EmptySeq DEF Init
<1>2. NoUri \in Answer(0)
  BY AnswerTypes
<1>3. QED
  BY <1>1, <1>2 DEF Init, TypeOK, Options, Pcs, Answer

LEMMA TypeStep == TypeOK /\ [Next]_vars => TypeOK'
<1> SUFFICES ASSUME TypeOK, [Next]_vars PROVE TypeOK'
  OBVIOUS
<1> DEFINE Rest == /\ opts' \in Options
                   /\ created' \in {"no", "yes", "failed"}
                   /\ keys' \subseteq Key
                   /\ pc' \in [Calls -> Pcs]
                   /\ signs' \in [Calls -> SUBSET Key]
<1>1. /\ signed \in Seq(SUBSET Key) /\ Len(signed) \in Nat /\ jwt \in 0..Len(signed)
      /\ result \in [Calls -> Answer(Len(signed))]
      /\ uri \in Answer(Len(signed))
  BY LenProperties DEF TypeOK, Answer
<1>2. Signable \in SUBSET Key
  BY DEF Signable, TypeOK
<1>3. ASSUME Rest, UNCHANGED <<signed, jwt>>,
             result' \in [Calls -> Answer(Len(signed))],
             uri' \in Answer(Len(signed))
      PROVE  TypeOK'
  BY <1>1, <1>3 DEF TypeOK, Answer
<1>4. ASSUME Rest, NEW payload \in SUBSET Key, Signed(payload), UNCHANGED uri,
             result' \in [Calls -> Answer(Len(signed) + 1)]
      PROVE  TypeOK'
  <2>1. /\ signed' \in Seq(SUBSET Key)
        /\ Len(signed') = Len(signed) + 1
        /\ jwt' = Len(signed) + 1
    BY <1>1, <1>4, SignedType
  <2>2. uri' \in Answer(Len(signed) + 1)
    BY <1>1, <1>4, AnswerGrows
  <2>3. QED
    BY <1>1, <1>4, <2>1, <2>2 DEF TypeOK, Answer
<1>5. result \in [Calls -> Answer(Len(signed) + 1)]
  BY <1>1, AnswerGrows
<1>6. Value(jwt) \in Answer(Len(signed)) /\ Reference \in Answer(Len(signed))
      /\ NoUri \in Answer(Len(signed))
  BY <1>1, AnswerTypes
<1>7. Value(Len(signed) + 1) \in Answer(Len(signed) + 1)
  BY <1>1, AnswerTypes
<1>8. CASE Create
  <2>1. Rest /\ result' \in [Calls -> Answer(Len(signed))] /\ UNCHANGED <<result, uri>>
    BY <1>1, <1>2, <1>8 DEF Create, TypeOK
  <2>2. CASE SignsAtCreation
    BY <1>2, <1>4, <1>5, <1>8, <2>1, <2>2 DEF Create
  <2>3. CASE ~SignsAtCreation
    BY <1>1, <1>3, <1>8, <2>1, <2>3 DEF Create
  <2>4. QED
    BY <2>2, <2>3
<1>9. CASE CreateFails
  BY <1>1, <1>2, <1>3, <1>9 DEF CreateFails, TypeOK
<1>10. ASSUME NEW c \in Calls, JwtCached(c) \/ GetPayload(c) \/ UriCached(c) \/ UriRefused(c)
       PROVE  TypeOK'
  <2>1. Rest /\ UNCHANGED <<signed, jwt, uri>>
    BY <1>10 DEF JwtCached, GetPayload, UriCached, UriRefused, Return, Fails, TypeOK, Pcs
  <2>2. result' \in [Calls -> Answer(Len(signed))]
    BY <1>1, <1>6, <1>10 DEF JwtCached, GetPayload, UriCached, UriRefused, Return, Fails
  <2>3. QED
    BY <1>1, <1>3, <2>1, <2>2
<1>11. ASSUME NEW c \in Calls, Jwt(c) \/ UriToSign(c)
       PROVE  TypeOK'
  <2>1. Rest /\ UNCHANGED <<signed, jwt, uri, result>>
    BY <1>2, <1>11 DEF Jwt, UriToSign, StartSigning, TypeOK, Pcs
  <2>2. QED
    BY <1>1, <1>3, <2>1
<1>12. ASSUME NEW c \in Calls, JwtSigned(c)
       PROVE  TypeOK'
  <2>1. Rest /\ Signed(signs[c]) /\ UNCHANGED uri /\ signs[c] \in SUBSET Key
    BY <1>12 DEF JwtSigned, Return, TypeOK, Pcs
  <2>2. result' \in [Calls -> Answer(Len(signed) + 1)]
    BY <1>5, <1>7, <1>12 DEF JwtSigned, Return
  <2>3. QED
    BY <1>4, <2>1, <2>2
<1>13. ASSUME NEW c \in Calls, UriJwt(c)
       PROVE  TypeOK'
  <2>1. Rest /\ UNCHANGED uri
    BY <1>13 DEF UriJwt, TypeOK, Pcs
  <2>2. CASE Signed(signs[c]) /\ result' = [result EXCEPT ![c] = Value(Len(signed) + 1)]
    <3>1. signs[c] \in SUBSET Key
      BY DEF TypeOK
    <3>2. result' \in [Calls -> Answer(Len(signed) + 1)]
      BY <1>5, <1>7, <2>2
    <3>3. QED
      BY <1>4, <2>1, <2>2, <3>1, <3>2
  <2>3. CASE UNCHANGED <<signed, jwt>> /\ result' = [result EXCEPT ![c] = Value(jwt)]
    BY <1>1, <1>3, <1>6, <2>1, <2>3
  <2>4. QED
    BY <1>13, <2>2, <2>3 DEF UriJwt
<1>14. ASSUME NEW c \in Calls, UriBuilt(c) \/ UriFails(c) \/ SigningFails(c)
       PROVE  TypeOK'
  <2>1. Rest /\ UNCHANGED <<signed, jwt>>
    BY <1>14 DEF UriBuilt, UriFails, SigningFails, Return, Fails, TypeOK, Pcs
  <2>2. /\ result' \in [Calls -> Answer(Len(signed))]
        /\ uri' \in Answer(Len(signed))
    BY <1>1, <1>6, <1>14 DEF UriBuilt, UriFails, SigningFails, Return, Fails
  <2>3. QED
    BY <1>3, <2>1, <2>2
<1>15. CASE UNCHANGED vars
  BY <1>15 DEF vars, TypeOK
<1>16. QED
  BY <1>8, <1>9, <1>10, <1>11, <1>12, <1>13, <1>14, <1>15 DEF Next, Call

THEOREM TypeCorrect == Spec => []TypeOK
<1>1. QED
  BY TypeInit, TypeStep, PTL DEF Spec

-----------------------------------------------------------------------------
(***************************************************************************)
(* What calls that overlap have signed, however often.  JwtsAgree is not   *)
(* inductive by itself: a call that is about to add a JWT has taken the    *)
(* payload before, when another call may have changed it already.  Stripped*)
(* is what every one of them takes, and the payload itself is this once    *)
(* any of them has.                                                        *)
(***************************************************************************)
Stripped == IF "registration_uri" \in opts.keys THEN opts.keys \ {"registration"}
                                                ELSE opts.keys

Signing(c) == pc[c] \in {"signing", "signingUri"}

PayloadIsStripped == signed # <<>> \/ (\E c \in Calls : Signing(c))

PayloadInv ==
  /\ keys = opts.keys \/ keys = Stripped
  /\ PayloadIsStripped => keys = Stripped
  /\ \A i \in DOMAIN signed : signed[i] = Stripped
  /\ \A c \in Calls : Signing(c) => signs[c] = Stripped

LEMMA StrippedFacts ==
  ASSUME TypeOK
  PROVE  /\ Stripped # Key
         /\ keys = opts.keys \/ keys = Stripped => Signable = Stripped
  BY DEF TypeOK, Options, Stripped, Signable, Key

\* A step that adds a JWT.
LEMMA PayloadSigned ==
  ASSUME TypeOK, PayloadInv, Signed(Stripped), keys' = Stripped, UNCHANGED opts,
         \A c \in Calls : Signing(c)' => signs'[c] = Stripped
  PROVE  PayloadInv'
<1>1. /\ Len(signed) \in Nat /\ Len(signed') = Len(signed) + 1
      /\ \A i \in 1..Len(signed) : signed'[i] = signed[i]
      /\ signed'[Len(signed) + 1] = Stripped
      /\ signed' \in Seq(SUBSET Key)
  <2>1. Stripped \in SUBSET Key
    BY DEF TypeOK, Options, Stripped
  <2>2. QED
    BY <2>1, SignedType DEF TypeOK
<1>2. Stripped' = Stripped
  BY DEF Stripped
<1>3. \A i \in DOMAIN signed' : signed'[i] = Stripped
  <2>1. DOMAIN signed = 1..Len(signed) /\ DOMAIN signed' = 1..Len(signed')
    BY <1>1, LenProperties DEF TypeOK
  <2>2. QED
    BY <1>1, <2>1 DEF PayloadInv
<1>4. QED
  BY <1>2, <1>3 DEF PayloadInv

\* A step after which no more calls are signing than before.
LEMMA PayloadKept ==
  ASSUME PayloadInv, UNCHANGED <<opts, keys, signed, signs>>,
         \A c \in Calls : Signing(c)' => Signing(c)
  PROVE  PayloadInv'
  BY DEF PayloadInv, PayloadIsStripped, Stripped

LEMMA PayloadStep == TypeOK /\ PayloadInv /\ [Next]_vars => PayloadInv'
<1> SUFFICES ASSUME TypeOK, PayloadInv, [Next]_vars PROVE PayloadInv'
  OBVIOUS
<1>1. Signable = Stripped
  BY StrippedFacts DEF PayloadInv
<1>2. pc \in [Calls -> Pcs] /\ signs \in [Calls -> SUBSET Key]
  BY DEF TypeOK
<1>3. CASE Create
  <2>1. CASE SignsAtCreation
    BY <1>1, <1>3, <2>1, PayloadSigned DEF Create, Signing, PayloadInv
  <2>2. CASE ~SignsAtCreation
    BY <1>3, <2>2, PayloadKept DEF Create, Signing
  <2>3. QED
    BY <2>1, <2>2
<1>4. CASE CreateFails
  BY <1>1, <1>4 DEF CreateFails, PayloadInv, PayloadIsStripped, Stripped, Signing
<1>5. ASSUME NEW c \in Calls, JwtCached(c) \/ GetPayload(c) \/ UriCached(c) \/ UriRefused(c)
      PROVE  PayloadInv'
  <2>1. UNCHANGED <<opts, keys, signed, signs>>
    BY <1>5 DEF JwtCached, GetPayload, UriCached, UriRefused
  <2>2. \A d \in Calls : Signing(d)' => Signing(d)
    BY <1>2, <1>5 DEF JwtCached, GetPayload, UriCached, UriRefused, Return, Fails, Signing
  <2>3. QED
    BY <2>1, <2>2, PayloadKept
<1>6. ASSUME NEW c \in Calls, Jwt(c) \/ UriToSign(c)
      PROVE  PayloadInv'
  <2>1. /\ UNCHANGED <<opts, signed>> /\ keys' = Stripped
        /\ signs' = [signs EXCEPT ![c] = Stripped]
        /\ \A d \in Calls \ {c} : pc'[d] = pc[d]
    BY <1>1, <1>2, <1>6 DEF Jwt, UriToSign, StartSigning
  <2>2. Stripped' = Stripped
    BY <2>1 DEF Stripped
  <2>3. \A d \in Calls : Signing(d)' => signs'[d] = Stripped
    BY <1>2, <2>1 DEF PayloadInv, Signing
  <2>4. QED
    BY <2>1, <2>2, <2>3 DEF PayloadInv
<1>7. ASSUME NEW c \in Calls, JwtSigned(c) \/ UriJwt(c)
      PROVE  PayloadInv'
  <2>1. /\ UNCHANGED <<opts, keys, signs>>
        /\ \A d \in Calls : Signing(d)' => Signing(d)
    BY <1>2, <1>7 DEF JwtSigned, UriJwt, Return, Signing
  <2>2. CASE UNCHANGED signed
    BY <2>1, <2>2, PayloadKept
  <2>3. CASE Signing(c) /\ Signed(signs[c])
    <3>1. signs[c] = Stripped /\ keys = Stripped
      BY <2>3 DEF PayloadInv, PayloadIsStripped
    <3>2. \A d \in Calls : Signing(d)' => signs'[d] = Stripped
      BY <2>1 DEF PayloadInv
    <3>3. QED
      BY <2>1, <2>3, <3>1, <3>2, PayloadSigned
  <2>4. QED
    BY <1>7, <2>2, <2>3 DEF JwtSigned, UriJwt, Signing
<1>8. ASSUME NEW c \in Calls, UriBuilt(c) \/ UriFails(c) \/ SigningFails(c)
      PROVE  PayloadInv'
  <2>1. UNCHANGED <<opts, keys, signed, signs>>
    BY <1>8 DEF UriBuilt, UriFails, SigningFails
  <2>2. \A d \in Calls : Signing(d)' => Signing(d)
    BY <1>2, <1>8 DEF UriBuilt, UriFails, SigningFails, Return, Fails, Signing
  <2>3. QED
    BY <2>1, <2>2, PayloadKept
<1>9. CASE UNCHANGED vars
  BY <1>9, PayloadKept DEF vars, Signing
<1>10. QED
  BY <1>3, <1>4, <1>5, <1>6, <1>7, <1>8, <1>9 DEF Next, Call

THEOREM PayloadInvariant == Spec => [](TypeOK /\ PayloadInv)
<1>1. Init => PayloadInv
  BY DEF Init, PayloadInv, PayloadIsStripped, Signing
<1>2. QED
  BY TypeInit, TypeStep, PayloadStep, <1>1, PTL DEF Spec

(***************************************************************************)
(* Calls that overlap sign the same payload, and never one with both the   *)
(* metadata and their URI.                                                 *)
(***************************************************************************)
THEOREM JwtsAgreeAlways == Spec => []JwtsAgree
<1>1. TypeOK /\ PayloadInv => JwtsAgree
  BY StrippedFacts DEF PayloadInv, JwtsAgree
<1>2. QED
  BY PayloadInvariant, <1>1, PTL

(***************************************************************************)
(* A request object that has been signed has a payload that can be read.   *)
(***************************************************************************)
THEOREM SignedIsReadableAlways == Spec => []SignedIsReadable
<1>1. TypeOK /\ PayloadInv => SignedIsReadable
  BY StrippedFacts DEF PayloadInv, PayloadIsStripped, SignedIsReadable
<1>2. QED
  BY PayloadInvariant, <1>1, PTL

-----------------------------------------------------------------------------
(***************************************************************************)
(* A request whose JWT is passed by value in the unsigned payload has this *)
(* JWT from its creation on, so no call signs a second one, whichever      *)
(* overlap: UriCarriesJwt follows, which says nothing of the calls that    *)
(* have not ended.                                                         *)
(***************************************************************************)
OneJwt(answer) == answer.kind = "value" => answer.jwt = 1

ValueInv ==
  SignsAtCreation =>
    /\ created = "no" => signed = <<>>
    /\ created = "yes" => jwt = 1
    /\ \A c \in Calls : ~Signing(c) /\ OneJwt(result[c])
    /\ OneJwt(uri)

LEMMA ValueStep == TypeOK /\ ValueInv /\ [Next]_vars => ValueInv'
<1> SUFFICES ASSUME TypeOK, ValueInv, [Next]_vars, SignsAtCreation' PROVE ValueInv'
  BY DEF ValueInv
<1>1. /\ pc \in [Calls -> Pcs] /\ jwt \in Nat
      /\ result \in [Calls -> [kind: {"none", "value", "reference"}, jwt: Nat]]
  <2>1. Len(signed) \in Nat
    BY LenProperties DEF TypeOK
  <2>2. QED
    BY <2>1 DEF TypeOK
<1>2. SignsAtCreation
  BY DEF SignsAtCreation, Next, Create, CreateFails, Call, JwtCached, Jwt,
     JwtSigned, SigningFails, GetPayload, UriCached, UriRefused, UriToSign,
     UriJwt, UriBuilt, UriFails, StartSigning, vars
<1>3. /\ created = "no" => signed = <<>>
      /\ created = "yes" => jwt = 1
      /\ \A c \in Calls : ~Signing(c) /\ OneJwt(result[c])
      /\ OneJwt(uri)
  BY <1>2 DEF ValueInv
<1>4. OneJwt(NoUri) /\ OneJwt(Reference) /\ (created = "yes" => OneJwt(Value(jwt)))
  BY <1>3 DEF OneJwt, NoUri, Reference, Value
<1>5. CASE Create
  <2>1. jwt' = 1
    BY <1>2, <1>3, <1>5, EmptySeq DEF Create, Signed
  <2>2. QED
    BY <1>2, <1>3, <1>5, <2>1 DEF Create, ValueInv, Signing, OneJwt
<1>6. CASE CreateFails
  BY <1>3, <1>6 DEF CreateFails, ValueInv, Signing, OneJwt
<1>7. ASSUME NEW c \in Calls, JwtCached(c) \/ GetPayload(c) \/ UriCached(c) \/ UriRefused(c)
      PROVE  ValueInv'
  <2>1. UNCHANGED <<opts, created, signed, jwt, uri>>
    BY <1>7 DEF JwtCached, GetPayload, UriCached, UriRefused
  <2>2. \A d \in Calls : ~Signing(d)'
    BY <1>1, <1>3, <1>7 DEF JwtCached, GetPayload, UriCached, UriRefused, Return, Fails, Signing
  <2>3. \A d \in Calls : OneJwt(result'[d])
    BY <1>1, <1>3, <1>4, <1>7
    DEF JwtCached, GetPayload, UriCached, UriRefused, Return, Fails, Idle
  <2>4. QED
    BY <1>3, <2>1, <2>2, <2>3 DEF ValueInv, OneJwt
<1>8. ASSUME NEW c \in Calls
      PROVE  ~Jwt(c) /\ ~UriToSign(c) /\ ~JwtSigned(c) /\ ~SigningFails(c)
  BY <1>3 DEF Jwt, UriToSign, JwtSigned, SigningFails, StartSigning, ToSign, Idle, Signing
<1>9. ASSUME NEW c \in Calls, UriJwt(c)
      PROVE  ValueInv'
  <2>1. /\ Idle(c) /\ result' = [result EXCEPT ![c] = Value(jwt)]
        /\ pc' = [pc EXCEPT ![c] = "building"]
        /\ UNCHANGED <<opts, created, signed, jwt, uri>>
    BY <1>3, <1>9 DEF UriJwt, Signing
  <2>2. \A d \in Calls : ~Signing(d)' /\ OneJwt(result'[d])
    BY <1>1, <1>3, <1>4, <2>1 DEF Signing, Idle
  <2>3. QED
    BY <1>3, <2>1, <2>2 DEF ValueInv, OneJwt
<1>10. ASSUME NEW c \in Calls, UriBuilt(c) \/ UriFails(c)
       PROVE  ValueInv'
  <2>1. UNCHANGED <<opts, created, signed, jwt>>
    BY <1>10 DEF UriBuilt, UriFails
  <2>2. \A d \in Calls : ~Signing(d)'
    BY <1>1, <1>3, <1>10 DEF UriBuilt, UriFails, Return, Fails, Signing
  <2>3. /\ \A d \in Calls : OneJwt(result'[d])
        /\ OneJwt(uri')
    BY <1>1, <1>3, <1>4, <1>10 DEF UriBuilt, UriFails, Return, Fails
  <2>4. QED
    BY <1>3, <2>1, <2>2, <2>3 DEF ValueInv, OneJwt
<1>11. CASE UNCHANGED vars
  BY <1>3, <1>11 DEF vars, ValueInv, Signing, OneJwt
<1>12. QED
  BY <1>5, <1>6, <1>7, <1>8, <1>9, <1>10, <1>11 DEF Next, Call

(***************************************************************************)
(* Every URI of such a request has the JWT that requestObjectJwt gives.    *)
(***************************************************************************)
THEOREM UriCarriesJwtAlways == Spec => []UriCarriesJwt
<1>1. Init => ValueInv
  BY DEF Init, ValueInv, Signing, OneJwt, NoUri
<1>2. ValueInv => UriCarriesJwt
  BY DEF ValueInv, UriCarriesJwt, Done, OneJwt
<1>3. QED
  BY TypeInit, TypeStep, ValueStep, <1>1, <1>2, PTL DEF Spec
=============================================================================
