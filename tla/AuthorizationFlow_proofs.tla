------------------------ MODULE AuthorizationFlow_proofs ------------------------
(***************************************************************************)
(* Proofs about AuthorizationFlow, for any sets of requests, sessions, RPs *)
(* and verifications, any lifetimes and any number of publications.        *)
(***************************************************************************)
EXTENDS AuthorizationFlow, TLAPS

(***************************************************************************)
(* Whose request object a session reads.  The properties of RequestObject  *)
(* that the invariants rest on, once for the steps that fetch it.          *)
(***************************************************************************)
PublishedByOwner ==
  \A p \in Parties : published[p] # NoRequest => Owner[published[p]] = p

LEMMA IssuedAreRequests == Issued \subseteq Requests
  BY DEF Issued

LEMMA RequestObjectFacts ==
  ASSUME TypeOK, PublishedByOwner, NEW s \in Sessions, phase[s] \in Opened,
         RequestObject(s) # NoRequest
  PROVE  /\ RequestObject(s) \in Issued
         /\ Owner[RequestObject(s)] = Owner[link[s].request]
         /\ Owner[link[s].request] \in Parties
         /\ ByReference(s) => RequestObject(s) = published[Owner[link[s].request]]
         /\ ~ByReference(s) => RequestObject(s) = link[s].request
<1>1. link[s].request \in Issued
  BY DEF TypeOK
<1>2. Owner[link[s].request] \in Parties
  BY <1>1, OwnerAssumption, IssuedAreRequests
<1>3. published[Owner[link[s].request]] \in Issued \cup {NoRequest}
  BY <1>2 DEF TypeOK
<1>4. QED
  BY <1>1, <1>2, <1>3 DEF RequestObject, PublishedByOwner

-----------------------------------------------------------------------------

(***************************************************************************)
(* Type correctness.  It has a strengthening of its own, because a request *)
(* object is typed only where the request of the link is.                  *)
(***************************************************************************)
TypeInv == TypeOK /\ PublishedByOwner

LEMMA TypeInit == Init => TypeInv
  BY TimeAssumption, NoneAssumption
  DEF Init, TypeInv, TypeOK, PublishedByOwner, NotIssued, Issued, Opened, Verified, Asked,
      Answered, Received, OpBusy, OpRest, RpBusy, RpRest

LEMMA NowIsNat == ASSUME TypeOK PROVE now \in Nat
  BY TimeAssumption DEF TypeOK

LEMMA TypeStep == TypeInv /\ [Next]_vars => TypeInv'
<1> SUFFICES ASSUME TypeInv, [Next]_vars PROVE TypeInv'
  OBVIOUS
<1> USE DEF TypeInv, TypeOK, PublishedByOwner, Opened, Verified, Asked, Answered,
            Received, OpBusy, OpRest, RpBusy, RpRest, opVars, rpVars, ioVars
<1>0. now \in Nat /\ TokenLife \in Nat /\ MaxTime \in Nat
  BY TimeAssumption
<1>1. CASE Tick
  BY <1>0, <1>1 DEF Tick, Issued, NotIssued
<1>2. ASSUME NEW r \in Requests, NEW k \in Kinds, Issue(r, k)
      PROVE  TypeInv'
  <2>1. k \in Kind
    BY InputsAssumption
  <2>2. request'[r] = [state |-> k.state, made |-> now, registration |-> k.registration]
    BY <1>2 DEF Issue
  <2>3. request'[r] \in [state: BOOLEAN, registration: BOOLEAN, made: -1..MaxTime]
    BY <1>0, <2>1, <2>2 DEF Kind
  <2>4. \A q \in Requests : q # r => request'[q] = request[q]
    BY <1>2 DEF Issue
  <2>5. Issued \subseteq Issued'
    BY <1>2, <2>4 DEF Issue, Issued
  <2>6. request' \in [Requests -> [state: BOOLEAN, registration: BOOLEAN, made: -1..MaxTime]]
    BY <1>2, <2>3 DEF Issue
  <2>7. QED
    BY <1>2, <2>5, <2>6 DEF Issue
<1>3. ASSUME NEW r \in Requests, Publish(r)
      PROVE  TypeInv'
  <2>1. r \in Issued /\ Owner[r] \in Parties /\ r # NoRequest
    BY <1>3, OwnerAssumption, NoneAssumption DEF Publish
  <2>2. Issued' = Issued
    BY <1>3 DEF Publish, Issued
  <2>3. QED
    BY <1>3, <2>1, <2>2 DEF Publish
<1>4. ASSUME NEW s \in Sessions, NEW l \in Links, Open(s, l)
      PROVE  TypeInv'
  BY <1>4 DEF Open, Issued
<1>5. ASSUME NEW s \in Sessions, NEW n \in BOOLEAN, NEW t \in BOOLEAN, AskForAnswer(s, n, t)
      PROVE  TypeInv'
  BY <1>5 DEF AskForAnswer, Issued, Wish
<1>6. ASSUME NEW s \in Sessions, Submit(s)
      PROVE  TypeInv'
  BY <1>6 DEF Submit, Issued
<1>7. ASSUME NEW v \in Checks, NEW s \in Sessions, NEW d \in Demands, Receive(v, s, d)
      PROVE  TypeInv'
  <2>1. d \in Demand
    BY InputsAssumption
  <2>2. QED
    BY <1>7, <2>1 DEF Receive, Issued, Terms, Demand
<1>8. ASSUME NEW s \in Sessions, Resolve(s)
      PROVE  TypeInv'
  <2>1. RequestObject(s) \in Issued /\ Owner[link[s].request] \in Parties
    BY <1>8, RequestObjectFacts DEF Resolve
  <2>2. bound'[s] \in [request: Issued, edition: Nat]
    BY <1>8, <2>1 DEF Resolve
  <2>3. QED
    BY <1>8, <2>2 DEF Resolve, Issued
<1>9. ASSUME NEW s \in Sessions, Verify(s)
       PROVE  TypeInv'
  BY <1>9 DEF Verify, Issued
<1>10. ASSUME NEW s \in Sessions, Reverify(s)
       PROVE  TypeInv'
  BY <1>10 DEF Reverify, Issued
<1>11. ASSUME NEW s \in Sessions, FetchForIDToken(s)
       PROVE  TypeInv'
  BY <1>11 DEF FetchForIDToken, Issued
<1>12. ASSUME NEW s \in Sessions, CreateIDToken(s)
       PROVE  TypeInv'
  <2>1. RequestObject(s) \in Requests /\ Owner[RequestObject(s)] \in Parties
    BY <1>12, RequestObjectFacts, IssuedAreRequests DEF CreateIDToken
  <2>2. ResponseState(s) \in Requests \cup {"own", "random"}
    BY <1>12, IssuedAreRequests DEF CreateIDToken, ResponseState
  <2>3. answer'[s] \in Answer
    BY <1>0, <1>12, <2>1, <2>2 DEF CreateIDToken, Answer, TokenNonce
  <2>4. QED
    BY <1>12, <2>3 DEF CreateIDToken, Issued
<1>13. ASSUME NEW s \in Sessions, CreateIDTokenFails(s)
       PROVE  TypeInv'
  BY <1>13 DEF CreateIDTokenFails, Issued
<1>14. ASSUME NEW s \in Sessions, Sign(s)
       PROVE  TypeInv'
  BY <1>14 DEF Sign, Issued
<1>15. ASSUME NEW s \in Sessions, Refuse(s) \/ Decline(s) \/ Fail(s) \/ Hang(s)
       PROVE  TypeInv'
  BY <1>15 DEF Refuse, Decline, Fail, Hang, Issued
<1>16. ASSUME NEW v \in Checks, RpStep(v)
       PROVE  TypeInv'
  BY <1>16 DEF RpStep, Checking, CheckSignature, CheckClaims, Accept, Reject, Break, Issued
<1>17. CASE UNCHANGED vars
  BY <1>17 DEF vars, Issued
<1>18. QED
  BY <1>1, <1>2, <1>3, <1>4, <1>5, <1>6, <1>7, <1>8, <1>9, <1>10, <1>11, <1>12, <1>13,
     <1>14, <1>15, <1>16, <1>17 DEF Next, Environment, OpStep, Answering

THEOREM TypeCorrect == Spec => []TypeOK
<1>1. TypeInv => TypeOK
  BY DEF TypeInv
<1>2. QED
  BY <1>1, TypeInit, TypeStep, PTL DEF Spec

-----------------------------------------------------------------------------

(***************************************************************************)
(* The OP's side.  What a session has bound belongs to the RP of its link. *)
(* Without a reference it is the request of the link; with one it is what  *)
(* the RP had published in the edition it was fetched in, and still is     *)
(* unless there has been an edition since.                                 *)
(***************************************************************************)
LinkedParty(s) == Owner[link[s].request]

BoundToLink ==
  \A s \in Sessions : phase[s] \in Verified \cup {"verifying"} =>
    /\ Owner[bound[s].request] = LinkedParty(s)
    /\ ~ByReference(s) => bound[s].request = link[s].request
    /\ ByReference(s) =>
         /\ bound[s].edition <= edition[LinkedParty(s)]
         /\ \/ edition[LinkedParty(s)] > bound[s].edition
            \/ published[LinkedParty(s)] = bound[s].request

\* An answer is addressed to the RP of its link, and answers a request of it.
AnswersLink ==
  \A s \in Sessions : phase[s] \in Answered =>
    /\ answer[s].to = LinkedParty(s)
    /\ Owner[answer[s].nonce] = LinkedParty(s)
    /\ ~ByReference(s) => answer[s].nonce = bound[s].request

\* When an answer was asked for, and that the request was verified afterwards.
Reverified == Asked \ {"reverifying", "declined", "failed", "waiting"}

AskedInTime ==
  \A s \in Sessions :
    /\ phase[s] \in Asked => wish[s].at <= now
    /\ phase[s] \in Reverified =>
         wish[s].at < request[bound[s].request].made + RequestLife + Skew

OpInv == BoundToLink /\ AnswersLink /\ AnswersVerifiedRequest /\ AskedInTime

(***************************************************************************)
(* The RP's side: what the checks that a verification has passed tell of   *)
(* the response.  Whatever an RP receives has been submitted, and a        *)
(* session that has submitted its answer takes no further step.            *)
(***************************************************************************)
RpInv ==
  \A v \in Checks :
    /\ stage[v] \in Received =>
         phase[subject[v]] = "submitted" /\ terms[v].at <= now
    /\ stage[v] \in {"claims", "presentations", "accepted"} =>
         answer[subject[v]].to = terms[v].party
    /\ stage[v] \in {"presentations", "accepted"} =>
         terms[v].at <= answer[subject[v]].exp

IInv == TypeInv /\ OpInv /\ RpInv

LEMMA OpInvInit == Init => OpInv
  BY DEF Init, OpInv, BoundToLink, AnswersLink, AnswersVerifiedRequest, AskedInTime,
         Verified, Asked, Answered, Reverified

LEMMA OpInvStep == TypeInv /\ OpInv /\ [Next]_vars => OpInv'
<1> SUFFICES ASSUME TypeInv, OpInv, [Next]_vars PROVE OpInv'
  OBVIOUS
<1> USE DEF OpInv, BoundToLink, AnswersLink, AnswersVerifiedRequest, AskedInTime, Reverified,
            Republished, LinkedParty, ByReference, TypeOK, TypeInv, Opened, Verified, Asked,
            Answered, OpBusy, OpRest, opVars, rpVars, ioVars
<1>0. /\ now \in Nat /\ RequestLife \in Nat /\ Skew \in Nat
      /\ \A r \in Requests : request[r].made \in Int
  BY TimeAssumption
<1>1. CASE Tick
  <2>1. now <= now' /\ UNCHANGED <<opVars, ioVars>>
    BY <1>0, <1>1 DEF Tick
  <2>2. \A s \in Sessions : phase[s] \in Asked => wish[s].at \in Nat
    BY TimeAssumption DEF Wish
  <2>3. now' \in Nat
    BY <1>0, <1>1 DEF Tick
  <2>4. AskedInTime'
    BY <1>0, <2>1, <2>2, <2>3
  <2>5. QED
    BY <2>1, <2>4
<1>2. ASSUME NEW r \in Requests, NEW k \in Kinds, Issue(r, k)
      PROVE  OpInv'
  <2>1. \A q \in Issued : request'[q] = request[q]
    BY <1>2 DEF Issue, Issued
  <2>2. \A s \in Sessions : phase[s] \in Verified => bound[s].request \in Issued
    OBVIOUS
  <2>3. QED
    BY <1>2, <2>1, <2>2 DEF Issue
<1>3. ASSUME NEW r \in Requests, Publish(r)
      PROVE  OpInv'
  <2>1. Owner[r] \in Parties
    BY OwnerAssumption
  <2>2. \A p \in Parties : /\ edition[p] \in Nat
                           /\ \/ edition'[p] = edition[p] /\ published'[p] = published[p]
                              \/ edition'[p] = edition[p] + 1
    BY <1>3, <2>1 DEF Publish
  <2>3. \A s \in Sessions : phase[s] \in Opened => LinkedParty(s) \in Parties
    BY OwnerAssumption, IssuedAreRequests
  <2>4. \A s \in Sessions : phase[s] \in Verified \cup {"verifying"} => bound[s].edition \in Nat
    OBVIOUS
  <2>5. UNCHANGED <<now, request, opVars>>
    BY <1>3 DEF Publish
  <2>6. BoundToLink'
    BY <2>2, <2>3, <2>4, <2>5
  <2>7. AnswersVerifiedRequest'
    BY <2>2, <2>3, <2>4, <2>5
  <2>8. QED
    BY <2>5, <2>6, <2>7
<1>4. ASSUME NEW s \in Sessions, NEW l \in Links, Open(s, l)
      PROVE  OpInv'
  BY <1>4 DEF Open
<1>5. ASSUME NEW s \in Sessions, NEW n \in BOOLEAN, NEW t \in BOOLEAN, AskForAnswer(s, n, t)
      PROVE  OpInv'
  BY <1>0, <1>5 DEF AskForAnswer
<1>6. ASSUME NEW s \in Sessions, Submit(s)
      PROVE  OpInv'
  BY <1>6 DEF Submit
<1>7. ASSUME NEW v \in Checks, NEW s \in Sessions, NEW d \in Demands, Receive(v, s, d)
      PROVE  OpInv'
  BY <1>7 DEF Receive
<1>8. ASSUME NEW s \in Sessions, Resolve(s)
      PROVE  OpInv'
  <2>1. /\ Owner[RequestObject(s)] = LinkedParty(s) /\ LinkedParty(s) \in Parties
        /\ ByReference(s) => RequestObject(s) = published[LinkedParty(s)]
        /\ ~ByReference(s) => RequestObject(s) = link[s].request
    BY <1>8, RequestObjectFacts DEF Resolve
  <2>2. bound'[s] = [request |-> RequestObject(s), edition |-> edition[LinkedParty(s)]]
    BY <1>8 DEF Resolve
  <2>3. edition[LinkedParty(s)] \in Nat
    BY <2>1
  <2>4. BoundToLink'
    BY <1>8, <2>1, <2>2, <2>3 DEF Resolve
  <2>5. QED
    BY <1>8, <2>4 DEF Resolve
<1>9. ASSUME NEW s \in Sessions, Verify(s)
      PROVE  OpInv'
  BY <1>9 DEF Verify
<1>10. ASSUME NEW s \in Sessions, Reverify(s)
       PROVE  OpInv'
  <2>1. bound[s].request \in Requests /\ wish[s].at \in Nat /\ wish[s].at <= now
    BY <1>10, IssuedAreRequests, TimeAssumption DEF Reverify, Wish
  <2>2. wish[s].at < request[bound[s].request].made + RequestLife + Skew
    BY <1>0, <1>10, <2>1 DEF Reverify, Verifiable, Unexpired
  <2>3. QED
    BY <1>10, <2>2 DEF Reverify
<1>11. ASSUME NEW s \in Sessions, FetchForIDToken(s)
       PROVE  OpInv'
  BY <1>11 DEF FetchForIDToken
<1>12. ASSUME NEW s \in Sessions, CreateIDToken(s)
       PROVE  OpInv'
  <2>1. /\ Owner[RequestObject(s)] = LinkedParty(s)
        /\ ByReference(s) => RequestObject(s) = published[LinkedParty(s)]
        /\ ~ByReference(s) => RequestObject(s) = link[s].request
    BY <1>12, RequestObjectFacts DEF CreateIDToken
  <2>2. answer'[s].nonce = RequestObject(s) /\ answer'[s].to = Owner[RequestObject(s)]
    BY <1>12 DEF CreateIDToken, TokenNonce
  <2>3. AnswersLink'
    BY <1>12, <2>1, <2>2 DEF CreateIDToken
  <2>4. AnswersVerifiedRequest'
    BY <1>12, <2>1, <2>2 DEF CreateIDToken
  <2>5. QED
    BY <1>12, <2>3, <2>4 DEF CreateIDToken
<1>13. ASSUME NEW s \in Sessions, CreateIDTokenFails(s)
       PROVE  OpInv'
  BY <1>13 DEF CreateIDTokenFails
<1>14. ASSUME NEW s \in Sessions, Sign(s)
       PROVE  OpInv'
  BY <1>14 DEF Sign
<1>15. ASSUME NEW s \in Sessions, Refuse(s) \/ Decline(s) \/ Fail(s) \/ Hang(s)
       PROVE  OpInv'
  BY <1>15 DEF Refuse, Decline, Fail, Hang
<1>16. ASSUME NEW v \in Checks, RpStep(v)
       PROVE  OpInv'
  BY <1>16 DEF RpStep, Checking, CheckSignature, CheckClaims, Accept, Reject, Break
<1>17. CASE UNCHANGED vars
  BY <1>17 DEF vars
<1> HIDE DEF OpInv
<1>18. QED
  BY <1>1, <1>2, <1>3, <1>4, <1>5, <1>6, <1>7, <1>8, <1>9, <1>10, <1>11, <1>12, <1>13,
     <1>14, <1>15, <1>16, <1>17 DEF Next, Environment, OpStep, Answering

LEMMA OpInvariant == Spec => [](TypeInv /\ OpInv)
  BY TypeInit, TypeStep, OpInvInit, OpInvStep, PTL DEF Spec

(***************************************************************************)
(* A response carries the nonce of the request that was verified, unless   *)
(* its RP has published another request object since, whatever other       *)
(* sessions do and whenever the RP publishes.                              *)
(***************************************************************************)
THEOREM VerifiedRequestIsAnswered == Spec => []AnswersVerifiedRequest
<1>1. OpInv => AnswersVerifiedRequest
  BY DEF OpInv
<1>2. QED
  BY <1>1, OpInvariant, PTL

(***************************************************************************)
(* However long the user hesitates: when the answer was asked for, the     *)
(* request had not expired.                                                *)
(***************************************************************************)
THEOREM AnsweredInTime == Spec => []ExpiredRequestNotAnswered
<1>1. OpInv => ExpiredRequestNotAnswered
  BY DEF OpInv, AskedInTime, ExpiredRequestNotAnswered, Reverified, Asked, Verified, Answered
<1>2. QED
  BY <1>1, OpInvariant, PTL

-----------------------------------------------------------------------------

LEMMA SubmittedIsFinal ==
  ASSUME TypeInv, [Next]_vars, NEW s \in Sessions, phase[s] = "submitted"
  PROVE  phase'[s] = "submitted" /\ answer'[s] = answer[s]
<1> USE DEF TypeInv, TypeOK, OpBusy, opVars
<1>1. CASE Environment
  BY <1>1 DEF Environment, Tick, Publish, Issue, Open, AskForAnswer, Submit, Receive
<1>2. ASSUME NEW t \in Sessions, OpStep(t)
      PROVE  phase'[s] = "submitted" /\ answer'[s] = answer[s]
  BY <1>2 DEF OpStep, Answering, Resolve, Verify, Reverify, FetchForIDToken, CreateIDToken,
              CreateIDTokenFails, Sign, Refuse, Decline, Fail, Hang
<1>3. ASSUME NEW v \in Checks, RpStep(v)
      PROVE  phase'[s] = "submitted" /\ answer'[s] = answer[s]
  BY <1>3 DEF RpStep, Checking, CheckSignature, CheckClaims, Accept, Reject, Break
<1>4. QED
  BY <1>1, <1>2, <1>3 DEF Next, vars

LEMMA RpInvStep == TypeInv /\ RpInv /\ [Next]_vars => RpInv'
<1> SUFFICES ASSUME TypeInv, RpInv, [Next]_vars PROVE RpInv'
  OBVIOUS
<1> USE DEF TypeInv, TypeOK, RpInv, Received, RpBusy, RpRest, rpVars
<1>0. \A v \in Checks : stage[v] \in Received =>
        /\ subject[v] \in Sessions /\ terms[v].at \in Nat
        /\ phase'[subject[v]] = "submitted"
        /\ answer'[subject[v]] = answer[subject[v]]
        /\ answer[subject[v]].exp \in Nat
  BY SubmittedIsFinal, TimeAssumption DEF Terms, Answer, Answered
<1>1. now \in Nat /\ now' \in Nat /\ now <= now'
  BY TimeAssumption DEF Next, Environment, OpStep, Answering, RpStep, Checking, vars, Tick, Publish, Issue, Open,
     AskForAnswer, Submit, Receive, Resolve, Verify, Reverify, FetchForIDToken, CreateIDToken,
     CreateIDTokenFails, Sign, Refuse, Decline, Fail, Hang, CheckSignature, CheckClaims,
     Accept, Reject, Break
<1>2. CASE UNCHANGED rpVars
  BY <1>0, <1>1, <1>2
<1>3. ASSUME NEW v \in Checks, NEW s \in Sessions, NEW d \in Demands, Receive(v, s, d)
      PROVE  RpInv'
  BY <1>0, <1>1, <1>3 DEF Receive, opVars
<1>4. ASSUME NEW v \in Checks, CheckSignature(v)
      PROVE  RpInv'
  BY <1>0, <1>1, <1>4 DEF CheckSignature, SignatureHolds, AudienceMatches
<1>5. ASSUME NEW v \in Checks, CheckClaims(v)
      PROVE  RpInv'
  BY <1>0, <1>1, <1>5 DEF CheckClaims, ClaimsHold
<1>6. ASSUME NEW v \in Checks, Accept(v) \/ Reject(v) \/ Break(v)
      PROVE  RpInv'
  BY <1>0, <1>1, <1>6 DEF Accept, Reject, Break
<1>7. QED
  BY <1>2, <1>3, <1>4, <1>5, <1>6 DEF Next, Environment, OpStep, Answering, RpStep, Checking, vars, Tick, Publish,
     Issue, Open, AskForAnswer, Submit, Resolve, Verify, Reverify, FetchForIDToken,
     CreateIDToken, CreateIDTokenFails, Sign, Refuse, Decline, Fail, Hang

LEMMA Invariant == Spec => []IInv
<1>1. Init => RpInv
  BY DEF Init, RpInv, Received, RpBusy
<1>2. QED
  BY <1>1, RpInvStep, OpInvariant, PTL DEF Spec, IInv

(***************************************************************************)
(* An RP accepts a response only of a session in which the OP was sent,    *)
(* and verified, a request of this same RP.                                *)
(***************************************************************************)
THEOREM AcceptedWhereAskedAlways == Spec => []AcceptedWhereAsked
<1>1. IInv => AcceptedWhereAsked
  BY DEF IInv, TypeInv, TypeOK, OpInv, RpInv, BoundToLink, AnswersLink, LinkedParty,
         AcceptedWhereAsked, Received, Verified, Answered
<1>2. QED
  BY <1>1, Invariant, PTL

(***************************************************************************)
(* A response that had expired when the RP received it is not accepted.    *)
(***************************************************************************)
THEOREM ExpiredTokenRefused == Spec => []ExpiredTokenNotAccepted
<1>1. IInv => ExpiredTokenNotAccepted
  BY DEF IInv, RpInv, ExpiredTokenNotAccepted
<1>2. QED
  BY <1>1, Invariant, PTL

-----------------------------------------------------------------------------

(***************************************************************************)
(* The two parties keep the promise of RequestAnswering.  The abstract     *)
(* state is what the mapping of Promise makes of the detailed one: only    *)
(* the steps that verify a request, sign a response or accept one change   *)
(* it, if the request is not passed by reference.                          *)
(***************************************************************************)
verifiedBar == [s \in Sessions |-> IF Done(s, Verified) THEN bound[s].request ELSE NoRequest]
answeredBar == [s \in Sessions |-> IF Done(s, {"answered", "submitted"})
                                     THEN answer[s].nonce ELSE NoRequest]
AcceptedHere == {v \in Checks : stage[v] = "accepted" /\ ~ByReference(subject[v])}
acceptedBar == {<<terms[v].party, answer[subject[v]].nonce>> : v \in AcceptedHere}

\* A verification that has begun keeps its subject, its terms and their answer.
LEMMA ReceivedStays ==
  ASSUME IInv, [Next]_vars, NEW v \in Checks, stage[v] \in Received
  PROVE  /\ subject'[v] = subject[v] /\ terms'[v] = terms[v]
         /\ answer'[subject[v]] = answer[subject[v]]
         /\ link'[subject[v]] = link[subject[v]]
         /\ stage[v] = "accepted" => stage'[v] = "accepted"
<1> USE DEF Received, RpBusy, RpRest, OpBusy, opVars, rpVars
<1>1. subject[v] \in Sessions /\ phase[subject[v]] = "submitted"
  BY DEF IInv, TypeInv, TypeOK, RpInv
<1>2. answer'[subject[v]] = answer[subject[v]]
  BY <1>1, SubmittedIsFinal DEF IInv
<1>3. CASE Environment
  BY <1>1, <1>2, <1>3 DEF IInv, TypeInv, TypeOK, Environment, Tick, Publish, Issue, Open,
     AskForAnswer, Submit, Receive
<1>4. CASE \E s \in Sessions : OpStep(s)
  BY <1>1, <1>2, <1>4 DEF OpStep, Answering, Resolve, Verify, Reverify, FetchForIDToken, CreateIDToken,
     CreateIDTokenFails, Sign, Refuse, Decline, Fail, Hang
<1>5. ASSUME NEW w \in Checks, RpStep(w)
      PROVE  /\ subject' = subject /\ terms' = terms /\ link' = link
             /\ stage[v] = "accepted" => stage'[v] = "accepted"
  BY <1>5 DEF IInv, TypeInv, TypeOK, RpStep, Checking, CheckSignature, CheckClaims, Accept,
     Reject, Break
<1>6. QED
  BY <1>1, <1>2, <1>3, <1>4, <1>5 DEF Next, vars

\* Until a verification accepts, nothing is added to what is accepted.
LEMMA AcceptedStutters ==
  ASSUME IInv, [Next]_vars, \A v \in Checks : stage'[v] = "accepted" => stage[v] = "accepted"
  PROVE  UNCHANGED acceptedBar
<1>1. \A v \in Checks : v \in AcceptedHere <=> v \in AcceptedHere'
  BY ReceivedStays DEF AcceptedHere, Received, RpBusy, RpRest, ByReference
<1>2. \A v \in AcceptedHere : <<terms[v].party, answer[subject[v]].nonce>>
                              = <<terms[v].party, answer[subject[v]].nonce>>'
  BY ReceivedStays DEF AcceptedHere, Received, RpBusy, RpRest
<1>3. AcceptedHere = AcceptedHere'
  BY <1>1 DEF AcceptedHere
<1>4. QED
  BY <1>2, <1>3 DEF acceptedBar

\* Without a step of the OP no session verifies or answers anything.
LEMMA SessionsStutter ==
  ASSUME UNCHANGED <<phase, link, bound, answer>>
  PROVE  UNCHANGED <<verifiedBar, answeredBar>>
  BY DEF verifiedBar, answeredBar, Done, ByReference

\* A session moves between phases that the mapping does not tell apart.
LEMMA SessionStutters ==
  ASSUME IInv, NEW s \in Sessions,
         \A t \in Sessions : t # s => /\ phase'[t] = phase[t] /\ link'[t] = link[t]
                                      /\ bound'[t] = bound[t] /\ answer'[t] = answer[t],
         phase[s] \in Verified <=> phase'[s] \in Verified,
         phase[s] \in {"answered", "submitted"} <=> phase'[s] \in {"answered", "submitted"},
         phase'[s] \in Verified => link'[s] = link[s] /\ bound'[s] = bound[s],
         phase'[s] \in {"answered", "submitted"} => link'[s] = link[s] /\ answer'[s] = answer[s]
  PROVE  UNCHANGED <<verifiedBar, answeredBar>>
<1>1. \A t \in Sessions : verifiedBar[t] = verifiedBar'[t]
  BY DEF verifiedBar, Done, ByReference
<1>2. \A t \in Sessions : answeredBar[t] = answeredBar'[t]
  BY DEF answeredBar, Done, ByReference
<1>3. verifiedBar = verifiedBar'
  BY <1>1 DEF verifiedBar
<1>4. answeredBar = answeredBar'
  BY <1>2 DEF answeredBar
<1>5. QED
  BY <1>3, <1>4

LEMMA PromiseInit == Init => Promise!Init
  BY DEF Init, Promise!Init, Done, Verified

LEMMA PromiseStep == IInv /\ [Next]_vars => [Promise!Next]_<<verifiedBar, answeredBar, acceptedBar>>
<1> SUFFICES ASSUME IInv, [Next]_vars
             PROVE  \/ Promise!Next
                    \/ UNCHANGED <<verifiedBar, answeredBar, acceptedBar>>
  OBVIOUS
<1> USE DEF opVars, rpVars, ioVars
<1>0. TypeOK
  BY DEF IInv, TypeInv
<1>1. ASSUME UNCHANGED stage
      PROVE  UNCHANGED acceptedBar
  BY <1>1, AcceptedStutters
<1>2. CASE UNCHANGED <<phase, link, bound, answer, stage>>
  BY <1>1, <1>2, SessionsStutter
<1>3. ASSUME NEW s \in Sessions, NEW l \in Links, Open(s, l)
      PROVE  UNCHANGED <<verifiedBar, answeredBar, acceptedBar>>
  <2>1. /\ phase[s] = "idle" /\ phase'[s] = "resolving" /\ stage' = stage
        /\ \A t \in Sessions : t # s => /\ phase'[t] = phase[t] /\ link'[t] = link[t]
                                        /\ bound'[t] = bound[t] /\ answer'[t] = answer[t]
    BY <1>0, <1>3 DEF Open, TypeOK
  <2>2. QED
    BY <1>1, <2>1, SessionStutters DEF Verified
<1>4. ASSUME NEW v \in Checks, NEW s \in Sessions, NEW d \in Demands, Receive(v, s, d)
      PROVE  UNCHANGED <<verifiedBar, answeredBar, acceptedBar>>
  <2>1. \A w \in Checks : stage'[w] = "accepted" => stage[w] = "accepted"
    BY <1>0, <1>4 DEF Receive, TypeOK
  <2>2. UNCHANGED <<phase, link, bound, answer>>
    BY <1>4 DEF Receive
  <2>3. QED
    BY <2>1, <2>2, AcceptedStutters, SessionsStutter
<1>5. ASSUME NEW s \in Sessions,
             \/ Resolve(s) \/ Reverify(s) \/ FetchForIDToken(s) \/ CreateIDToken(s)
             \/ CreateIDTokenFails(s) \/ Refuse(s) \/ Decline(s) \/ Fail(s) \/ Hang(s)
             \/ Submit(s)
             \/ \E n, t \in BOOLEAN : AskForAnswer(s, n, t)
      PROVE  UNCHANGED <<verifiedBar, answeredBar, acceptedBar>>
  <2>1. /\ phase[s] \in Verified <=> phase'[s] \in Verified
        /\ phase[s] \in {"answered", "submitted"} <=> phase'[s] \in {"answered", "submitted"}
        /\ phase'[s] \in Verified => bound'[s] = bound[s]
        /\ phase'[s] \in {"answered", "submitted"} => answer'[s] = answer[s]
        /\ link' = link /\ stage' = stage
        /\ \A t \in Sessions : t # s => /\ phase'[t] = phase[t]
                                        /\ bound'[t] = bound[t] /\ answer'[t] = answer[t]
    BY <1>0, <1>5 DEF TypeOK, Verified, OpBusy, OpRest, Resolve, Reverify, FetchForIDToken,
       CreateIDToken, CreateIDTokenFails, Refuse, Decline, Fail, Hang, Submit, AskForAnswer
  <2>2. QED
    BY <1>1, <2>1, SessionStutters
<1>6. ASSUME NEW s \in Sessions, Verify(s)
      PROVE  \/ Promise!Next
             \/ UNCHANGED <<verifiedBar, answeredBar, acceptedBar>>
  <2>1. /\ phase[s] = "verifying" /\ phase' = [phase EXCEPT ![s] = "verified"]
        /\ UNCHANGED <<link, bound, answer, stage>>
    BY <1>6 DEF Verify
  <2>2. bound[s].request \in Requests
    BY <1>0, <2>1, IssuedAreRequests DEF TypeOK
  <2>3. CASE ByReference(s)
    <3>1. \A t \in Sessions : verifiedBar'[t] = verifiedBar[t] /\ answeredBar'[t] = answeredBar[t]
      BY <1>0, <2>1, <2>3 DEF TypeOK, verifiedBar, answeredBar, Done, ByReference
    <3>2. UNCHANGED <<verifiedBar, answeredBar>>
      BY <3>1 DEF verifiedBar, answeredBar
    <3>3. QED
      BY <1>1, <2>1, <3>2
  <2>4. CASE ~ByReference(s)
    <3>1. verifiedBar[s] = NoRequest
      BY <2>1 DEF verifiedBar, Done, Verified
    <3>2. verifiedBar' = [verifiedBar EXCEPT ![s] = bound[s].request]
      BY <1>0, <2>1, <2>4 DEF TypeOK, verifiedBar, Done, ByReference, Verified
    <3>3. UNCHANGED answeredBar
      BY <1>0, <2>1 DEF TypeOK, answeredBar, Done, ByReference
    <3>4. Promise!Verify(s)
      BY <1>1, <2>1, <2>2, <3>1, <3>2, <3>3
      DEF Promise!Verify, verifiedBar, answeredBar, acceptedBar, AcceptedHere
    <3>5. QED
      BY <3>4 DEF Promise!Next
  <2>5. QED
    BY <2>3, <2>4
<1>7. ASSUME NEW s \in Sessions, Sign(s)
      PROVE  \/ Promise!Next
             \/ UNCHANGED <<verifiedBar, answeredBar, acceptedBar>>
  <2>1. /\ phase[s] = "signing" /\ phase' = [phase EXCEPT ![s] = "answered"]
        /\ UNCHANGED <<link, bound, answer, stage>>
    BY <1>7 DEF Sign
  <2>2. UNCHANGED verifiedBar
    BY <1>0, <2>1 DEF TypeOK, verifiedBar, Done, ByReference, Verified
  <2>3. CASE ByReference(s)
    <3>1. UNCHANGED answeredBar
      BY <1>0, <2>1, <2>3 DEF TypeOK, answeredBar, Done, ByReference
    <3>2. QED
      BY <1>1, <2>1, <2>2, <3>1
  <2>4. CASE ~ByReference(s)
    <3>1. /\ answer[s].nonce = bound[s].request
          /\ bound[s].request \in Requests
      BY <1>0, <2>1, <2>4, IssuedAreRequests
      DEF IInv, OpInv, AnswersLink, TypeOK, Answered, Verified
    <3>2. verifiedBar[s] = bound[s].request /\ answeredBar[s] = NoRequest
      BY <2>1, <2>4 DEF verifiedBar, answeredBar, Done, Verified
    <3>3. answeredBar' = [answeredBar EXCEPT ![s] = verifiedBar[s]]
      BY <1>0, <2>1, <2>4, <3>1, <3>2 DEF TypeOK, answeredBar, Done, ByReference
    <3>4. Promise!Answer(s)
      BY <1>1, <2>1, <2>2, <3>1, <3>2, <3>3, NoneAssumption
      DEF Promise!Answer, verifiedBar, answeredBar, acceptedBar, AcceptedHere
    <3>5. QED
      BY <3>4 DEF Promise!Next
  <2>5. QED
    BY <2>3, <2>4
<1>8. ASSUME NEW v \in Checks, CheckSignature(v) \/ CheckClaims(v) \/ Reject(v) \/ Break(v)
      PROVE  UNCHANGED <<verifiedBar, answeredBar, acceptedBar>>
  <2>1. \A w \in Checks : stage'[w] = "accepted" => stage[w] = "accepted"
    BY <1>0, <1>8 DEF CheckSignature, CheckClaims, Reject, Break, TypeOK
  <2>2. UNCHANGED <<phase, link, bound, answer>>
    BY <1>8 DEF CheckSignature, CheckClaims, Reject, Break
  <2>3. QED
    BY <2>1, <2>2, AcceptedStutters, SessionsStutter
<1>9. ASSUME NEW v \in Checks, Accept(v)
      PROVE  \/ Promise!Next
             \/ UNCHANGED <<verifiedBar, answeredBar, acceptedBar>>
  <2>1. /\ stage[v] = "presentations" /\ stage' = [stage EXCEPT ![v] = "accepted"]
        /\ UNCHANGED <<phase, link, bound, answer, subject, terms>>
    BY <1>9 DEF Accept
  <2>2. UNCHANGED <<verifiedBar, answeredBar>>
    BY <2>1, SessionsStutter
  <2>3. PICK s \in Sessions, p \in Parties :
          /\ s = subject[v] /\ p = terms[v].party
          /\ phase[s] = "submitted" /\ answer[s].to = p
    BY <1>0, <2>1 DEF IInv, RpInv, TypeOK, Received, RpBusy, Terms
  <2>4. CASE ByReference(s)
    <3>1. AcceptedHere' = AcceptedHere
      BY <1>0, <2>1, <2>3, <2>4 DEF AcceptedHere, ByReference, TypeOK
    <3>2. UNCHANGED acceptedBar
      BY <2>1, <2>3, <3>1 DEF acceptedBar
    <3>3. QED
      BY <2>2, <3>2
  <2>5. CASE ~ByReference(s)
    <3>1. AcceptedHere' = AcceptedHere \cup {v}
      BY <1>0, <2>1, <2>3, <2>5 DEF AcceptedHere, ByReference, TypeOK
    <3>2. acceptedBar' = acceptedBar \cup {<<p, answer[s].nonce>>}
      BY <2>1, <2>3, <3>1 DEF acceptedBar
    <3>3. answeredBar[s] = answer[s].nonce
      BY <2>3, <2>5 DEF answeredBar, Done
    <3>4. /\ answer[s].nonce \in Requests
          /\ Owner[answer[s].nonce] = p
      BY <1>0, <2>3, <2>5, IssuedAreRequests
      DEF IInv, OpInv, AnswersLink, TypeOK, Answered, Verified
    <3>5. Promise!Accept(p, s)
      BY <2>2, <2>3, <3>2, <3>3, <3>4, NoneAssumption
      DEF Promise!Accept, verifiedBar, answeredBar, acceptedBar, AcceptedHere
    <3>6. QED
      BY <3>5 DEF Promise!Next
  <2>6. QED
    BY <2>4, <2>5
<1>10. CASE Tick \/ \E r \in Requests : Publish(r) \/ \E k \in Kinds : Issue(r, k)
  BY <1>2, <1>10 DEF Tick, Publish, Issue
<1>11. CASE UNCHANGED vars
  BY <1>2, <1>11 DEF vars
<1>12. QED
  BY <1>3, <1>4, <1>5, <1>6, <1>7, <1>8, <1>9, <1>10, <1>11
  DEF Next, Environment, OpStep, Answering, RpStep, Checking

THEOREM PromiseKept == Spec => AnswersAsPromised
<1>1. IInv /\ [Next]_vars => [Promise!Next]_(Promise!vars)
  BY PromiseStep DEF Promise!vars, verifiedBar, answeredBar, acceptedBar, AcceptedHere
<1>2. QED
  BY <1>1, PromiseInit, Invariant, PTL DEF Spec, AnswersAsPromised, Promise!Spec

=============================================================================
