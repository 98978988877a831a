-------------------- MODULE PresentationVerification_proofs --------------------
(***************************************************************************)
(* Proofs about PresentationVerification, for responses with any number of *)
(* presentations of any formats.                                           *)
(***************************************************************************)
EXTENDS PresentationVerification, Selections_proofs

(***************************************************************************)
(* Data: what the OP extracts is a response, and the calls of a callback   *)
(* are calls.                                                              *)
(***************************************************************************)
Verdict == {"pending", "verified", "refuted", "failed"}

LEMMA ResponsesAreSequences == Responses \subseteq Seq(Presentation)
  BY BoundsAssumption DEF Responses

LEMMA ExtractedType ==
  ASSUME NEW vps \in Seq(Presentation), NEW submission \in BOOLEAN
  PROVE  Extracted(vps, submission) \in Seq(Sent)
<1>1. ASSUME NEW location PROVE InLocation(vps, location) \in Seq(Sent)
  <2> DEFINE T == {vp \in Presentation : vp.location = location}
  <2>1. Kept(vps, T) \in Seq(Presentation \cap T)
    BY KeptElements
  <2>2. Presentation \cap T \subseteq Sent
    BY DEF Sent
  <2>3. QED
    BY <2>1, <2>2 DEF InLocation
<1>2. VpToken(vps) \in Seq(Sent)
  BY <1>1 DEF VpToken
<1>3. <<>> \in Seq(Sent) /\ <<Submission>> \in Seq(Sent)
  BY DEF Sent
<1>4. QED
  BY <1>2, <1>3 DEF Extracted

LEMMA NewCallsType ==
  ASSUME NEW S, NEW vps \in Seq(S), NEW defs, NEW callback
  PROVE  NewCalls(defs, vps, callback) \in Seq(Verdict)
<1>1. Len(vps) * Len(vps) \in Nat
  OBVIOUS
<1>2. QED
  BY <1>1 DEF NewCalls, Verdict

\* At least two of any three definitions are the same.
LEMMA DefinitionsFinite ==
  ASSUME NEW D \in SUBSET Definitions
  PROVE  /\ IsFiniteSet(D)
         /\ (\A d, e \in D : d = e) => Cardinality(D) <= 1
<1>1. IsFiniteSet({ClaimsDefinition}) /\ IsFiniteSet({TopLevelDefinition})
  BY FS_Singleton
<1>2. IsFiniteSet({ClaimsDefinition} \cup {TopLevelDefinition})
  BY <1>1, FS_AddElement
<1>3. IsFiniteSet(D)
  BY <1>2, FS_Subset DEF Definitions
<1>4. ASSUME \A d, e \in D : d = e PROVE Cardinality(D) <= 1
  <2>1. CASE D = {}
    BY <2>1, FS_EmptySet
  <2>2. ASSUME NEW d \in D PROVE D = {d}
    BY <1>4
  <2>3. QED
    BY <2>1, <2>2, FS_Singleton
<1>5. QED
  BY <1>3, <1>4

(***************************************************************************)
(* The version discovery and the definitions: a request with a version has *)
(* no definition in both places, and one that has it in one has it found.  *)
(***************************************************************************)
LEMMA OneDefinitionFound ==
  ASSUME NEW r \in Request, HasVersion(r), Exclusive(r)
  PROVE  /\ Cardinality(DefinitionsOf(r)) <= 1
         /\ r.vpToken # {} => ClaimsDefinition \in DefinitionsOf(r)
         /\ r.topLevel # {} => TopLevelDefinition \in DefinitionsOf(r)
<1>1. r.vpToken # {} => r.claims = "vp_token"
  BY DEF Request
<1>2. \A d, e \in DefinitionsOf(r) : d = e
  BY <1>1, DefinitionsAssumption DEF DefinitionsOf, Definitions, HasVersion, IsDraft1, IsDraft11
<1>3. DefinitionsOf(r) \in SUBSET Definitions
  BY DEF DefinitionsOf
<1>4. Cardinality(DefinitionsOf(r)) <= 1
  BY <1>2, <1>3, DefinitionsFinite
<1>5. QED
  BY <1>1, <1>4 DEF DefinitionsOf, Definitions, IsDraft11

(***************************************************************************)
(* What matches answers exactly the definitions, each of them once.        *)
(***************************************************************************)
LEMMA MatchMeaning ==
  ASSUME NEW defs \in SUBSET Definitions, NEW vps \in Seq(Sent), Matches(defs, vps)
  PROVE  /\ defs = {vps[i].answers : i \in DOMAIN vps}
         /\ Len(vps) = Cardinality(defs)
<1>1. CASE NothingAsked(defs, vps)
  <2>1. defs = {} /\ DOMAIN vps = {} /\ Len(vps) = 0
    BY <1>1 DEF NothingAsked
  <2>2. QED
    BY <2>1, FS_EmptySet
<1>2. CASE CountsAgree(defs, vps) /\ SingleMatch(defs, vps)
  <2>1. Cardinality(defs) = 1 /\ Len(vps) = 1 /\ vps[1].answers \in defs
    BY <1>2 DEF CountsAgree, SingleMatch
  <2>2. IsFiniteSet(defs)
    BY DefinitionsFinite
  <2>3. PICK d : defs = {d}
    BY <2>1, <2>2, FS_Singleton
  <2>4. DOMAIN vps = {1}
    BY <2>1
  <2>5. QED
    BY <2>1, <2>3, <2>4
<1>3. QED
  BY <1>1, <1>2 DEF Matches

-----------------------------------------------------------------------------

(***************************************************************************)
(* Type correctness, with the order of the verification: nothing is        *)
(* matched before the OP has answered, nor counted before it is matched.   *)
(***************************************************************************)
Matched == {"status", "asking", "accepted", "rejected"}

Ordered ==
  /\ rp # "waiting" => op = "answered"
  /\ rp \notin Matched => checked = 0 /\ asked = <<>>
  /\ rp = "asking" => checked < Len(response) /\ asked # <<>>

TypeInv == TypeOK /\ Ordered

LEMMA TypeInit == Init => TypeInv
  BY DEF Init, TypeInv, TypeOK, Ordered, NoDemand, Demand, Definitions, Sides, Sent, Matched

LEMMA TypeStep == TypeInv /\ [Next]_vars => TypeInv'
<1> SUFFICES ASSUME TypeInv, [Next]_vars PROVE TypeInv'
  OBVIOUS
<1> USE DEF TypeInv, TypeOK, Ordered, Matched, opVars, rpVars, ioVars
<1>1. CASE FindDefinitions
  BY <1>1 DEF FindDefinitions, DefinitionsOf
<1>2. CASE FindFails
  BY <1>2 DEF FindFails
<1>3. ASSUME NEW vps \in Responses, NEW submission \in BOOLEAN, NEW callback \in BOOLEAN,
             Respond(vps, submission, callback)
      PROVE  TypeInv'
  <2>1. Extracted(vps, submission) \in Seq(Sent)
    BY ResponsesAreSequences, ExtractedType
  <2>2. NewCalls(definitions, Extracted(vps, submission), callback) \in Seq(Verdict)
    BY <2>1, NewCallsType
  <2>3. calls' \in [Sides -> Seq(Verdict)]
    BY <1>3, <2>2 DEF Respond, Verdict
  <2>4. QED
    BY <1>3, <2>1, <2>3 DEF Respond, Verdict
<1>4. ASSUME NEW vps \in Responses, NEW submission \in BOOLEAN, NEW callback \in BOOLEAN,
             RespondFails(vps, submission, callback)
      PROVE  TypeInv'
  <2>1. Extracted(vps, submission) \in Seq(Sent)
    BY ResponsesAreSequences, ExtractedType
  <2>2. NewCalls(definitions, Extracted(vps, submission), callback) \in Seq(Verdict)
    BY <2>1, NewCallsType
  <2>3. <<>> \in Seq(Verdict)
    OBVIOUS
  <2>4. PICK made \in Seq(Verdict) : calls' = [calls EXCEPT !["op"] = made]
    BY <1>4, <2>2, <2>3 DEF RespondFails
  <2>5. calls' \in [Sides -> Seq(Verdict)]
    BY <2>4 DEF Verdict
  <2>6. QED
    BY <1>4, <2>5 DEF RespondFails, Verdict
<1>5. ASSUME NEW d \in Demand, NEW callback \in BOOLEAN, Receive(d, callback)
      PROVE  TypeInv'
  BY <1>5 DEF Receive
<1>6. CASE Match
  <2>1. \A valid : NewCalls(demand.definitions, response, valid) \in Seq(Verdict)
    BY NewCallsType
  <2>2. calls' \in [Sides -> Seq(Verdict)]
    BY <1>6, <2>1 DEF Match, Verdict
  <2>3. QED
    BY <1>6, <2>2 DEF Match, Verdict
<1>7. CASE Accept \/ RejectStatus
  BY <1>7 DEF Accept, RejectStatus
<1>8. CASE AskStatus
  BY <1>8 DEF AskStatus, Unchecked
<1>9. CASE SkipStatus
  BY <1>9 DEF SkipStatus, Unchecked
<1>10. ASSUME NEW status \in {"valid", "invalid", "failed"}, LearnStatus(status)
       PROVE  TypeInv'
  <2> DEFINE Answer == [about: {"undefined", "credential"},
                        status: {"pending", "valid", "invalid", "failed"}]
  <2>1. asked \in Seq(Answer) /\ Len(asked) \in DOMAIN asked /\ rp = "asking"
    BY <1>10 DEF LearnStatus
  <2>2. asked[Len(asked)] \in Answer
    <3> HIDE DEF Answer
    <3>1. QED
      BY <2>1
  <2>3. [asked[Len(asked)] EXCEPT !.status = status] \in Answer
    BY <2>2
  <2>4. asked' = [asked EXCEPT ![Len(asked)] =
                    [asked[Len(asked)] EXCEPT !.status = status]]
    BY <1>10 DEF LearnStatus
  <2>5. asked' \in Seq(Answer)
    <3> HIDE DEF Answer
    <3>1. QED
      BY <2>1, <2>3, <2>4
  <2>6. checked' \in 0..Len(response) /\ rp' \in {"status", "rejected"}
    BY <1>10 DEF LearnStatus
  <2>7. QED
    BY <1>10, <2>1, <2>5, <2>6 DEF LearnStatus
<1>11. ASSUME NEW side \in Sides, NEW i \in 1..MaxPresentations * MaxPresentations,
              NEW verdict \in {"verified", "refuted", "failed"}, Settle(side, i, verdict)
       PROVE  TypeInv'
  BY <1>11 DEF Settle
<1>12. CASE UNCHANGED vars
  BY <1>12 DEF vars
<1>13. QED
  BY <1>1, <1>2, <1>3, <1>4, <1>5, <1>6, <1>7, <1>8, <1>9, <1>10, <1>11, <1>12
  DEF Next, OpStep, RpStep, CallbackStep

THEOREM TypeCorrect == Spec => []TypeOK
<1>1. TypeInv => TypeOK
  BY DEF TypeInv
<1>2. QED
  BY <1>1, TypeInit, TypeStep, PTL DEF Spec

-----------------------------------------------------------------------------

(***************************************************************************)
(* What the OP has found is what its version of the request may contain,   *)
(* of a request that it has a version for.                                 *)
(***************************************************************************)
OpInv ==
  /\ op \in {"verifying", "refused"} => definitions = {}
  /\ op \in {"verified", "answered", "failed"} =>
       HasVersion(request) /\ Exclusive(request) /\ definitions = DefinitionsOf(request)

(***************************************************************************)
(* What is answered has been matched by the OP, and by the RP before it    *)
(* looks into the status of a credential; definitions that the OP has      *)
(* found are valid.                                                        *)
(***************************************************************************)
MatchInv ==
  /\ op = "answered" => Matches(definitions, response)
  /\ rp = "mismatched" => ~(/\ demand.definitions \subseteq definitions
                            /\ Matches(demand.definitions, response))
  /\ rp \in {"status", "asking", "accepted"} => Matches(demand.definitions, response)

(***************************************************************************)
(* Of the presentations checked so far, those in JSON-LD are as many as    *)
(* the valid answers; a call that is under way is for the next of them.    *)
(***************************************************************************)
ValidAnswers == {i \in DOMAIN asked : asked[i].status = "valid"}
CheckedLD    == {i \in 1..checked : response[i].format = "ldp_vp"}

StatusInv ==
  /\ rp \in {"status", "asking", "accepted"} /\ demand.mode = "always" =>
       Cardinality(ValidAnswers) = Cardinality(CheckedLD)
  /\ rp = "asking" => /\ asked[Len(asked)].status = "pending"
                      /\ response[checked + 1].format = "ldp_vp"
  /\ rp = "accepted" /\ demand.mode = "always" => checked = Len(response)

IInv == TypeInv /\ OpInv /\ MatchInv /\ StatusInv

LEMMA InvInit == Init => IInv
<1> SUFFICES ASSUME Init PROVE IInv
  OBVIOUS
<1>1. QED
  BY TypeInit DEF Init, IInv, OpInv, MatchInv, StatusInv

LEMMA OpStepInv == TypeInv /\ OpInv /\ [Next]_vars => OpInv'
<1> SUFFICES ASSUME TypeInv, OpInv, [Next]_vars PROVE OpInv'
  OBVIOUS
<1> USE DEF OpInv, opVars, rpVars, ioVars
<1>1. CASE FindDefinitions
  <2>1. op' = "verified" /\ request' = request /\ definitions' = DefinitionsOf(request)
        /\ HasVersion(request) /\ Exclusive(request)
    BY <1>1 DEF FindDefinitions
  <2>2. QED
    BY <2>1
<1>2. CASE FindFails
  BY <1>2 DEF FindFails
<1>3. ASSUME NEW vps \in Responses, NEW submission \in BOOLEAN, NEW callback \in BOOLEAN,
             Respond(vps, submission, callback) \/ RespondFails(vps, submission, callback)
      PROVE  OpInv'
  <2>1. op = "verified" /\ op' \in {"answered", "failed"}
        /\ UNCHANGED <<request, definitions>>
    BY <1>3 DEF Respond, RespondFails
  <2>2. QED
    BY <2>1
<1>4. CASE UNCHANGED <<request, opVars>>
  BY <1>4
<1>5. QED
  BY <1>1, <1>2, <1>3, <1>4
  DEF Next, OpStep, RpStep, CallbackStep, vars, Receive, Match, Accept, RejectStatus,
      AskStatus, SkipStatus, LearnStatus, Settle

LEMMA MatchStepInv == TypeInv /\ MatchInv /\ [Next]_vars => MatchInv'
<1> SUFFICES ASSUME TypeInv, MatchInv, [Next]_vars PROVE MatchInv'
  OBVIOUS
<1> USE DEF MatchInv, TypeInv, Ordered, opVars, rpVars, ioVars
<1>1. CASE FindDefinitions
  BY <1>1 DEF FindDefinitions
<1>2. CASE FindFails
  BY <1>2 DEF FindFails
<1>3. ASSUME NEW vps \in Responses, NEW submission \in BOOLEAN, NEW callback \in BOOLEAN,
             Respond(vps, submission, callback)
      PROVE  MatchInv'
  <2>1. Matches(definitions', response') /\ rp' = "waiting"
    BY <1>3 DEF Respond, Answerable, TypeOK
  <2>2. QED
    BY <2>1
<1>4. ASSUME NEW vps \in Responses, NEW submission \in BOOLEAN, NEW callback \in BOOLEAN,
             RespondFails(vps, submission, callback)
      PROVE  MatchInv'
  BY <1>4 DEF RespondFails
<1>5. ASSUME NEW d \in Demand, NEW callback \in BOOLEAN, Receive(d, callback)
      PROVE  MatchInv'
  BY <1>5 DEF Receive
<1>6. CASE Match
  BY <1>6 DEF Match
<1>7. CASE Accept \/ RejectStatus \/ AskStatus \/ SkipStatus
  BY <1>7 DEF Accept, RejectStatus, AskStatus, SkipStatus
<1>8. ASSUME NEW status \in {"valid", "invalid", "failed"}, LearnStatus(status)
      PROVE  MatchInv'
  BY <1>8 DEF LearnStatus
<1>9. ASSUME NEW side \in Sides, NEW i \in 1..MaxPresentations * MaxPresentations,
             NEW verdict \in {"verified", "refuted", "failed"}, Settle(side, i, verdict)
      PROVE  MatchInv'
  BY <1>9 DEF Settle
<1>10. CASE UNCHANGED vars
  BY <1>10 DEF vars
<1>11. QED
  BY <1>1, <1>2, <1>3, <1>4, <1>5, <1>6, <1>7, <1>8, <1>9, <1>10
  DEF Next, OpStep, RpStep, CallbackStep

(***************************************************************************)
(* The two counts change together: the next presentation is counted when   *)
(* the answer to the last call is, and one in another format is not.       *)
(***************************************************************************)
LEMMA CountedTogether ==
  ASSUME TypeInv, StatusInv, demand.mode = "always", LearnStatus("valid")
  PROVE  Cardinality(ValidAnswers') = Cardinality(CheckedLD')
<1>1. /\ Len(asked) \in Nat \ {0} /\ DOMAIN asked = 1..Len(asked)
      /\ checked \in Nat /\ checked' = checked + 1
      /\ response' = response /\ response[checked + 1].format = "ldp_vp"
      /\ asked[Len(asked)].status = "pending"
  BY DEF TypeInv, TypeOK, Ordered, StatusInv, LearnStatus, opVars
<1>2. /\ DOMAIN asked' = DOMAIN asked
      /\ \A i \in DOMAIN asked : i # Len(asked) => asked'[i] = asked[i]
      /\ asked'[Len(asked)].status = "valid"
  <2>1. asked' = [asked EXCEPT ![Len(asked)] =
                    [asked[Len(asked)] EXCEPT !.status = "valid"]]
    BY DEF LearnStatus
  <2>2. PICK a \in [about: {"undefined", "credential"},
                    status: {"pending", "valid", "invalid", "failed"}] :
          asked[Len(asked)] = a
    <3> DEFINE Answer == [about: {"undefined", "credential"},
                          status: {"pending", "valid", "invalid", "failed"}]
    <3>1. asked \in Seq(Answer)
      BY DEF TypeInv, TypeOK
    <3>2. asked[Len(asked)] \in Answer
      <4> HIDE DEF Answer
      <4>1. QED
        BY <1>1, <3>1
    <3>3. QED
      BY <3>2
  <2>3. [asked[Len(asked)] EXCEPT !.status = "valid"].status = "valid"
    BY <2>2
  <2>4. QED
    BY <1>1, <2>1, <2>3
<1>3. ValidAnswers' = ValidAnswers \cup {Len(asked)} /\ Len(asked) \notin ValidAnswers
  BY <1>1, <1>2 DEF ValidAnswers
<1>4. CheckedLD' = CheckedLD \cup {checked + 1} /\ checked + 1 \notin CheckedLD
  BY <1>1 DEF CheckedLD
<1>5. IsFiniteSet(ValidAnswers) /\ IsFiniteSet(CheckedLD)
  <2>1. IsFiniteSet(1..Len(asked)) /\ IsFiniteSet(1..checked)
    BY <1>1, FS_Interval
  <2>2. QED
    BY <1>1, <2>1, FS_Subset DEF ValidAnswers, CheckedLD
<1>6. Cardinality(ValidAnswers) = Cardinality(CheckedLD)
  <2>1. rp = "asking"
    BY DEF LearnStatus
  <2>2. QED
    BY <2>1 DEF StatusInv
<1>7. \A S, x : IsFiniteSet(S) /\ x \notin S => Cardinality(S \cup {x}) = Cardinality(S) + 1
  BY FS_AddElement
<1>8. /\ Cardinality(ValidAnswers') = Cardinality(ValidAnswers) + 1
      /\ Cardinality(CheckedLD') = Cardinality(CheckedLD) + 1
  <2>1. Cardinality(ValidAnswers \cup {Len(asked)}) = Cardinality(ValidAnswers) + 1
    BY <1>3, <1>5, <1>7
  <2>2. Cardinality(CheckedLD \cup {checked + 1}) = Cardinality(CheckedLD) + 1
    BY <1>4, <1>5, <1>7
  <2>3. QED
    BY <1>3, <1>4, <2>1, <2>2, Zenon
<1>9. QED
  BY <1>6, <1>8

LEMMA StatusStepInv == TypeInv /\ StatusInv /\ [Next]_vars => StatusInv'
<1> SUFFICES ASSUME TypeInv, StatusInv, [Next]_vars PROVE StatusInv'
  OBVIOUS
<1> USE DEF TypeInv, Ordered, Matched, opVars, rpVars, ioVars
<1>1. ASSUME rp' \notin {"status", "asking", "accepted"} PROVE StatusInv'
  BY <1>1 DEF StatusInv
<1>2. CASE OpStep
  <2>1. rp = "waiting" /\ rp' = "waiting"
    BY <1>2 DEF OpStep, FindDefinitions, FindFails, Respond, RespondFails
  <2>2. QED
    BY <1>1, <2>1
<1>3. ASSUME NEW d \in Demand, NEW callback \in BOOLEAN, Receive(d, callback)
      PROVE  StatusInv'
  BY <1>1, <1>3 DEF Receive
<1>4. CASE Match
  <2>1. checked' = 0 /\ asked' = <<>>
    BY <1>4 DEF Match
  <2>2. ValidAnswers' = {} /\ CheckedLD' = {}
    BY <2>1 DEF ValidAnswers, CheckedLD
  <2>3. QED
    BY <1>1, <1>4, <2>2 DEF Match, StatusInv
<1>5. CASE Accept
  <2>1. ValidAnswers' = ValidAnswers /\ CheckedLD' = CheckedLD
    BY <1>5 DEF Accept, ValidAnswers, CheckedLD
  <2>2. demand.mode = "always" => checked = Len(response)
    BY <1>5 DEF Accept, Unchecked, TypeOK
  <2>3. QED
    BY <1>5, <2>1, <2>2 DEF Accept, StatusInv
<1>6. CASE RejectStatus
  BY <1>1, <1>6 DEF RejectStatus
<1>7. CASE AskStatus
  <2> DEFINE call == [about |-> "undefined", status |-> "pending"]
  <2>1. /\ Len(asked) \in Nat /\ DOMAIN asked = 1..Len(asked)
        /\ DOMAIN asked' = 1..Len(asked) + 1 /\ Len(asked') = Len(asked) + 1
        /\ \A i \in DOMAIN asked : asked'[i] = asked[i]
        /\ asked'[Len(asked) + 1] = call
    BY <1>7 DEF AskStatus, TypeOK
  <2>2. ValidAnswers' = ValidAnswers
    BY <2>1 DEF ValidAnswers
  <2>3. CheckedLD' = CheckedLD
    BY <1>7 DEF AskStatus, CheckedLD
  <2>4. QED
    BY <1>7, <2>1, <2>2, <2>3 DEF AskStatus, StatusInv
<1>8. CASE SkipStatus
  <2>1. ValidAnswers' = ValidAnswers
    BY <1>8 DEF SkipStatus, ValidAnswers
  <2>2. ASSUME demand.mode = "always" PROVE CheckedLD' = CheckedLD
    <3>1. /\ response[checked + 1].format = "jwt_vp" /\ checked \in Nat
          /\ checked' = checked + 1 /\ response' = response
      BY <1>8, <2>2 DEF SkipStatus, TypeOK
    <3>2. QED
      BY <3>1 DEF CheckedLD
  <2>3. QED
    BY <1>8, <2>1, <2>2 DEF SkipStatus, StatusInv
<1>9. ASSUME NEW status \in {"valid", "invalid", "failed"}, LearnStatus(status)
      PROVE  StatusInv'
  <2>1. CASE status = "valid"
    <3>1. rp' = "status" /\ demand' = demand
      BY <1>9, <2>1 DEF LearnStatus
    <3>2. QED
      BY <1>9, <2>1, <3>1, CountedTogether DEF StatusInv
  <2>2. CASE status # "valid"
    BY <1>1, <1>9, <2>2 DEF LearnStatus
  <2>3. QED
    BY <2>1, <2>2
<1>10. ASSUME UNCHANGED <<response, rpVars>> PROVE StatusInv'
  <2>1. ValidAnswers' = ValidAnswers /\ CheckedLD' = CheckedLD
    BY <1>10 DEF ValidAnswers, CheckedLD
  <2>2. QED
    BY <1>10, <2>1 DEF StatusInv
<1>11. QED
  BY <1>2, <1>3, <1>4, <1>5, <1>6, <1>7, <1>8, <1>9, <1>10
  DEF Next, RpStep, CallbackStep, Settle, vars

LEMMA InvStep == IInv /\ [Next]_vars => IInv'
  BY TypeStep, OpStepInv, MatchStepInv, StatusStepInv DEF IInv

LEMMA Invariance == Spec => []IInv
  BY InvInit, InvStep, PTL DEF Spec

-----------------------------------------------------------------------------

(***************************************************************************)
(* Whatever the payload of a request contains, the version discovery lets  *)
(* at most one definition through.                                         *)
(***************************************************************************)
THEOREM OneDefinitionFoundAtMost == Spec => []OneDefinitionAtMost
<1>1. IInv => OneDefinitionAtMost
  <2> SUFFICES ASSUME IInv, op # "verifying" PROVE Cardinality(definitions) <= 1
    BY DEF OneDefinitionAtMost
  <2>1. CASE op = "refused"
    BY <2>1, FS_EmptySet DEF IInv, OpInv
  <2>2. CASE op \in {"verified", "answered", "failed"}
    BY <2>2, OneDefinitionFound DEF IInv, OpInv, TypeInv, TypeOK
  <2>3. QED
    BY <2>1, <2>2 DEF IInv, TypeInv, TypeOK
<1>2. QED
  BY <1>1, Invariance, PTL

(***************************************************************************)
(* In a request that is verified as some version, no definition is         *)
(* overlooked, in the claims or at the top level.                          *)
(***************************************************************************)
THEOREM EveryDefinitionFound == Spec => []NoDefinitionOverlooked
<1>1. IInv => NoDefinitionOverlooked
  BY OneDefinitionFound DEF IInv, OpInv, TypeInv, TypeOK, NoDefinitionOverlooked
<1>2. QED
  BY <1>1, Invariance, PTL

(***************************************************************************)
(* Matching is the same on both sides: an RP that demands the definitions  *)
(* the OP has found does not call the OP's response mismatched.            *)
(***************************************************************************)
THEOREM SidesAlwaysAgree == Spec => []SidesAgree
<1>1. IInv => SidesAgree
  BY DEF IInv, MatchInv, TypeInv, Ordered, SidesAgree
<1>2. QED
  BY <1>1, Invariance, PTL

(***************************************************************************)
(* A response the RP accepts answers exactly the definitions it demands,   *)
(* each once, however many presentations the OP was given.                 *)
(***************************************************************************)
THEOREM AcceptedMeetsDemand == Spec => []AcceptedAnswersDemand
<1>1. IInv => AcceptedAnswersDemand
  <2> SUFFICES ASSUME IInv, rp = "accepted"
               PROVE  /\ demand.definitions = {response[i].answers : i \in DOMAIN response}
                      /\ Len(response) = Cardinality(demand.definitions)
    BY DEF AcceptedAnswersDemand
  <2>1. Matches(demand.definitions, response)
    BY DEF IInv, MatchInv
  <2>2. response \in Seq(Sent) /\ demand.definitions \in SUBSET Definitions
    BY DEF IInv, TypeInv, TypeOK, Demand
  <2>3. QED
    BY <2>1, <2>2, MatchMeaning
<1>2. QED
  BY <1>1, Invariance, PTL

(***************************************************************************)
(* With revocation checks always on, a response is accepted only with as   *)
(* many answers "valid" of the status callback as it has JSON-LD           *)
(* presentations.                                                          *)
(***************************************************************************)
THEOREM AcceptedWithStatus == Spec => []AcceptedWithValidStatus
<1>1. IInv => AcceptedWithValidStatus
  <2> SUFFICES ASSUME IInv, rp = "accepted", demand.mode = "always"
               PROVE  Cardinality(ValidAnswers) =
                        Cardinality({i \in DOMAIN response : response[i].format = "ldp_vp"})
    BY DEF AcceptedWithValidStatus, ValidAnswers
  <2>1. CheckedLD = {i \in DOMAIN response : response[i].format = "ldp_vp"}
    BY DEF IInv, StatusInv, TypeInv, TypeOK, CheckedLD
  <2>2. QED
    BY <2>1 DEF IInv, StatusInv
<1>2. QED
  BY <1>1, Invariance, PTL

=============================================================================
