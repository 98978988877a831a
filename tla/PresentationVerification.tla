---------------------- MODULE PresentationVerification ----------------------
(***************************************************************************)
(* The presentations of one exchange: the OP finds the definition in a     *)
(* verified request and answers it, and the RP matches what it is sent     *)
(* with what it demands and then checks the status of the credentials.     *)
(*                                                                         *)
(* The callbacks that verify presentations are called by an asynchronous   *)
(* predicate of a synchronous filter, so nobody waits for them: a call is  *)
(* pending until it settles, at any time, and the match goes on.  Where it *)
(* fails, nobody handles the rejection, which may end the process.         *)
(***************************************************************************)
EXTENDS Selections, FiniteSets

CONSTANTS
  ClaimsDefinition,    \* the definition in claims.vp_token
  TopLevelDefinition,  \* the one in presentation_definition
  NoDefinition,
  Formats,             \* formats of presentations
  MaxPresentations     \* bound: how many an OP puts into a response

ASSUME DefinitionsAssumption ==
  /\ ClaimsDefinition # TopLevelDefinition
  /\ NoDefinition \notin {ClaimsDefinition, TopLevelDefinition}
ASSUME BoundsAssumption == /\ MaxPresentations \in Nat
                           /\ Formats \subseteq {"ldp_vp", "jwt_vp", "other"}

Definitions == {ClaimsDefinition, TopLevelDefinition}
How         == {"value", "uri"}
Sides       == {"op", "rp"}

\* The parts of a merged request payload that version and definitions rest on.
Request == {r \in [claims: {"absent", "without", "vp_token"},
                   vpToken: SUBSET How, topLevel: SUBSET How,
                   metadata: {"registration", "client_metadata", "none"}] :
              r.claims = "vp_token" \/ r.vpToken = {}}

Presentation == [location: {"vp_token", "id_token"}, format: Formats,
                 answers: Definitions \cup {NoDefinition}]

\* What an ID token's _vp_token is extracted as: no presentation at all.
Submission == [location |-> "id_token", format |-> "undefined",
               answers |-> NoDefinition]

\* revocationVerification, "absent" where there are no revocationOpts.
Demand == [definitions: SUBSET Definitions, statusCallback: BOOLEAN,
           mode: {"never", "if_present", "always", "undefined", "absent"}]

VARIABLES
  request,      \* the payload the OP verifies
  op,           \* how far the OP is
  definitions,  \* what it has found in the request
  response,     \* the presentations the response contains
  rp,           \* how far the verification of the response is
  demand,       \* the options of this verification
  checked,      \* of how many presentations the status has been checked
  asked,        \* history: about what the status callback was asked
  calls,        \* the calls of the verification callback of each side
  stopped       \* the sides whose process an unhandled rejection has ended

opVars == <<op, definitions, response>>
rpVars == <<rp, demand, checked, asked>>
ioVars == <<calls, stopped>>
vars   == <<request, opVars, rpVars, ioVars>>

NoDemand == [definitions |-> {}, statusCallback |-> FALSE, mode |-> "absent"]

Init ==
  /\ request \in Request
  /\ op = "verifying" /\ definitions = {} /\ response = <<>>
  /\ rp = "waiting" /\ demand = NoDemand /\ checked = 0 /\ asked = <<>>
  /\ calls = [side \in Sides |-> <<>>] /\ stopped = {}

-----------------------------------------------------------------------------
(***************************************************************************)
(* Version and definitions of a request.                                   *)
(***************************************************************************)

\* Faulty variant: what belongs to draft 11 does not rule out draft 1.
IsDraft1Always(r) == TRUE

IsDraft1(r) == r.metadata # "client_metadata" /\ r.topLevel = {}

\* Faulty variant: a definition in the claims does not rule out draft 11.
IsDraft11WithClaims(r) == r.metadata # "registration"

IsDraft11(r) == r.metadata # "registration" /\ r.claims # "vp_token"

\* claims["vp_token"] of no claims is a TypeError.
HasVersion(r) == /\ r.metadata # "registration" => r.claims # "absent"
                 /\ IsDraft11(r) \/ IsDraft1(r)

\* By value and by reference exclude each other, and draft 11 has no claims.
Exclusive(r) == /\ IsDraft11(r) \/ r.vpToken # How
                /\ r.topLevel # How

DefinitionsOf(r) ==
  {d \in Definitions :
     \/ d = ClaimsDefinition /\ ~IsDraft11(r) /\ r.vpToken # {}
     \/ d = TopLevelDefinition /\ r.topLevel # {}}

FindDefinitions ==
  /\ op = "verifying"
  /\ HasVersion(request) /\ Exclusive(request)
  /\ op' = "verified"
  /\ definitions' = DefinitionsOf(request)
  /\ UNCHANGED <<request, response, rpVars, ioVars>>

\* No version, both ways at once, or a definition that cannot be fetched or
\* is not valid.
FindFails ==
  /\ op = "verifying"
  /\ ~HasVersion(request) \/ ~Exclusive(request) \/ DefinitionsOf(request) # {}
  /\ op' = "refused"
  /\ UNCHANGED <<request, definitions, response, rpVars, ioVars>>

-----------------------------------------------------------------------------
(***************************************************************************)
(* Matching presentations with definitions, which both sides do.           *)
(***************************************************************************)
NothingAsked(defs, vps) == defs = {} /\ vps = <<>>
CountsAgree(defs, vps)  == defs # {} /\ Cardinality(defs) = Len(vps)

\* The filter keeps every presentation, so there must be only one.
SingleMatch(defs, vps) == Len(vps) = 1 /\ vps[1].answers \in defs

\* Faulty variant: the presentations are not counted.
MatchesAny(defs, vps) ==
  \/ NothingAsked(defs, vps)
  \/ \E i \in DOMAIN vps : vps[i].answers \in defs

Matches(defs, vps) ==
  \/ NothingAsked(defs, vps)
  \/ CountsAgree(defs, vps) /\ SingleMatch(defs, vps)

\* Each definition has the callback called with each presentation.
NewCalls(defs, vps, callback) ==
  IF callback /\ CountsAgree(defs, vps)
    THEN [i \in 1..Len(vps) * Len(vps) |-> "pending"] ELSE <<>>

-----------------------------------------------------------------------------
(***************************************************************************)
(* The OP's response.                                                      *)
(***************************************************************************)
InLocation(vps, location) ==
  Kept(vps, {vp \in Presentation : vp.location = location})

\* Presentations for the ID token become the vp_token, or get lost.
VpToken(vps) == IF InLocation(vps, "vp_token") = <<>>
                  THEN InLocation(vps, "id_token") ELSE InLocation(vps, "vp_token")

Extracted(vps, submission) ==
  VpToken(vps) \o IF submission THEN <<Submission>> ELSE <<>>

\* Faulty variant: what is matched is what the application gave.
AnswerableBeforehand(vps, submission) ==
  /\ Len(InLocation(vps, "vp_token")) <= 1
  /\ Matches(definitions, vps)

Answerable(vps, submission) ==
  /\ Len(InLocation(vps, "vp_token")) <= 1
  /\ Matches(definitions, Extracted(vps, submission))

Respond(vps, submission, callback) ==
  /\ op = "verified"
  /\ Answerable(vps, submission)
  /\ op' = "answered"
  /\ response' = Extracted(vps, submission)
  /\ calls' = [calls EXCEPT !["op"] =
                 NewCalls(definitions, Extracted(vps, submission), callback)]
  /\ UNCHANGED <<request, definitions, rpVars, stopped>>

RespondFails(vps, submission, callback) ==
  /\ op = "verified"
  /\ ~Answerable(vps, submission)
  /\ op' = "failed"
  /\ calls' = [calls EXCEPT !["op"] =
                 IF Len(InLocation(vps, "vp_token")) > 1 THEN <<>>
                 ELSE NewCalls(definitions, Extracted(vps, submission), callback)]
  /\ UNCHANGED <<request, definitions, response, rpVars, stopped>>

-----------------------------------------------------------------------------
(***************************************************************************)
(* The RP's verification of the response.                                  *)
(***************************************************************************)
Receive(d, callback) ==
  /\ op = "answered" /\ rp = "waiting"
  /\ rp' = IF callback THEN "matching" ELSE "rejected"
  /\ demand' = d
  /\ UNCHANGED <<request, opVars, checked, asked, ioVars>>

\* The definitions of the OP are valid, any others need not be.
Match ==
  /\ rp = "matching"
  /\ \E valid \in BOOLEAN :
       /\ demand.definitions \subseteq definitions => valid
       /\ rp' = IF valid /\ Matches(demand.definitions, response)
                  THEN "status" ELSE "mismatched"
       /\ calls' = [calls EXCEPT !["rp"] =
                      NewCalls(demand.definitions, response, valid)]
  /\ UNCHANGED <<request, opVars, demand, checked, asked, stopped>>

\* The presentations whose status is still to be checked.
Unchecked == demand.mode # "never" /\ checked < Len(response)

\* Faulty variant: the callbacks are waited for.
AcceptSettled ==
  /\ rp = "status" /\ ~Unchecked
  /\ \A i \in DOMAIN calls["rp"] : calls["rp"][i] # "pending"
  /\ rp' = "accepted"
  /\ UNCHANGED <<request, opVars, demand, checked, asked, ioVars>>

Accept ==
  /\ rp = "status" /\ ~Unchecked
  /\ rp' = "accepted"
  /\ UNCHANGED <<request, opVars, demand, checked, asked, ioVars>>

(***************************************************************************)
(* verifyRevocation is given the presentation in its envelope and takes    *)
(* the credentials of the envelope, which are undefined: their status is   *)
(* asked for when it always is, and looking into them is a TypeError.      *)
(***************************************************************************)
StatusFails ==
  \/ demand.mode = "absent" \/ ~demand.statusCallback
  \/ response[checked + 1].format \notin {"ldp_vp", "jwt_vp"}
  \/ response[checked + 1].format = "ldp_vp" /\ demand.mode = "if_present"

RejectStatus ==
  /\ rp = "status" /\ Unchecked /\ StatusFails
  /\ rp' = "rejected"
  /\ UNCHANGED <<request, opVars, demand, checked, asked, ioVars>>

AskStatus ==
  /\ rp = "status" /\ Unchecked /\ ~StatusFails
  /\ demand.mode = "always" /\ response[checked + 1].format = "ldp_vp"
  /\ rp' = "asking"
  /\ asked' = Append(asked, [about |-> "undefined", status |-> "pending"])
  /\ UNCHANGED <<request, opVars, demand, checked, ioVars>>

\* Faulty variant: a presentation that is skipped is counted twice.
SkipTwice ==
  /\ rp = "status" /\ Unchecked /\ ~StatusFails
  /\ demand.mode # "always" \/ response[checked + 1].format = "jwt_vp"
  /\ checked' = checked + 2
  /\ UNCHANGED <<request, opVars, rp, demand, asked, ioVars>>

\* JWT presentations are not looked into, nor any in an undefined mode.
SkipStatus ==
  /\ rp = "status" /\ Unchecked /\ ~StatusFails
  /\ demand.mode # "always" \/ response[checked + 1].format = "jwt_vp"
  /\ checked' = checked + 1
  /\ UNCHANGED <<request, opVars, rp, demand, asked, ioVars>>

\* Faulty variant: the status is asked for, and any will do.
LearnAnyStatus(status) ==
  /\ rp = "asking"
  /\ asked' = [asked EXCEPT ![Len(asked)].status = status]
  /\ rp' = "status" /\ checked' = checked + 1
  /\ UNCHANGED <<request, opVars, demand, ioVars>>

LearnStatus(status) ==
  /\ rp = "asking"
  /\ asked' = [asked EXCEPT ![Len(asked)].status = status]
  /\ IF status \in {"invalid", "failed"}
       THEN rp' = "rejected" /\ UNCHANGED checked
       ELSE rp' = "status" /\ checked' = checked + 1
  /\ UNCHANGED <<request, opVars, demand, ioVars>>

(***************************************************************************)
(* A callback returns that a presentation is verified or not, or it or the *)
(* evaluation that follows it throws: the promise of the predicate is then *)
(* rejected, and whether the process goes on is up to the platform.        *)
(***************************************************************************)
Settle(side, i, verdict) ==
  /\ side \notin stopped
  /\ i \in DOMAIN calls[side] /\ calls[side][i] = "pending"
  /\ calls' = [calls EXCEPT ![side][i] = verdict]
  /\ \/ UNCHANGED stopped
     \/ verdict = "failed" /\ stopped' = stopped \cup {side}
  /\ UNCHANGED <<request, opVars, rpVars>>

-----------------------------------------------------------------------------
Responses == UNION {[1..n -> Presentation] : n \in 0..MaxPresentations}

OpStep ==
  \/ FindDefinitions \/ FindFails
  \/ \E vps \in Responses, submission, callback \in BOOLEAN :
       Respond(vps, submission, callback) \/ RespondFails(vps, submission, callback)

RpStep ==
  /\ "rp" \notin stopped
  /\ \/ Match \/ Accept \/ RejectStatus \/ AskStatus \/ SkipStatus
     \/ \E status \in {"valid", "invalid", "failed"} : LearnStatus(status)

CallbackStep ==
  \E side \in Sides, i \in 1..MaxPresentations * MaxPresentations :
    \E verdict \in {"verified", "refuted", "failed"} : Settle(side, i, verdict)

Next == \/ OpStep \/ RpStep \/ CallbackStep
        \/ \E d \in Demand, callback \in BOOLEAN : Receive(d, callback)

Spec == Init /\ [][Next]_vars

\* The verification goes on, and the status callback settles or fails; the
\* callback that verifies presentations need not.
FairSpec == Spec /\ WF_vars(RpStep)

-----------------------------------------------------------------------------
Sent == Presentation \cup {Submission}

TypeOK ==
  /\ request \in Request
  /\ op \in {"verifying", "verified", "refused", "answered", "failed"}
  /\ definitions \subseteq Definitions
  /\ response \in Seq(Sent)
  /\ rp \in {"waiting", "matching", "mismatched", "status", "asking",
             "accepted", "rejected"}
  /\ demand \in Demand
  /\ checked \in 0..Len(response)
  /\ asked \in Seq([about: {"undefined", "credential"},
                    status: {"pending", "valid", "invalid", "failed"}])
  /\ calls \in [Sides -> Seq({"pending", "verified", "refuted", "failed"})]
  /\ stopped \subseteq Sides

(***************************************************************************)
(* The version discovery refuses requests with definitions at both places: *)
(* in a request that is verified there is at most one, which is all that   *)
(* the matching can cope with.                                             *)
(***************************************************************************)
OneDefinitionAtMost == op # "verifying" => Cardinality(definitions) <= 1

(***************************************************************************)
(* That draft 11 looks for no definition in the claims overlooks none: no  *)
(* request that is verified as draft 11 has one there.                     *)
(***************************************************************************)
NoDefinitionOverlooked ==
  op \in {"verified", "answered", "failed"} =>
    /\ request.vpToken # {} => ClaimsDefinition \in definitions
    /\ request.topLevel # {} => TopLevelDefinition \in definitions

(***************************************************************************)
(* An RP that demands what the OP has found in its request does not refuse *)
(* a response of that OP because of the presentations it contains.         *)
(***************************************************************************)
SidesAgree == rp = "mismatched" => demand.definitions # definitions

(***************************************************************************)
(* A response that is accepted answers all that was demanded, with nothing *)
(* in it besides, although it was the OP that chose the presentations.     *)
(***************************************************************************)
AcceptedAnswersDemand ==
  rp = "accepted" =>
    /\ demand.definitions = {response[i].answers : i \in DOMAIN response}
    /\ Len(response) = Cardinality(demand.definitions)

(***************************************************************************)
(* When the status is always to be checked, no response is accepted before *)
(* the status callback has answered "valid" for each JSON-LD presentation. *)
(***************************************************************************)
AcceptedWithValidStatus ==
  rp = "accepted" /\ demand.mode = "always" =>
    Cardinality({i \in DOMAIN asked : asked[i].status = "valid"})
      = Cardinality({i \in DOMAIN response : response[i].format = "ldp_vp"})

(***************************************************************************)
(* A verification callback that never settles does not keep the RP from    *)
(* ending the verification of a response.  Only one that fails may, by the *)
(* rejection that nobody handles, where that ends the process.             *)
(***************************************************************************)
VerificationEnds ==
  rp = "matching" ~>
    \/ rp \in {"mismatched", "accepted", "rejected"}
    \/ "rp" \in stopped

-----------------------------------------------------------------------------
(***************************************************************************)
(* Two promises of the documentation, which the code does not keep.         *)
(***************************************************************************)

(***************************************************************************)
(* "Enforces verifyPresentationCallback function on the RP side": what is  *)
(* accepted has been verified by the callback.                             *)
(***************************************************************************)
AcceptedPresentationsAreVerified ==
  rp = "accepted" => \A i \in DOMAIN calls["rp"] : calls["rp"][i] = "verified"

(***************************************************************************)
(* "We'll always check the revocation": the status callback has been asked *)
(* about the credential of each presentation that is accepted.             *)
(***************************************************************************)
CredentialStatusIsAsked ==
  rp = "accepted" /\ demand.mode = "always" =>
    \A i \in DOMAIN response : i \in DOMAIN asked /\ asked[i].about = "credential"

=============================================================================
