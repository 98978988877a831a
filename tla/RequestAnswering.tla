-------------------------- MODULE RequestAnswering --------------------------
(***************************************************************************)
(* What the two parties promise each other: an OP answers the request it   *)
(* has verified, and an RP accepts answers to its own requests only.       *)
(***************************************************************************)
CONSTANTS
  Requests,   \* the requests the RPs issue
  Sessions,   \* the links an OP handles
  Parties,    \* the RPs
  Owner,      \* the RP of each request
  NoRequest

VARIABLES
  verified,   \* the request each session has verified
  answered,   \* the request each session has answered
  accepted    \* the pairs of an RP and a request it has an answer to

vars == <<verified, answered, accepted>>

Init ==
  /\ verified = [s \in Sessions |-> NoRequest]
  /\ answered = [s \in Sessions |-> NoRequest]
  /\ accepted = {}

Verify(s) ==
  /\ verified[s] = NoRequest
  /\ \E r \in Requests : verified' = [verified EXCEPT ![s] = r]
  /\ UNCHANGED <<answered, accepted>>

Answer(s) ==
  /\ verified[s] # NoRequest
  /\ answered[s] = NoRequest
  /\ answered' = [answered EXCEPT ![s] = verified[s]]
  /\ UNCHANGED <<verified, accepted>>

Accept(p, s) ==
  /\ answered[s] # NoRequest
  /\ Owner[answered[s]] = p
  /\ accepted' = accepted \cup {<<p, answered[s]>>}
  /\ UNCHANGED <<verified, answered>>

Next == \E s \in Sessions :
          Verify(s) \/ Answer(s) \/ \E p \in Parties : Accept(p, s)

Spec == Init /\ [][Next]_vars

=============================================================================
