-------------------------- MODULE RequestIssuance --------------------------
(***************************************************************************)
(* What an application may expect of an RP that issues authorization       *)
(* requests: both payloads of a request are decided in one step, from what *)
(* the RP remembers once it has taken in what the call was given, and stay *)
(* as they were decided.                                                   *)
(***************************************************************************)
EXTENDS RequestPayloads

VARIABLES
  memory,   \* what the RP remembers
  content,  \* the two payloads of each call
  status    \* the calls that are decided, issued and failed

issuanceVars == <<memory, content, status>>

Pair      == [object: Payload, outer: Payload]
Undecided == [object |-> NoPayload, outer |-> NoPayload]

Init ==
  /\ memory \in BuiltOptions
  /\ content = [c \in Calls |-> Undecided]
  /\ status = [c \in Calls |-> "unused"]

Decide(c, in) ==
  /\ status[c] = "unused"
  /\ ~MissesNonce(in)
  /\ memory' = OptionsAfter(memory, c, in)
  /\ status' = [status EXCEPT ![c] = "decided"]
  /\ content' = [content EXCEPT ![c] =
                   [object |-> RequestObjectPayload(c, OptionsAfter(memory, c, in)),
                    outer  |-> OuterPayload(OptionsAfter(memory, c, in))]]

\* A refused call is remembered as far as it was taken in.
Refuse(c, in) ==
  /\ status[c] = "unused"
  /\ MissesNonce(in)
  /\ memory' = OptionsAfter(memory, c, in)
  /\ status' = [status EXCEPT ![c] = "failed"]
  /\ UNCHANGED content

Issue(c) ==
  /\ status[c] = "decided"
  /\ status' = [status EXCEPT ![c] = "issued"]
  /\ UNCHANGED <<memory, content>>

\* A failed call yields nothing, and the RP remembers it all the same.
Fail(c) ==
  /\ status[c] = "decided"
  /\ status' = [status EXCEPT ![c] = "failed"]
  /\ content' = [content EXCEPT ![c] = Undecided]
  /\ UNCHANGED memory

Next ==
  \E c \in Calls :
    \/ \E in \in Inputs : Decide(c, in) \/ Refuse(c, in)
    \/ Issue(c)
    \/ Fail(c)

Spec == Init /\ [][Next]_issuanceVars

=============================================================================
