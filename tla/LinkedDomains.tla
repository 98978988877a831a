--------------------------- MODULE LinkedDomains ---------------------------
(***************************************************************************)
(* The check that a DID is linked to a domain, did/                        *)
(* LinkedDomainValidations.ts, which the OP makes of the client_id of a    *)
(* request and the RP of the subject of an ID token.  What the checker of  *)
(* well-known DIDs reports is arbitrary: valid or not, a message of its    *)
(* own, and messages of endpoints and of their resources.                  *)
(***************************************************************************)
EXTENDS Selections

\* "absent": one of the four messages that say that nothing is linked;
\* "bad": any other message; "none": no message.
Message  == {"none", "absent", "bad"}
Endpoint == [message: Message, resources: Seq(Message)]
Modes    == {"never", "if_present", "always", "undefined"}

\* What one check meets: the DID is resolved or not, the checker answers or
\* throws an error with a message.
Unresolved           == [is |-> "unresolved"]
Thrown(message)      == [is |-> "thrown", message |-> message]
Valid                == [is |-> "valid"]
Invalid(message, es) == [is |-> "invalid", message |-> message, endpoints |-> es]

\* What may be met: the checker is not the library's.
DomainResult(r) ==
  \/ r \in {Unresolved, Valid}
  \/ r.is = "thrown" /\ r.message \in Message /\ r = Thrown(r.message)
  \/ /\ r.is = "invalid" /\ r.message \in Message /\ r.endpoints \in Seq(Endpoint)
     /\ r = Invalid(r.message, r.endpoints)

Messages == Message \ {"none"}

\* The message of the result, then those of each endpoint and its resources.
getValidationErrorMessages(r) ==
  LET upTo[n \in 0..Len(r.endpoints)] ==
        IF n = 0 THEN Kept(<<r.message>>, Messages)
        ELSE upTo[n - 1] \o Kept(<<r.endpoints[n].message>> \o r.endpoints[n].resources, Messages)
  IN  upTo[Len(r.endpoints)]

\* Faulty variant: one message that nothing is linked is enough.
AbsentAmongThem(messages) == \E i \in DOMAIN messages : messages[i] = "absent"

\* The status of checkInvalidMessages: all say that nothing is linked.
OnlyAbsent(messages) == messages # <<>> /\ \A i \in DOMAIN messages : messages[i] = "absent"

\* The message of the error: the first that says something else.
Objection(messages) == IF OnlyAbsent(messages) THEN "absent" ELSE "bad"

Refuses(mode, messages) ==
  \/ mode = "always"
  \/ mode = "if_present" /\ ~OnlyAbsent(messages)

\* An error that is thrown for an invalid result is caught and judged again.
CaughtRefuses(mode, message) == Refuses(mode, <<message>>)

validateLinkedDomainWithDid(mode, r) ==
  CASE r.is = "unresolved" -> FALSE
    [] r.is = "valid"      -> TRUE
    [] r.is = "thrown"     -> ~CaughtRefuses(mode, r.message)
    [] r.is = "invalid"    ->
         LET messages == getValidationErrorMessages(r)
         IN  ~(Refuses(mode, messages) /\ CaughtRefuses(mode, Objection(messages)))

\* Both sides take a mode that is not given for "if_present".
Asked(mode)     == mode # "never"
Effective(mode) == IF mode = "undefined" THEN "if_present" ELSE mode

DomainAccepted(mode, r) == Asked(mode) => validateLinkedDomainWithDid(Effective(mode), r)

=============================================================================
