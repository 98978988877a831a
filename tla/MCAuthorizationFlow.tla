------------------------ MODULE MCAuthorizationFlow ------------------------
(***************************************************************************)
(* AuthorizationFlow with few requests, links and verifications.           *)
(***************************************************************************)
EXTENDS AuthorizationFlow, TLC

CONSTANTS r1, r2, p1, p2

\* The second party gets responses that are not meant for it.
OneOwner == [r \in Requests |-> p1]

\* Links to one request, by any way, with or without its nonce.
By(channels) == [request: {r1}, channel: channels, nonce: {NoRequest}]
Values       == By({"jwt", "value"})
References   == By({"reference"})
AllChannels  == By({"jwt", "value", "reference"})
                \cup [request: {r1}, channel: {"reference"}, nonce: {r1}]

\* Of implementer's draft 1, with the state in both payloads, or of draft 11.
Draft1 == [state: {TRUE}, registration: {TRUE}]
Drafts == Draft1 \cup [state: {FALSE}, registration: {FALSE}]

Demanding == [party: Parties, audience: {TRUE}, callback: {TRUE},
              nonce: {NoRequest}]
\* Some without an audience to compare, or without the callback.
Careless  == Demanding
               \cup [party: {p2}, audience: {FALSE}, callback: {TRUE},
                     nonce: {NoRequest}]
               \cup [party: {p1}, audience: {TRUE}, callback: {FALSE},
                     nonce: {r2}]

=============================================================================
