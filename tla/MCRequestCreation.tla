------------------------- MODULE MCRequestCreation -------------------------
(***************************************************************************)
(* RequestCreation on small sets of calls and arguments.                   *)
(***************************************************************************)
EXTENDS RequestCreation, TLC

Everywhere    == [given |-> TRUE, scoped |-> FALSE, targets |-> {}]
Only(targets) == [given |-> TRUE, scoped |-> TRUE, targets |-> targets]

Arguments(states, nonces, claims, keys, valid, uri) ==
  [state: states, nonce: nonces, claims: claims, keys: keys,
   valid: valid, uri: uri]

\* Given or not, to both payloads or one, with claims and without; what makes
\* claims is asked for as a request, the rest as a URI.
FewInputs ==
  Arguments({Omitted, Everywhere}, {Omitted, Everywhere, Only({AuthSide})},
            {Omitted}, {{}}, {TRUE}, {TRUE})
    \cup
  Arguments({Everywhere}, {Omitted}, {Everywhere}, {{"vp_token"}}, {TRUE}, {FALSE})
    \cup
  Arguments({Everywhere}, {Only({RoSide})}, {Only({AuthSide})},
            {{"vp_token"}}, BOOLEAN, {FALSE})
    \cup
  Arguments({Everywhere}, {Only({RoSide})}, {Everywhere},
            {{"id_token"}}, {TRUE}, {FALSE})

CallSymmetry == Permutations(Calls)

=============================================================================
