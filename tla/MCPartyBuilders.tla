-------------------------- MODULE MCPartyBuilders --------------------------
(* The inputs of the builders on a small instance.                          *)
EXTENDS PartyBuilders

MCTypeLists == {<<Undefined>>, <<Did>>, <<OfMethod("key"), Jwk>>}

Signs(algs) == [key |-> "alg", algs |-> algs]

MCOwnFormats == "jwt_vc" :> Signs({"ES256", "EdDSA"}) @@ "ldp_vc" :> Signs({"EdDSA"})

MCPeers ==
  {[types |-> <<Did>>, formats |-> "jwt_vc" :> Signs({"ES256"})],
   [types |-> <<OfMethod("ethr"), OfMethod("key")>>, formats |-> MCOwnFormats],
   [types |-> <<Jwk, Other>>, formats |-> "jwt_vc" :> Signs({"EdDSA"}) @@ "ldp_vc" :> Signs({"ES256"})],
   [types |-> <<Jwk, Undefined>>, formats |-> "jwt_vc" :> [key |-> "proof_type", algs |-> {"ES256"}]]}
=============================================================================
