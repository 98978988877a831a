SPECIFICATION Spec
CONSTANTS
  Version = {71, 110}
  Methods = {"ethr", "key"}
  FormatNames = {"jwt_vc", "ldp_vc"}
  Algs = {"ES256", "EdDSA"}
  Required = {"redirect_uri"}
  Options = {"requestBy"}
  TypeLists <- MCTypeLists
  OwnFormats <- MCOwnFormats
  Peers <- MCPeers
  MaxCalls = 5
  MaxBuilds = 2
  MaxObjects = 2
INVARIANT ConfiguredMethodIsResolved
CHECK_DEADLOCK FALSE
