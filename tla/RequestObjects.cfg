SPECIFICATION Spec
CONSTANTS
  Calls = {c1, c2, c3}
  Signatures = {"internal", "external", "supplied"}
CHECK_DEADLOCK FALSE
INVARIANTS
  TypeOK
  JwtsAgree
  UriCarriesJwt
  SignedIsReadable
