SPECIFICATION FairSpec
CONSTANTS
  ClaimsDefinition = ClaimsDefinition
  TopLevelDefinition = TopLevelDefinition
  NoDefinition = NoDefinition
  Formats = {"ldp_vp", "jwt_vp", "other"}
  MaxPresentations = 2
CHECK_DEADLOCK FALSE
INVARIANTS
  TypeOK
  OneDefinitionAtMost
  NoDefinitionOverlooked
  SidesAgree
  AcceptedAnswersDemand
  AcceptedWithValidStatus
PROPERTIES
  VerificationEnds
