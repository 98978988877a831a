SPECIFICATION Spec
CONSTANTS
  ClaimsDefinition = ClaimsDefinition
  TopLevelDefinition = TopLevelDefinition
  NoDefinition = NoDefinition
  Formats = {"ldp_vp"}
  MaxPresentations = 1
CHECK_DEADLOCK FALSE
INVARIANT AcceptedPresentationsAreVerified
