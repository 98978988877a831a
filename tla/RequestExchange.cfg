SPECIFICATION Spec
CONSTANTS
  TaggedKeys <- Tagged
  FieldOf <- TaggedField
  TagOf <- TaggedTag
  ValidTags <- Languages
  Settings <- FewSettings
  Dids <- DidTexts
  Served <- ServedMetadata
  ServedDefs <- ServedDefinitions
  DomainChecks <- Results
CHECK_DEADLOCK FALSE
INVARIANTS
  TypeOK
  RecognisedAsIssued
  RefusalsExplained
  RequestArrives
  PresentedAsAsked
  DomainAsDemanded
  PublishedAsSpecified
