\* Three calls interleave at their awaits.
SPECIFICATION Spec
CONSTANTS
  Calls = {c1, c2, c3}
  NoCall = NoCall
  Inputs <- FewInputs
  PassBy = "reference"
SYMMETRY CallSymmetry
CHECK_DEADLOCK FALSE
INVARIANTS
  TypeOK
  RequestObjectIsOwn
  OuterPayloadNotOlder
  InheritedNonceIsLatest
PROPERTIES
  FailedCallWritesStateOnly
  OwnDefinitionNotRejected
  UndisturbedCallsAreAtomic
