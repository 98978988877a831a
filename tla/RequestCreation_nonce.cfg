\* A call without a nonce after a call with one.
SPECIFICATION SerialSpec
CONSTANTS
  Calls = {c1, c2}
  NoCall = NoCall
  Inputs <- FewInputs
  PassBy = "reference"
CHECK_DEADLOCK FALSE
INVARIANT
  OmittedNonceIsGenerated
