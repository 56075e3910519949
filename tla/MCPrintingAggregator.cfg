SPECIFICATION Spec
CONSTANTS
  Messages <- MCAggregators
  Uninitialised <- MCUninitialised
  ASModulus = 8
  Invalid = "invalid"
INVARIANT
  AggregatorsDumped
