SPECIFICATION Spec
CONSTANTS
  HeaderLen <- MCHeaderLen
  Files <- MCFiles3
INVARIANTS
  TypeOK
  Framing
  TableInForce
  ShownFaithfully
  NothingLost
  ErrorsAreCuts
PROPERTIES
  Terminates
  ImplementsRecordLog
