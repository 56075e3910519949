SPECIFICATION Spec
CONSTANTS
  HeaderLen <- MCHeaderLen
  Files <- MCFiles4
INVARIANTS
  TypeOK
  TablesAgree
  EndsWithAllDumped
PROPERTIES
  Terminates
  ImplementsRecordLog
