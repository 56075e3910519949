SPECIFICATION Spec
CONSTANTS
  RecordLengths <- MCRecordLengths
  MessageLengths <- MCMessageLengths
  OptParmLens <- MCOptParmLens
  ParameterLens <- MCParameterLens
  CountModulus = 200
  ViewNameLengths <- MCViewNameLengths
  PeerCounts <- MCPeerCounts
INVARIANTS
  TypeOK
  NotificationExact
  OpenWhole
  PeerTableWhole
PROPERTIES
  Decides
