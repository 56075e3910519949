SPECIFICATION Spec
CONSTANTS
  Lengths <- MCLengths
  FirstOctets <- MCFirstOctets
  NextHopLengths <- MCNextHopLengths
  PrefixLens <- MCPrefixLens
  SegmentLens <- MCSegmentLens
  CountModulus = 64
INVARIANTS
  TypeOK
  WholeValueRead
PROPERTIES
  Decides
