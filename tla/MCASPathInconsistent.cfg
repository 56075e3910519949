SPECIFICATION Spec
CONSTANTS
  SegmentTypes <- MCSegmentTypes
  ASNs <- MCASNs
  Paths <- MCPaths
  Paths4 <- MCPaths4
INVARIANTS
  InconsistentNotProcessed
