SPECIFICATION Spec
CONSTANTS
  W = 28
  HeaderSize = 4
  LengthSize = 2
  MaxPrefixLen = 24
  PrefixLens <- MCPrefixLens
  Attributes <- MCAttributes
INVARIANTS
  TypeOK
  SectionsExact
  AcceptedExactly
PROPERTIES
  OverreadRefused
  Decides
