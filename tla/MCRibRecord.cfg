SPECIFICATION Spec
CONSTANTS
  LengthSize = 2
  MaxPrefixLen = 16
  PrefixLens <- MCPrefixLens
  Attributes <- MCAttributes
  RibPrefaceSize = 1
  GenericPrefaceSize = 2
  CountSize = 1
  EntryHeaderSize = 2
  DumpNumbersSize = 1
  DumpAddressSize <- MCDumpAddressSize
  DumpStatusSize = 2
  DumpPeerSize = 1
  EntryCounts = {0, 1, 2, 3}
  AttributeLengths = {0, 1, 3, 4, 7, 20}
  MaxPeers = 1
  MaxLength = 20
INVARIANTS
  TypeOK
  DelimitedExactly
  TableDumpExact
  OutcomeAsFramed
PROPERTY
  Decides
