SPECIFICATION Spec
CONSTANTS
  HeaderLen <- MCHeaderLen
  Files <- MCFilesIndex
INVARIANT
  CorruptIndexRefused
