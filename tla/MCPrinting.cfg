SPECIFICATION Spec
CONSTANTS
  Messages <- MCMessages
  Uninitialised <- MCUninitialised
  ASModulus = 8
  Invalid = "invalid"
INVARIANTS
  TypeOK
  LinesFaithful
  EachListedOnce
  ProgramsAgree
  XmlAgrees
