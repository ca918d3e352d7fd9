SPECIFICATION InputsSpec
CONSTANTS
  OctetBits = 2
  NOctets = 2
  GroupBits = 2
  NGroups = 4
  None = None
  Junk = Junk
  idA = idA
  idB = idB
  idC = idC
  Proxy <- MCProxy
  Calls <- MCCalls
  FileLists <- MCFileLists
  Lengths <- MCLengths
INVARIANTS
  RouteYieldsClient
  AllowedIffDenoted
  InvalidIffNothing
  UpWithDocumentedKeks
  GeneratedIffDocumented
  KeyServesItsAlgorithm
CHECK_DEADLOCK FALSE
