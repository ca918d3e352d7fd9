SPECIFICATION AddressSpec
CONSTANTS
  OctetBits = 2
  NOctets = 2
  GroupBits = 2
  NGroups = 4
  None = None
  Proxy <- MCProxy
  Calls <- MCMoreHops
INVARIANTS ShortHeaderMeansPeer
CHECK_DEADLOCK FALSE
