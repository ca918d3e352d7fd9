SPECIFICATION Spec
CONSTANTS
  None = None
  alice = alice
  bob = bob
  k1 = k1
  k2 = k2
  ip = ip
  ta = ta
  tb = tb
  kekA = kekA
  kekOld = kekOld
  UserId <- MCUserId
  Kid <- MCKid
  Token <- MCToken
  Ip <- MCIp
  Kek <- MCKek
  KnownKeks <- MCKnownKeks
  ActiveKek = kekA
  AllowExportKey = TRUE
  MaxTime = 0
  Grace = 0
  DbSkew = 0
  MaxCrashes = 0
  Request = {r1}
  InitialTables <- RevokeTables
  Inputs <- UnknownInputs
INVARIANTS OkMeansOperation
CHECK_DEADLOCK FALSE
