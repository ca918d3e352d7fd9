SPECIFICATION FairSpec
CONSTANTS
  None = None
  alice = alice
  bob = bob
  k1 = k1
  k2 = k2
  ip = ip
  ta = ta
  tb = tb
  kekA = kekA
  kekOld = kekOld
  UserId <- MCUserId
  Kid <- MCKid
  Token <- MCToken
  Ip <- MCIp
  Kek <- MCKek
  KnownKeks <- MCKnownKeks
  ActiveKek = kekA
  AllowExportKey = TRUE
  MaxTime = 2
  Grace = 1
  DbSkew = 1
  MaxCrashes = 1
  Request = {r1}
  InitialTables <- OpsTables
  Inputs <- OpsInputs
INVARIANTS ExistenceMasked DenialsRecorded
PROPERTIES EveryRequestAnswered ExpiredKeysReaped
CHECK_DEADLOCK FALSE
