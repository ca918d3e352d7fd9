SPECIFICATION Spec
CONSTANTS
  None = None
  alice = alice
  bob = bob
  k1 = k1
  k2 = k2
  ip = ip
  ta = ta
  tb = tb
  kekA = kekA
  kekOld = kekOld
  UserId <- MCUserId
  Kid <- MCKid
  Token <- MCToken
  Ip <- MCIp
  Kek <- MCKek
  KnownKeks <- MCKnownKeks
  ActiveKek = kekA
  AllowExportKey = TRUE
  MaxTime = 2
  Grace = 2
  DbSkew = 2
  MaxCrashes = 1
  Request = {r1, r2}
  InitialTables <- BothTables
  Inputs <- BothInputs
CONSTRAINT OneScenario
SYMMETRY RequestsAlike
INVARIANTS HandlersConsistent OkIsAudited OneRevocationPerKey EndedKeyNeverServed
  KeysAreOwned
PROPERTIES KeysEndForAReason KeepsPromise
CHECK_DEADLOCK FALSE
