SPECIFICATION SystemSpec
CONSTANTS
  None = None
  alice = alice
  bob = bob
  carol = carol
  k1 = k1
  k2 = k2
  ip = ip
  ta = ta
  tb = tb
  tn = tn
  tm = tm
  kekA = kekA
  kekOld = kekOld
  UserId <- MCUserId
  Kid <- MCKid
  Token <- MCToken
  Ip <- MCIp
  Kek <- MCKek
  NewUsers <- MCNewUsers
  NewTokens <- MCNewTokens
  ActiveKek = kekOld
  KnownKeks <- MCKek
  AllowExportKey = FALSE
  MaxTime = 0
  Grace = 0
  DbSkew = 0
  MaxCrashes = 0
  MaxOperators = 2
  Request = {r1}
  Command = {c1, c2}
  InitialTables <- MCTables
  Inputs <- AllInputs
  CommandLines <- AllLines
CONSTRAINT OneScenario
INVARIANTS SystemConsistent AnswersFollowRights RevokedTokensStayDead PrintedTokensWork
PROPERTIES NoResurrection AclOnlySetByUpdateAcl
CHECK_DEADLOCK FALSE
