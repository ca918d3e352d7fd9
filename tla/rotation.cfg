SPECIFICATION FairSpec
CONSTANTS
  Keks = {a, b, c}
  Keys = {k1, k2}
  Uses = {u}
  None = None
  MaxKills = 1
INVARIANTS RotationConsistent NoKeyLost NeverUnavailable
PROPERTIES RotationEnds
CHECK_DEADLOCK FALSE
