SPECIFICATION Spec
CONSTANTS
  Addresses = {a1, a2}
  NoAddress = none
  Contents = {"profile", "null"}
  Tokens = {"token", "null"}
  MaxBytes = 1
INVARIANTS
  SessionDataTypeOK
  AccessOnLive
  OneOwner
  Configured
  SpeedsAddUp
SYMMETRY AnyAddress
CHECK_DEADLOCK FALSE
