CONSTANTS
  Admins = {a1, a2}
  Count = 2
  Versions <- OneAndTwo
  Restricted = {2}
  Guarded = {2}
  PreInit = {1}
  MaxBoots = 3
  MaxFaults = 1
SPECIFICATION Spec
INVARIANTS
  TypeOK
  StatusPersisted
  ActiveIsReady
  PolicyKept
  OnceUnless
SYMMETRY InterchangeableAdmins
CHECK_DEADLOCK FALSE
