CONSTANTS
  Requests = {r1, r2}
  Ids = {1, 2}
  Pages = {1, 2}
  Codes = {en, ru, enru}
  Slugs = {en, ru, enru, about}
  Translated = {enru}
  Supported = {en, ru}
  English = en
  MaxWrites = 4
SPECIFICATION Spec
INVARIANTS
  TypeOK
  OneDefault
  DefaultIsActive
  ShadowedOnlyUnchecked
  NoOrphans
  ProcessUpToDate
SYMMETRY InterchangeableRequests
CHECK_DEADLOCK FALSE
