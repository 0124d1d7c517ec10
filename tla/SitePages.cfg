CONSTANTS
  Pages = {1, 2}
  Slugs = {1, 3}
  Languages = {en, ru}
  Roles = {anonymous}
  Requests = {r1, r2}
  Visitors = {v1}
  Runs = {s1}
  Authored = {en}
  Seeded = 1
  MaxWrites = 2
  MaxVisits = 2
  MaxTime = 1
SPECIFICATION Spec
INVARIANTS
  TypeOK
  EntriesIndexed
  OwnLanguageOnly
  StaleOnlyByRace
  SitemapFresh
  PublishedHasDate
PROPERTIES
  PublishedWhenDue
SYMMETRY InterchangeableRequests
CHECK_DEADLOCK FALSE
