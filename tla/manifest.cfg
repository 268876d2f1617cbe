SPECIFICATION FairSpec
CONSTANTS
  Readers = {r1}
  MaxPages = 2
  MaxPublishes = 2
  MaxCrashes = 2
INVARIANTS
  PublishedSurvives
  ViewsExact
PROPERTIES
  ManifestOpens
CHECK_DEADLOCK FALSE
