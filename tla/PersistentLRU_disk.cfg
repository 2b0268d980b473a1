CONSTANTS
  resolver = resolver
  authors = authors
  name = name
  name2 = name2
  author = author
  Deployments <- Apart
  Stored <- StoredLongAndShort
  MAX = 1
  COMPACT_EVERY = 2
  MAX_LOG = 3
SPECIFICATION Spec
INVARIANTS
  NoRevival
  LatestWins
PROPERTIES
  RestartKeeps
