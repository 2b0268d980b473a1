CONSTANTS
  resolver = resolver
  authors = authors
  name = name
  name2 = name2
  author = author
  Deployments <- Shared
  Stored <- StoredLongAndShort
  MAX = 2
  COMPACT_EVERY = 2
  MAX_LOG = 3
SPECIFICATION Spec
PROPERTIES
  RestartKeeps
