CONSTANTS
  owner = owner
  other = other
  tag = tag
  tag2 = tag2
  NoDoc = NoDoc
  NoTag = NoTag
  NoCommunity = NoCommunity
  Community = NoCommunity
  Docs <- ManyKeyDocs
SPECIFICATION LoaderSpec
INVARIANTS
  NoRollback
  OrderIndependent
PROPERTIES
  LiftedOnlyByRatchet
