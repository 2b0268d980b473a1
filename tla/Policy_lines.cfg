CONSTANTS
  alice = alice
  bob = bob
  x = x
  y = y
  r1 = r1
  r2 = r2
  tag = tag
  Absent = Absent
  NoDoc = NoDoc
  NoTag = Absent
  NoCommunity = Absent
  OtherCommunity = OtherCommunity
  Community <- Owner
  NoEntry = NoEntry
  Forever = Forever
  NoKey = NoKey
  Missing = Missing
  NoNip05 = NoNip05
  NonBit = NonBit
  RulesKind = 34551
  Reqs = {r1, r2}
  Ids = {x}
  Pubkeys = {alice, bob}
  Traffic <- AllLines
  Configs <- AllConfigs
  Docs <- RulesDocs
  CACHE_TTL = 2
  NEG_TTL = 1
  LOOKUP_MS = 1
SPECIFICATION Spec
SYMMETRY Lines
INVARIANTS
  IdentityIsRecent
  AuthorIsRecent
  NegativeIsRecent
  NewestRulesHold
