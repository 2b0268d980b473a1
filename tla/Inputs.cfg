CONSTANTS
  alice = alice
  bob = bob
  carol = carol
  junk = junk
  tag = tag
  Absent = Absent
  Null = Null
  Owner = alice
  At = 5
  MAX_TAGS = 4
  Tags <- AllTags
  Contexts <- AllContexts
  Keys <- AllKeys
  Documents <- AllDocuments
  Outputs <- AllOutputs
  Identifiers <- AllIdentifiers
  MAX_STEM_LEN = 64
  MAX_NAMECOIN_NAME_BYTES = 67
  MAX_VOUT = 2
SPECIFICATION InputsSpec
INVARIANTS
  OrderOfTagsIsIrrelevant
  ValueIsTheOwners
  KeyIsGranted
PROPERTIES
  DenyIsFinal
  AllowOnlyPassesGates
CHECK_DEADLOCK FALSE
