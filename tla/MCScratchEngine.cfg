CONSTANTS
  a = a
  b = b
  Role = Role
  ImStart = ImStart
  Eos = Eos
  Vocabulary <- MCVocabulary
  Garbage = Garbage
  Bytes <- MCBytes
  Specials <- MCSpecials
  Merges <- MCMerges
  Prompts <- MCPrompts
  Grain = 2
  Layers = 2
  MaxSeq = 9
  MaxNew = 4
SPECIFICATION Spec
CHECK_DEADLOCK FALSE
INVARIANTS
  TypeOK
  BytesKept
  MergedByRank
  CacheTransparent
  FailsAtContext
