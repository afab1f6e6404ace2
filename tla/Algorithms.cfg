SPECIFICATION Spec
CHECK_DEADLOCK FALSE
CONSTANTS
  MaxGroupDepth = 1
  MaxInt = 63
  MaxAliasAmplification = 2
  MinExpandedNodes = 7
  MergeDepthLimit = 1
  MaxCachedPairs = 4
  MinIndexedPairs = 2
  MaxDecimalExp = 2
  ExpSaturation = 40
  Places = {"a", "b", "c"}
  Inside = {"a", "b"}
  ReadChunkBytes = 2
  MinRead = 1
  MaxInitial = 2
  MaxLimit = 63
  MaxSize = 3
  MaxRefChain = 2
  MaxNavigableHops = 2
  Askers = {1, 2}
  Used = {"u", "U", "v", "w"}
  ReadUnder <- RequestKey
  SelfKeys = {"self"}
  Spellings = {"p", "q", "r"}
  SourceSites = {1, 2}
  SourceWrites <- SpelledBySource
  Writes <- SpellingsIn
  MaxDocuments = 2
  MaxOpenedSpellings = 1
INVARIANTS
  ReadsBounded
  LoadSettles
PROPERTIES
  FactsTrue
  JudgesTell
  SourceCharged
  TextsRead
  ReferencesTrue
  IdentifiersBound
  MergeTrue
  OperationsMounted
  SchemasRead
